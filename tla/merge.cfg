SPECIFICATION Spec
CONSTANTS
    None = None
    Invalid = Invalid
    OutOfRange = OutOfRange
    t1 = t1
    t2 = t2
    a1 = a1
    Keys <- MCKeys
    TxIds <- MCTxIds
    TxOutputs <- MCTxOutputs
    WalletKeys <- MCWalletKeys
    WalletScripts <- MCWalletScripts
    Garbage <- MCGarbage
    InputArgs <- MergeInputArgs
    SendToArgs <- MergeSendToArgs
    CrosschainArgs <- MergeCrosschainArgs
    PrevTxArgs <- MergePrevTxArgs
    KeyArgs <- MergeKeyArgs
    HashTypeArgs <- MergeHashTypeArgs
    h1 = h1
    h2 = h2
    NullHash = NullHash
    BwtArgs <- NoArgs
    CertParamArgs <- NoArgs
    CertKeyArgs <- NoArgs
    MaxVariants = 2
    MaxWire = 2
INVARIANTS
    TypeOK
    NoSignatureLost
    OnlyAuthorisedKeysSign
    CompleteInAnyOrder
