SPECIFICATION DecodeSpec
CONSTANTS
    None = None
    Invalid = Invalid
    OutOfRange = OutOfRange
    t1 = t1
    t2 = t2
    a1 = a1
    Keys <- MCKeys
    TxIds <- MCTxIds
    TxOutputs <- MCTxOutputs
    WalletKeys <- MCWalletKeys
    WalletScripts <- MCWalletScripts
    Garbage <- MCGarbage
    StrayBytes <- MCStrayBytes
    ForeignEntities <- MCForeign
    PkhSize = 2
    ScriptArgs <- MCScriptArgs
    InputArgs <- CertInputArgs
    SendToArgs <- CertSendToArgs
    CrosschainArgs <- MergeCrosschainArgs
    PrevTxArgs <- CertPrevTxArgs
    KeyArgs <- CertTxKeyArgs
    HashTypeArgs <- CertHashTypeArgs
    h1 = h1
    h2 = h2
    NullHash = NullHash
    BwtArgs <- CertBwtArgs
    CertParamArgs <- CertCertParamArgs
    CertKeyArgs <- CertCertKeyArgs
    MaxVariants = 2
    MaxWire = 2
INVARIANTS
    TypeOK
    SignsItsOwnKind
    CompleteIffAllInputsVerify
    OnlyAuthorisedKeysSign
    BwtKeyShownAsGiven
