SPECIFICATION SendSpec
CONSTANTS
    None = None
    Invalid = Invalid
    OutOfRange = OutOfRange
    t1 = t1
    t2 = t2
    a1 = a1
    Keys <- MCKeys
    TxIds <- MCTxIds
    TxOutputs <- MCTxOutputs
    WalletKeys <- MCWalletKeys
    WalletScripts <- MCWalletScripts
    Garbage <- MCGarbage
    InputArgs <- SendInputArgs
    SendToArgs <- SendSendToArgs
    CrosschainArgs <- MergeCrosschainArgs
    PrevTxArgs <- CertPrevTxArgs
    KeyArgs <- SendKeyArgs
    HashTypeArgs <- DefaultHashTypeArgs
    h1 = h1
    h2 = h2
    NullHash = NullHash
    BwtArgs <- SendBwtArgs
    CertParamArgs <- SendCertParamArgs
    CertKeyArgs <- SendCertKeyArgs
    MaxVariants = 1
    MaxWire = 2
INVARIANTS
    MempoolIsSpendable
    RelayedIsInMempool
PROPERTY
    ClaimsKept
