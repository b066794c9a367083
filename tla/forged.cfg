SPECIFICATION Spec
CONSTANTS
    None = None
    Invalid = Invalid
    NullHash = NullHash
    Unknown = Unknown
    g = g
    b1 = b1
    b2 = b2
    b3 = b3
    c0 = c0
    c1 = c1
    c2 = c2
    c3 = c3
    t1 = t1
    t2 = t2
    t3 = t3
    t4 = t4
    t5 = t5
    z = z
    BlockTxs <- MCBlockTxs
    BlockPrev <- MCBlockPrev
    BlockSpends <- MCBlockSpends
    TxidArgs <- MCTxidArgs
    BlockArgs <- MCBlockArgs
    HashArgs <- MCHashArgs
    ForgedHashes <- MCForgedHashes
    MaxBlockTxs = 4
    MaxEdits = 2
    MaxWire = 1
INVARIANT
    VerifiedIdsAreInBlock
