---------------------------- MODULE MCTxOutProof ----------------------------
(***************************************************************************)
(* The blocks, the requests and the bounds of the runs of TxOutProof.      *)
(***************************************************************************)
EXTENDS TxOutProof

CONSTANTS
    g, b1, b2, b3,       \* blocks
    c0, c1, c2, c3,      \* their coinbases
    t1, t2, t3, t4, t5,  \* transactions
    z                    \* an id of no block

(***************************************************************************)
(* b1 has three entities, so that its tree pairs a node with itself; b2    *)
(* and b3 are built on b1 and both hold t3, at different places; b2 spends *)
(* the last output of t1.                                                  *)
(***************************************************************************)
MCBlockTxs ==
    g :> <<c0>> @@ b1 :> <<c1, t1, t2>> @@ b2 :> <<c2, t3>>
      @@ b3 :> <<c3, t4, t3, t5>>
MCBlockPrev   == g :> None @@ b1 :> g @@ b2 :> b1 @@ b3 :> b1
MCBlockSpends == g :> {} @@ b1 :> {} @@ b2 :> {t1} @@ b3 :> {}

\* No ids, one, several of one block in both orders, of two blocks, a
\* repeated id, an id of no block, and a string that is no id.
MCTxidArgs ==
    {<< >>, <<t1>>, <<t1, t2>>, <<t2, t1>>, <<t3>>, <<t2, t3>>, <<t3, t5>>,
     <<t1, t1>>, <<z>>, <<Invalid>>}
MCBlockArgs == {None, b1, b2, b3, Unknown}

\* Every id of a block, an id of no block, and a string that is no id.
MCHashArgs == {c0, c1, c2, c3, t1, t2, t3, t4, t5, z, Invalid}

MCForgedHashes == {z, t1}

=============================================================================
