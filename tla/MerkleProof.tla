----------------------------- MODULE MerkleProof -----------------------------
(***************************************************************************)
(* The pruned Merkle tree of an inclusion proof (CPartialMerkleTree, which *)
(* gettxoutproof builds through CMerkleBlock and verifytxoutproof replays  *)
(* with ExtractMatches), and the Merkle root a block header commits to.    *)
(*                                                                         *)
(* The hash of two hashes is the pair of them: no two inputs collide, and  *)
(* a hash is either an entity id or such a pair.  Leaves are numbered from *)
(* 0 as in the code; sequences are indexed from 1.                         *)
(***************************************************************************)
EXTENDS Integers, Sequences, TLC

CONSTANTS
    NullHash,    \* uint256(): the hash ExtractMatches returns for a bad proof
    MaxBlockTxs  \* MAX_BLOCK_SIZE / 60: more leaves than a block can hold

Hash(left, right) == <<left, right>>

\* The number of nodes of the tree over n leaves at the given height.
CalcTreeWidth(n, height) == (n + 2^height - 1) \div 2^height

\* The height of the root: the first height whose width is not above 1.
TreeHeight(n) ==
    CHOOSE h \in 0..n :
        /\ CalcTreeWidth(n, h) <= 1
        /\ \A k \in 0..(h - 1) : CalcTreeWidth(n, k) > 1

HasRight(n, height, pos) == 2 * pos + 1 < CalcTreeWidth(n, height - 1)

\* The positions (from 1) of the leaves below node pos of a height.
LeavesBelow(n, height, pos) == {p \in 1..n : (p - 1) \div 2^height = pos}

-----------------------------------------------------------------------------
(* The root of a block, computed level by level as the header's is: the    *)
(* last node of a level of odd width is paired with itself.                *)

RECURSIVE MerkleRoot(_)
MerkleRoot(level) ==
    IF Len(level) = 1
    THEN level[1]
    ELSE MerkleRoot([i \in 1..((Len(level) + 1) \div 2) |->
             Hash(level[2 * i - 1],
                  level[IF 2 * i <= Len(level) THEN 2 * i ELSE 2 * i - 1])])

-----------------------------------------------------------------------------
(* Building: a depth-first traversal that emits one bit per node visited   *)
(* and the hash of every node it does not descend into.                    *)

RECURSIVE CalcHash(_, _, _)
CalcHash(height, pos, vTxid) ==
    IF height = 0
    THEN vTxid[pos + 1]
    ELSE Hash(CalcHash(height - 1, 2 * pos, vTxid),
              CalcHash(height - 1,
                       IF HasRight(Len(vTxid), height, pos) THEN 2 * pos + 1 ELSE 2 * pos,
                       vTxid))

Emitted(bits, hashes) == [vBits |-> bits, vHash |-> hashes]

RECURSIVE TraverseAndBuild(_, _, _, _)
TraverseAndBuild(height, pos, vTxid, vMatch) ==
    LET fParentOfMatch == \E p \in LeavesBelow(Len(vTxid), height, pos) : vMatch[p]
        left  == TraverseAndBuild(height - 1, 2 * pos, vTxid, vMatch)
        right == IF HasRight(Len(vTxid), height, pos)
                 THEN TraverseAndBuild(height - 1, 2 * pos + 1, vTxid, vMatch)
                 ELSE Emitted(<< >>, << >>)
    IN  IF height = 0 \/ ~fParentOfMatch
        THEN Emitted(<<fParentOfMatch>>, <<CalcHash(height, pos, vTxid)>>)
        ELSE Emitted(<<TRUE>> \o left.vBits \o right.vBits, left.vHash \o right.vHash)

\* CPartialMerkleTree(vTxid, vMatch).
PartialMerkleTree(vTxid, vMatch) ==
    [nTransactions |-> Len(vTxid)]
        @@ TraverseAndBuild(TreeHeight(Len(vTxid)), 0, vTxid, vMatch)

\* The bits travel in bytes: the last byte is filled with zeros.
Serialized(tree) ==
    [tree EXCEPT !.vBits = @ \o [i \in 1..((8 - (Len(@) % 8)) % 8) |-> FALSE]]

-----------------------------------------------------------------------------
(* Extracting: the same traversal, reading the bits and the hashes.  A     *)
(* cursor carries what has been read, the matches and the failure flag.    *)

Start == [nBitsUsed |-> 0, nHashUsed |-> 0, vMatch |-> << >>, fBad |-> FALSE,
          hash |-> NullHash]

Bad(cur) == [cur EXCEPT !.fBad = TRUE, !.hash = NullHash]

RECURSIVE TraverseAndExtract(_, _, _, _)
TraverseAndExtract(height, pos, tree, cur) ==
    LET fParentOfMatch == tree.vBits[cur.nBitsUsed + 1]
        isLeaf == height = 0 \/ ~fParentOfMatch
        hash   == tree.vHash[cur.nHashUsed + 1]
        read   == [cur EXCEPT !.nBitsUsed = @ + 1]
        left   == TraverseAndExtract(height - 1, 2 * pos, tree, read)
        right  == IF HasRight(tree.nTransactions, height, pos)
                  THEN TraverseAndExtract(height - 1, 2 * pos + 1, tree, left)
                  ELSE left
    IN  CASE cur.fBad                                     -> cur
          [] cur.nBitsUsed >= Len(tree.vBits)             -> Bad(cur)
          [] isLeaf /\ cur.nHashUsed >= Len(tree.vHash)   -> Bad(read)
          [] isLeaf ->
                [read EXCEPT !.nHashUsed = @ + 1, !.hash = hash,
                             !.vMatch = IF height = 0 /\ fParentOfMatch
                                        THEN Append(@, hash) ELSE @]
          [] OTHER  -> [right EXCEPT !.hash = Hash(left.hash, right.hash)]

NoMatch == [root |-> NullHash, vMatch |-> << >>]

\* The checks of ExtractMatches after the traversal has ended in `end`.
Extracted(tree, end) ==
    CASE end.fBad                                                   -> NoMatch
      [] (end.nBitsUsed + 7) \div 8 # (Len(tree.vBits) + 7) \div 8  -> NoMatch
      [] end.nHashUsed # Len(tree.vHash)                            -> NoMatch
      [] OTHER -> [root |-> end.hash, vMatch |-> end.vMatch]

\* The root the proof commits to and the ids it marks; NoMatch for a proof
\* that is malformed.
ExtractMatches(tree) ==
    CASE tree.nTransactions = 0                 -> NoMatch
      [] tree.nTransactions > MaxBlockTxs       -> NoMatch
      [] Len(tree.vHash) > tree.nTransactions   -> NoMatch
      [] Len(tree.vBits) < Len(tree.vHash)      -> NoMatch
      [] OTHER ->
            Extracted(tree, TraverseAndExtract(TreeHeight(tree.nTransactions),
                                               0, tree, Start))

=============================================================================
