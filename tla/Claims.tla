------------------------------- MODULE Claims -------------------------------
(***************************************************************************)
(* What a node promises those who send it entities, said without entities, *)
(* scripts or replies: an entity that waits for a block claims the outputs *)
(* it spends, no output is claimed twice, and an output spent in a block   *)
(* is claimed by nothing and stays spent.                                  *)
(***************************************************************************)
CONSTANT Outputs   \* the outputs that can be spent

VARIABLES
    pending,   \* the claims of the entities that wait: sets of outputs
    settled    \* the outputs spent in a block

claims == <<pending, settled>>

Claimed == UNION pending

\* An entity is accepted: it claims outputs nothing has claimed or spent.
Claim(outs) ==
    /\ outs # {}
    /\ outs \cap (Claimed \cup settled) = {}
    /\ pending' = pending \cup {outs}
    /\ UNCHANGED settled

\* Entities are given up: they expire, or the node starts again.
Release(given) ==
    /\ given # {}
    /\ pending' = pending \ given
    /\ UNCHANGED settled

\* A block holds an entity that waited.
Settle(outs) ==
    /\ pending' = pending \ {outs}
    /\ settled' = settled \cup outs

\* A block holds an entity that never waited here and spends o: what claimed
\* o gives up all its claims.
SettleOther(o) ==
    /\ o \notin settled
    /\ pending' = {outs \in pending : o \notin outs}
    /\ settled' = settled \cup {o}

Init ==
    /\ pending = {}
    /\ settled = {}

Next ==
    \/ \E outs \in SUBSET Outputs : Claim(outs)
    \/ \E given \in SUBSET pending : Release(given)
    \/ \E outs \in pending : Settle(outs)
    \/ \E o \in Outputs : SettleOther(o)

Spec == Init /\ [][Next]_claims

=============================================================================
