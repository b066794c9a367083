------------------------------ MODULE MCDecode ------------------------------
(***************************************************************************)
(* The node of module Decode for TLC: the arguments of the run "cert" of   *)
(* module MCCoSign, the entities made elsewhere and the scripts that       *)
(* callers have the node show.                                             *)
(***************************************************************************)
EXTENDS MCCoSign, Decode

MCStrayBytes == {[stray |-> 1]}

\* Backward transfers that pay to a script hash and with a script without a
\* hash, a coinbase, and a transaction with a joinsplit.
MCForeign == {Foreign(PayToScriptHash(h2)), Foreign(<<OP_CHECKSIG>>),
              CoinBase(NullIndex), Shielded(GROTH_TX_VERSION)}

\* A script that ends one byte into the key.
ShortForeign == {Foreign(<<OP_DUP, OP_HASH160, Push(PkhSize), [of |-> h2, at |-> 1]>>)}

\* The empty script, one of each kind, and what is not hexadecimal.
MCScriptArgs ==
    {<< >>, PayToPubKeyHash(h1), PayToScriptHash(h2), <<OP_DUP, OP_HASH160>>, Invalid}

=============================================================================
