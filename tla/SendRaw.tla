------------------------------- MODULE SendRaw -------------------------------
(***************************************************************************)
(* The node of CoSign with sendrawtransaction and sendrawcertificate: the  *)
(* callers who build and sign entities also send them, again and in any    *)
(* order, while blocks confirm what waits in the mempool, spend outputs    *)
(* the waiting entities wanted, and the node is started again.             *)
(*                                                                         *)
(* The hash of an entity is the entity: it covers the unlocking scripts,   *)
(* so two signed variants of one entity are two entities that spend the    *)
(* same outputs.  `coins` stays the chain as the signing calls see it: an  *)
(* entity of the mempool hides none of the outputs it spends.              *)
(***************************************************************************)
EXTENDS CoSign

VARIABLES
    mempool,   \* the entities accepted and not yet in a block
    inBlock,   \* the entities of the callers that a block holds
    pruned     \* those of them whose outputs are all spent

pool     == <<mempool, inBlock, pruned>>
sendVars == <<vars, pool>>

\* The outputs an entity spends.
Spends(tx) == {tx.vin[i].prevout : i \in DOMAIN tx.vin}

\* pcoinsTip->AccessCoins(hash): an entity of a block with an output left.
AccessCoins(tx) == tx \in inBlock \ pruned

\* CCoinsViewCache::HaveCoins: the entry exists and has an output left.
HaveCoins(coin) == \E n \in DOMAIN coin : coin[n] # NullOut

-----------------------------------------------------------------------------
(* Acceptance to the mempool, in the order of its checks.                  *)

InputsVerify(tx) ==
    \A i \in DOMAIN tx.vin :
        Satisfies(tx.vin[i].scriptSig,
                  coins[tx.vin[i].prevout.hash][tx.vin[i].prevout.n + 1], Body(tx), i)

\* A mistake: an entity is accepted whatever else waits to spend its inputs.
NoConflicts(tx) == FALSE

\* An entity of the mempool spends an output that tx spends.
Conflicts(tx) == \E m \in mempool : Spends(m) \cap Spends(tx) # {}

\* AcceptTxToMemoryPool and AcceptCertificateToMemoryPool: "accepted", or
\* "invalid" (state.IsInvalid()), "missing" (fMissingInputs) or "refused".
AcceptToMemoryPool(tx) ==
    CASE tx.vin = << >> \/ tx.vout = << >>                        -> "invalid"
      [] Cardinality(Spends(tx)) < Len(tx.vin)                    -> "invalid"
      [] tx \in mempool \/ AccessCoins(tx)                        -> "refused"
      [] Conflicts(tx)                                            -> "refused"
      [] \E o \in Spends(tx) : ~HaveCoins(coins[o.hash])          -> "missing"
      [] \E o \in Spends(tx) : ~IsAvailable(coins[o.hash], o.n)   -> "invalid"
      [] ~InputsVerify(tx)                                        -> "invalid"
      [] OTHER                                                    -> "accepted"

-----------------------------------------------------------------------------
(* The two handlers.                                                       *)

Refused(strMessage) == [error |-> strMessage, result |-> None, mempool |-> mempool]

\* The hash is returned after the entity was relayed.
Relayed(tx, accepted) ==
    [error |-> None, result |-> tx,
     mempool |-> IF accepted THEN mempool \cup {tx} ELSE mempool]

TxWords ==
    [decode   |-> "TX decode failed",
     refused  |-> "state.GetRejectReason()",
     inChain  |-> "transaction already in block chain"]

CertWords ==
    [decode   |-> "Certificate decode failed",
     refused  |-> "certificate not accepted to mempool",
     inChain  |-> "certificate already in block chain"]

\* A mistake: an entity of the chain is relayed like one of the mempool.
SubmitKnown(tx, words) ==
    LET known  == tx \in mempool \/ AccessCoins(tx)
        accept == AcceptToMemoryPool(tx)
    IN  CASE ~known /\ accept = "invalid"  -> Refused("RPC_TRANSACTION_REJECTED")
          [] ~known /\ accept = "missing"  -> Refused("Missing inputs")
          [] ~known /\ accept = "refused"  -> Refused(words.refused)
          [] OTHER                         -> Relayed(tx, ~known)

\* What both handlers do with the entity they decoded: push it to the
\* mempool unless the node has it, refuse one of the chain, relay.
Submit(tx, words) ==
    LET fHaveMempool == tx \in mempool
        fHaveChain   == AccessCoins(tx)
        pushed       == ~fHaveMempool /\ ~fHaveChain
        accept       == AcceptToMemoryPool(tx)
    IN  CASE pushed /\ accept = "invalid"  -> Refused("RPC_TRANSACTION_REJECTED")
          [] pushed /\ accept = "missing"  -> Refused("Missing inputs")
          [] pushed /\ accept = "refused"  -> Refused(words.refused)
          [] ~pushed /\ fHaveChain         -> Refused(words.inChain)
          [] OTHER                         -> Relayed(tx, pushed)

SendRawTransaction(hex) ==
    IF hex = Invalid \/ IsCert(hex)
    THEN Refused(TxWords.decode)
    ELSE Submit(hex, TxWords)

SendRawCertificate(hex) ==
    IF hex = Invalid \/ ~IsCert(hex)
    THEN Refused(CertWords.decode)
    ELSE Submit(hex, CertWords)

Sent(rpc, hex, out) ==
    /\ reply = Idle
    /\ reply' = Reply(rpc, hex, out)
    /\ mempool' = out.mempool
    /\ UNCHANGED <<coins, wallet, wire, inBlock, pruned>>

sendrawtransaction(hex) == Sent("sendrawtransaction", hex, SendRawTransaction(hex))

sendrawcertificate(hex) == Sent("sendrawcertificate", hex, SendRawCertificate(hex))

\* Both take the entity and, with it or not, "allowhighfees".
sendrawtransactionUsage == Usage("sendrawtransaction", 1..2)
sendrawcertificateUsage == Usage("sendrawcertificate", 1..2)

-----------------------------------------------------------------------------
(* The chain and the mempool between calls.                                *)

\* The coins after a block has spent outs.
SpentBy(outs) ==
    [t \in TxIds |->
        [n \in DOMAIN coins[t] |->
            IF [hash |-> t, n |-> n - 1] \in outs THEN NullOut ELSE coins[t][n]]]

\* A mistake: what a block spends stays wanted by the entities that wait.
KeepConflicts(outs) == mempool

\* CTxMemPool::removeConflicts: the entities that wait and spend none of
\* outs.
WithoutConflicts(outs) == {m \in mempool : Spends(m) \cap outs = {}}

\* A block holds an entity of the mempool.
Mine(tx) ==
    /\ reply = Idle
    /\ tx \in mempool
    /\ coins' = SpentBy(Spends(tx))
    /\ mempool' = WithoutConflicts(Spends(tx))
    /\ inBlock' = inBlock \cup {tx}
    /\ UNCHANGED <<wallet, wire, reply, pruned>>

\* A block holds an entity the node never had, which spends output n of t.
SpendElsewhere(t, n) ==
    /\ reply = Idle
    /\ IsAvailable(coins[t], n)
    /\ coins' = SpentBy({[hash |-> t, n |-> n]})
    /\ mempool' = WithoutConflicts({[hash |-> t, n |-> n]})
    /\ UNCHANGED <<wallet, wire, reply, inBlock, pruned>>

\* A block spends the last output of an entity of the chain.
SpendEntity(tx) ==
    /\ reply = Idle
    /\ tx \in inBlock \ pruned
    /\ pruned' = pruned \cup {tx}
    /\ UNCHANGED <<vars, mempool, inBlock>>

\* An entity expires in the mempool.
Expire(tx) ==
    /\ reply = Idle
    /\ tx \in mempool
    /\ mempool' = mempool \ {tx}
    /\ UNCHANGED <<vars, inBlock, pruned>>

\* The node that crashed is started again: the chain is as it was, the
\* mempool is empty.
RestartEmpty ==
    /\ Restart
    /\ mempool' = {}
    /\ UNCHANGED <<inBlock, pruned>>

-----------------------------------------------------------------------------

SendInit ==
    /\ Init
    /\ mempool = {}
    /\ inBlock = {}
    /\ pruned = {}

\* The calls of CoSign, and a call answered with the usage, leave the
\* mempool and the callers' entities of the chain alone.
Signing ==
    \/ \E inputs \in InputArgs, sendTo \in SendToArgs, sc_crs, fwdtr \in CrosschainArgs :
            createrawtransaction(inputs, sendTo, sc_crs, fwdtr)
    \/ \E req \in SignRequests, garbage \in Garbage : signrawtransaction(req, garbage)
    \/ \E inputs \in InputArgs, standardOutputs \in SendToArgs,
          backwardOutputs \in BwtArgs, cert_params \in CertParamArgs :
            createrawcertificate(inputs, standardOutputs, backwardOutputs, cert_params)
    \/ \E hex \in HexArgs, keys \in CertKeyArgs : signrawcertificate(hex, keys)
    \/ createrawtransactionUsage
    \/ signrawtransactionUsage
    \/ createrawcertificateUsage
    \/ signrawcertificateUsage
    \/ sendrawtransactionUsage
    \/ sendrawcertificateUsage
    \/ TakeReply
    \/ \E tx \in wire : Forget(tx)
    \/ \E t \in TxIds : ConnectTx(t)

SendNext ==
    \/ Signing /\ UNCHANGED pool
    \/ \E hex \in wire \cup {Invalid} : sendrawtransaction(hex)
    \/ \E hex \in wire \cup {Invalid} : sendrawcertificate(hex)
    \/ \E tx \in mempool : Mine(tx)
    \/ \E t \in TxIds : \E n \in DOMAIN coins[t] : SpendElsewhere(t, n - 1)
    \/ \E tx \in inBlock : SpendEntity(tx)
    \/ \E tx \in mempool : Expire(tx)
    \/ RestartEmpty

SendSpec == SendInit /\ [][SendNext]_sendVars

-----------------------------------------------------------------------------
(* Properties.                                                             *)

SentOk ==
    /\ reply # Idle
    /\ reply.rpc \in {"sendrawtransaction", "sendrawcertificate"}
    /\ reply.error = None

\* Whatever was sent, signed, confirmed, spent or lost before: every entity
\* that waits in the mempool can still be put in a block.  Its inputs are
\* unspent outputs of the chain, its scripts satisfy them, it is in no
\* block, and no other entity that waits spends one of its inputs.  This is
\* what lets lines 1504 and 1565 relay an entity of the mempool again
\* without validating it.
MempoolIsSpendable ==
    \A tx \in mempool :
        /\ tx \notin inBlock
        /\ \A o \in Spends(tx) : IsAvailable(coins[o.hash], o.n)
        /\ InputsVerify(tx)
        /\ \A m \in mempool \ {tx} : Spends(m) \cap Spends(tx) = {}

\* sendrawtransaction and sendrawcertificate return a hash (lines 1523 and
\* 1599) only for an entity that is then in the mempool: an entity of the
\* chain, sent again by a caller who still holds it, is not relayed.
RelayedIsInMempool == SentOk => reply.req \in mempool

\* The outputs of the chain's transactions.
OutPoints ==
    UNION {{[hash |-> t, n |-> n - 1] : n \in DOMAIN TxOutputs[t]} : t \in TxIds}

Abstract ==
    INSTANCE Claims WITH
        Outputs <- OutPoints,
        pending <- {Spends(tx) : tx \in mempool},
        settled <- {o \in OutPoints : /\ o.n + 1 \in DOMAIN coins[o.hash]
                                      /\ coins[o.hash][o.n + 1] = NullOut}

\* The node implements Claims: every step of the handlers (lines 1500-1521
\* and 1559-1597), of the chain and of a restart either leaves the claims
\* alone, or claims free outputs for one entity, gives claims up, or spends
\* outputs in a block and gives up every claim that wanted one of them.
ClaimsKept == Abstract!Spec

=============================================================================
