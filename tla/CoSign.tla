------------------------------- MODULE CoSign -------------------------------
(***************************************************************************)
(* A node serving createrawtransaction, signrawtransaction,                *)
(* createrawcertificate and signrawcertificate to callers who co-sign      *)
(* entities: one creates an unsigned entity, each holder of a key signs it *)
(* (with keys given in the request, or with the node's wallet), and the    *)
(* signed variants of a transaction are merged by a further call.  Between *)
(* calls the chain moves on and the wallet is locked and unlocked.         *)
(*                                                                         *)
(* The handlers hold cs_main (and cs_wallet) from their first to their     *)
(* last line, so a call is one step.  The reply of a call stays in `reply` *)
(* until the caller takes it; nothing else happens in between, which loses *)
(* no behaviour, since taking a reply commutes with every other step.      *)
(***************************************************************************)
EXTENDS SignCert

CONSTANTS
    TxOutputs,      \* TxOutputs[t]: the locking scripts of the outputs of t
    InputArgs,      \* the "inputs" arguments callers give
    SendToArgs,     \* the "sendTo" arguments callers give
    CrosschainArgs, \* the sidechain creation and forward transfer arguments
    PrevTxArgs,     \* the "prevtxs" arguments callers give
    KeyArgs,        \* the "privatekeys" arguments callers give
    BwtArgs,        \* the "backward addresses" arguments callers give
    CertParamArgs,  \* the certificate parameters callers give
    CertKeyArgs,    \* the "privatekeys" arguments given with a certificate
    NullHash,       \* the hash whose bits are all zero
    HashTypeArgs,   \* the "sighashtype" arguments callers give
    Garbage,        \* what a read past the end of a variant's inputs yields
    MaxVariants,    \* bound: entities concatenated in one "hexstring"
    MaxWire         \* bound: entities the callers keep

VARIABLES
    coins,      \* pcoinsTip under the mempool: coins[t] are the outputs of t
    wallet,     \* pwalletMain: "disabled", "locked" or "unlocked"
    wire,       \* the entities the callers hold, as returned by the node
    reply       \* the reply the node has sent and the caller not yet taken

vars == <<coins, wallet, wire, reply>>

Create == INSTANCE CreateRaw

Idle == None

-----------------------------------------------------------------------------
(* The node's handlers.                                                    *)

Reply(rpc, req, out) ==
    [rpc |-> rpc, req |-> req, error |-> out.error, result |-> out.result]

createrawtransaction(inputs, sendTo, sc_crs, fwdtr) ==
    /\ reply = Idle
    /\ reply' = Reply("createrawtransaction",
                      [inputs |-> inputs, sendTo |-> sendTo,
                       sc_crs |-> sc_crs, fwdtr |-> fwdtr],
                      Create!CreateRawTransaction(inputs, sendTo, sc_crs, fwdtr))
    /\ UNCHANGED <<coins, wallet, wire>>

signrawtransaction(req, garbage) ==
    /\ reply = Idle
    /\ reply' = Reply("signrawtransaction", req,
                      SignRawTransaction(req, coins, wallet, garbage))
    /\ UNCHANGED <<coins, wallet, wire>>

createrawcertificate(inputs, standardOutputs, backwardOutputs, cert_params) ==
    /\ reply = Idle
    /\ reply' = Reply("createrawcertificate",
                      [inputs |-> inputs, standardOutputs |-> standardOutputs,
                       backwardOutputs |-> backwardOutputs, cert_params |-> cert_params],
                      Create!CreateRawCertificate(inputs, standardOutputs,
                                                  backwardOutputs, cert_params))
    /\ UNCHANGED <<coins, wallet, wire>>

\* A request of signrawcertificate is kept in the form of one of
\* signrawtransaction: it has no "prevtxs" and no "sighashtype".
signrawcertificate(hex, keys) ==
    /\ reply = Idle
    /\ reply' = Reply("signrawcertificate",
                      [hex |-> hex, prevtxs |-> None, keys |-> keys, hashtype |-> None],
                      SignRawCertificate([hex |-> hex, keys |-> keys], coins, wallet))
    /\ UNCHANGED <<coins, wallet, wire>>

-----------------------------------------------------------------------------
(* The first statement of every handler, before it takes a lock: a call    *)
(* for help, and a call with a number of parameters the handler does not   *)
(* take, is answered with the usage, and the reply says which call it was. *)
(* The other actions of a handler are its calls that pass this statement.  *)
(* Callers try up to MaxParams parameters, one more than any handler       *)
(* takes.                                                                  *)

MaxParams == 5

\* The calls the dispatcher makes of a handler: the one of "help", with
\* fHelp and no parameter, and those of a caller, with its parameters.
Calls == {[fHelp |-> TRUE, size |-> 0]} \cup [fHelp : {FALSE}, size : 0..MaxParams]

IsUsage(r) == r.error = "usage"

Usage(rpc, sizes) ==
    /\ reply = Idle
    /\ \E call \in Calls :
          /\ call.fHelp \/ call.size \notin sizes
          /\ reply' = Reply(rpc, call, [error |-> "usage", result |-> None])
    /\ UNCHANGED <<coins, wallet, wire>>

\* createrawtransaction has no least number of parameters: a call without
\* "inputs" or "sendTo" is not answered with the usage.
createrawtransactionUsage == Usage("createrawtransaction", 0..4)
createrawcertificateUsage == Usage("createrawcertificate", {4})
signrawcertificateUsage   == Usage("signrawcertificate", 1..2)
signrawtransactionUsage   == Usage("signrawtransaction", 1..4)

-----------------------------------------------------------------------------
(* The callers, the chain and the wallet's owner.                          *)

\* The entity a reply carries, if it carries one.
Returned(r) ==
    CASE r.error # None                                           -> {}
      [] r.rpc \in {"createrawtransaction", "createrawcertificate"} -> {r.result}
      [] r.rpc \in {"signrawtransaction", "signrawcertificate"}     -> {r.result.hex}
      [] OTHER                                                    -> {}

\* The caller takes the reply, and keeps the entity while it has room.
TakeReply ==
    /\ reply # Idle
    /\ reply.error # Crashed
    /\ reply' = Idle
    /\ wire' = IF Cardinality(wire \cup Returned(reply)) <= MaxWire
               THEN wire \cup Returned(reply)
               ELSE wire
    /\ UNCHANGED <<coins, wallet>>

\* The node that crashed is started again, with the chain and the wallet it
\* had; the caller has no reply.
Restart ==
    /\ reply # Idle
    /\ reply.error = Crashed
    /\ reply' = Idle
    /\ UNCHANGED <<coins, wallet, wire>>

\* A caller drops an entity it holds.
Forget(tx) ==
    /\ reply = Idle
    /\ tx \in wire
    /\ wire' = wire \ {tx}
    /\ UNCHANGED <<coins, wallet, reply>>

\* A block or the mempool gains transaction t.
ConnectTx(t) ==
    /\ reply = Idle
    /\ coins[t] = << >>
    /\ coins' = [coins EXCEPT ![t] = TxOutputs[t]]
    /\ UNCHANGED <<wallet, wire, reply>>

\* A block or the mempool gains a transaction that spends output n of t.
SpendOutput(t, n) ==
    /\ reply = Idle
    /\ IsAvailable(coins[t], n)
    /\ coins' = [coins EXCEPT ![t][n + 1] = NullOut]
    /\ UNCHANGED <<wallet, wire, reply>>

\* walletlock, and walletpassphrase.
WalletLock ==
    /\ reply = Idle
    /\ wallet = "unlocked"
    /\ wallet' = "locked"
    /\ UNCHANGED <<coins, wire, reply>>

WalletUnlock ==
    /\ reply = Idle
    /\ wallet = "locked"
    /\ wallet' = "unlocked"
    /\ UNCHANGED <<coins, wire, reply>>

-----------------------------------------------------------------------------

\* A "hexstring": up to MaxVariants of the entities the callers hold, one
\* after the other, or a string that is no such thing.
HexArgs == BoundedSeq(wire, MaxVariants) \cup {Invalid}

SignRequests ==
    [hex : HexArgs, prevtxs : PrevTxArgs, keys : KeyArgs, hashtype : HashTypeArgs]

Init ==
    /\ coins = [t \in TxIds |-> << >>]
    /\ wallet \in {"disabled", "unlocked"}
    /\ wire = {}
    /\ reply = Idle

Next ==
    \/ \E inputs \in InputArgs, sendTo \in SendToArgs, sc_crs, fwdtr \in CrosschainArgs :
            createrawtransaction(inputs, sendTo, sc_crs, fwdtr)
    \/ \E req \in SignRequests, garbage \in Garbage : signrawtransaction(req, garbage)
    \/ \E inputs \in InputArgs, standardOutputs \in SendToArgs,
          backwardOutputs \in BwtArgs, cert_params \in CertParamArgs :
            createrawcertificate(inputs, standardOutputs, backwardOutputs, cert_params)
    \/ \E hex \in HexArgs, keys \in CertKeyArgs : signrawcertificate(hex, keys)
    \/ createrawtransactionUsage
    \/ signrawtransactionUsage
    \/ createrawcertificateUsage
    \/ signrawcertificateUsage
    \/ TakeReply
    \/ Restart
    \/ \E tx \in wire : Forget(tx)
    \/ \E t \in TxIds : ConnectTx(t)
    \/ \E t \in TxIds : \E n \in DOMAIN coins[t] : SpendOutput(t, n - 1)
    \/ WalletLock
    \/ WalletUnlock

Spec == Init /\ [][Next]_vars

-----------------------------------------------------------------------------
(* What the properties speak of.                                           *)

Locks == [keys : SUBSET Keys, m : 0..Cardinality(Keys), p2sh : BOOLEAN]

IsScript(s) ==
    /\ s.redeem \in BOOLEAN
    /\ \A sig \in s.sigs : sig.key \in Keys /\ sig.msg.hashType \in HashTypes

IsTx(tx) ==
    \A i \in DOMAIN tx.vin :
        /\ tx.vin[i].prevout.hash \in TxIds
        /\ tx.vin[i].prevout.n \in Nat
        /\ IsScript(tx.vin[i].scriptSig)

\* A certificate as createrawcertificate may leave it: the quality is not
\* negative, the proof is one, and no two backward transfers pay the same
\* key.
IsEntity(tx) ==
    /\ IsTx(tx)
    /\ IsCert(tx) =>
          /\ tx.payload.quality \in Nat
          /\ tx.payload.epochNumber \in Int
          /\ tx.payload.scProof.valid
          /\ \A j, h \in DOMAIN tx.vout :
                /\ "pkh" \in DOMAIN tx.vout[j]
                /\ "pkh" \in DOMAIN tx.vout[h]
                /\ tx.vout[j].pkh = tx.vout[h].pkh
                => j = h

\* The node has answered a call of rpc with a result.
Answered(rpc) ==
    /\ reply # Idle
    /\ reply.rpc = rpc
    /\ reply.error = None

SignedTx == Answered("signrawtransaction")
SignedCert == Answered("signrawcertificate")
Signed == SignedTx \/ SignedCert

\* The locking script an input has to satisfy, said without the view the
\* handler builds: that of the chain or mempool if the output is unspent
\* there, else that of the last element of "prevtxs" naming the output,
\* else none (NullOut).
RequiredLock(req, txin) ==
    LET prevTxs == IF req.prevtxs = None THEN << >> ELSE req.prevtxs
        naming  == {j \in DOMAIN prevTxs : /\ prevTxs[j].txid = txin.prevout.hash
                                            /\ prevTxs[j].vout = txin.prevout.n}
    IN  CASE IsAvailable(coins[txin.prevout.hash], txin.prevout.n) ->
                coins[txin.prevout.hash][txin.prevout.n + 1]
          [] naming # {} -> prevTxs[Max(naming)].scriptPubKey
          [] OTHER       -> NullOut

\* The keys a request may sign with: its own, or else those of an unlocked
\* wallet.
AuthorisedKeys(req) ==
    CASE req.keys # None     -> ToSet(req.keys)
      [] wallet = "unlocked" -> WalletKeys
      [] OTHER               -> {}

\* The variants of a request that have an input i.
VariantsWith(req, i) == {v \in DOMAIN req.hex : i \in DOMAIN req.hex[v].vin}

-----------------------------------------------------------------------------
(* Properties.                                                             *)

\* The type invariant: the state has the shape the comments on the
\* variables give; every entity built (AddInputsToRawObject) or returned
\* by a signing call spends outputs with an index that is not negative; a
\* certificate built by createrawcertificate has a quality that is not
\* negative, a valid proof and backward transfers to different keys; and a
\* signing call returns an entity with the inputs, outputs and payload of
\* the first one it was given.
TypeOK ==
    /\ \A t \in TxIds : coins[t] \in Seq(Locks)
    /\ wallet \in WalletStates
    /\ Cardinality(wire) <= MaxWire
    /\ \A tx \in wire : IsEntity(tx)
    /\ reply # Idle =>
          /\ \A tx \in Returned(reply) : IsEntity(tx)
          /\ Signed => /\ Body(reply.result.hex) = Body(reply.req.hex[1])
                       /\ reply.result.complete \in BOOLEAN

\* A signing call signs what its handler is for.  Callers hold entities of
\* both kinds as hex strings and give them in any number to either
\* handler: signrawtransaction answers with a result only when everything
\* in its string is a transaction (the loop of lines 1292-1301, which reads
\* to the end of the string), and signrawcertificate only when its string
\* is one certificate and nothing more (lines 1123-1133), so that no
\* entity is signed under the rules of the other kind and none is dropped
\* unseen.
SignsItsOwnKind ==
    /\ SignedTx => \A v \in DOMAIN reply.req.hex : ~IsCert(reply.req.hex[v])
    /\ SignedCert => Len(reply.req.hex) = 1 /\ IsCert(reply.req.hex[1])

\* signrawtransaction and signrawcertificate answer "complete" exactly
\* when every input of the entity they return spends an output that exists
\* (in the chain or mempool, or else as given in "prevtxs") and carries a
\* script that satisfies that output's locking script.  It is about the
\* view the handlers build: an element of "prevtxs" must never replace the
\* locking script of an output the node knows (the scriptPubKey mismatch
\* check), and the error list has one record for each input that does not
\* verify, and no other.
CompleteIffAllInputsVerify ==
    Signed =>
        LET tx == reply.result.hex
            Verifies(i) ==
                LET lock == RequiredLock(reply.req, tx.vin[i])
                IN  /\ lock # NullOut
                    /\ Satisfies(tx.vin[i].scriptSig, lock, Body(tx), i)
            failing == {i \in DOMAIN tx.vin : ~Verifies(i)}
        IN  /\ reply.result.complete <=> failing = {}
            /\ Len(reply.result.errors) = Cardinality(failing)

\* Every valid signature the request carries is in the reply, unless the
\* input has all the signatures it needs.
SignaturesKept ==
    LET tx == reply.result.hex
    IN  \A i \in DOMAIN tx.vin : \A v \in VariantsWith(reply.req, i) :
            LET lock   == RequiredLock(reply.req, tx.vin[i])
                merged == tx.vin[i].scriptSig
                given  == reply.req.hex[v].vin[i].scriptSig
            IN  lock # NullOut =>
                    \/ Cardinality(merged.sigs) = lock.m
                    \/ SignedBy(UsableSigs(given, lock, Body(tx), i))
                          \subseteq SignedBy(merged.sigs)

\* The merge loses no signature: a valid signature that any variant of the
\* request carries for an input is in the returned entity, unless that
\* input already has as many signatures as its locking script requires.
\* It is about the loop of signrawtransaction, which clears the input's
\* script, signs, and then folds every variant back in with
\* CombineSignatures.
NoSignatureLost == SignedTx => SignaturesKept

\* A signing call signs with the keys the request authorises and no
\* other: a signature of the returned entity was already in a variant, or
\* is by a key of the request, or, when the request has no keys, by a key
\* of the unlocked wallet.  It is about the choice of the key store
\* (tempKeystore or pwalletMain) and EnsureWalletIsUnlocked.
OnlyAuthorisedKeysSign ==
    Signed =>
        LET tx == reply.result.hex
        IN  \A i \in DOMAIN tx.vin : \A sig \in tx.vin[i].scriptSig.sigs :
                \/ sig.key \in AuthorisedKeys(reply.req)
                \/ \E v \in VariantsWith(reply.req, i) :
                        sig \in reply.req.hex[v].vin[i].scriptSig.sigs

\* "Sign what we can": once its parameters are accepted,
\* signrawtransaction returns a result whatever the entity is.  It is
\* about the guard on SIGHASH_SINGLE in the loop, without which the signer
\* raises for an input that has no output at its index and the call fails.
SignWhatWeCanNeverFails ==
    reply # Idle => reply.error # "no matching output for SIGHASH_SINGLE"

\* Variants of one entity can be given in any order: "complete" is the same
\* for every order of the variants of a request, when they differ in
\* their scripts only.  It is about the fold over txVariants in the loop of
\* signrawtransaction, which starts from the first variant.
CompleteInAnyOrder ==
    (SignedTx /\ \A v \in DOMAIN reply.req.hex :
                    Body(reply.req.hex[v]) = Body(reply.req.hex[1])) =>
        \A p \in Permutations(DOMAIN reply.req.hex) :
            LET hex == [v \in DOMAIN reply.req.hex |-> reply.req.hex[p[v]]]
                out == SignRawTransaction([reply.req EXCEPT !.hex = hex],
                                          coins, wallet, EmptyScript)
            IN  out.result.complete = reply.result.complete

\* The reading of the variants stays within them: signrawtransaction reads
\* input i of a variant only if the variant has one.  The specification
\* takes variants of the same shape; the loop reads txv.vin[i] for every
\* input i of the first variant.
VariantReadsInBounds ==
    SignedTx => ~reply.result.oob

\* An input whose output is unavailable is returned with an empty script,
\* as the specification of the engine says (step 2a).  The loop of
\* signrawtransaction goes on to the next input before it clears the
\* script.
UnavailableInputLeftEmpty ==
    SignedTx =>
        LET tx == reply.result.hex
        IN  \A i \in DOMAIN tx.vin :
                RequiredLock(reply.req, tx.vin[i]) = NullOut =>
                    tx.vin[i].scriptSig = EmptyScript

\* Certificates are co-signed as transactions are (the specification: they
\* "use the identical per-input algorithm"): a valid signature of the
\* certificate given to signrawcertificate is in the certificate returned,
\* unless the input has all the signatures it needs.  The loop of
\* signrawcertificate clears the input's script, signs, and combines the
\* result with nothing.
CertSignaturesKept == SignedCert => SignaturesKept

\* The private keys of a request, "if given, will be the only keys used to
\* sign" (the help of signrawcertificate), and the key store is chosen for
\* a node that may have no wallet: a request that gives its keys is served
\* whatever the wallet is.  The handler calls EnsureWalletIsUnlocked before
\* it looks at what the request gave.
CertKeysNeedNoWallet ==
    (/\ reply # Idle
     /\ reply.rpc = "signrawcertificate"
     /\ ~IsUsage(reply)
     /\ reply.req.keys # None) =>
        reply.error \notin {"RPC_WALLET_UNLOCK_NEEDED", Crashed}

\* The epoch number of a certificate is not negative (the specification of
\* the certificate's payload).  createrawcertificate reads
\* "withdrawalEpochNumber" with get_int and tests the sign of "quality"
\* only.
CertEpochNotNegative ==
    Answered("createrawcertificate") => reply.result.payload.epochNumber >= 0

=============================================================================
