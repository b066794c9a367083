------------------------------ MODULE SignRaw ------------------------------
(***************************************************************************)
(* The Signature Combination Engine: signrawtransaction of                 *)
(* src/rpc/rawtransaction.cpp as operators from a request and the node's   *)
(* state to the reply.  The handler runs start to finish under cs_main,    *)
(* so it is one function of what it reads; the module CoSign makes it an   *)
(* action of the node.                                                     *)
(*                                                                         *)
(* An entity on the wire ("hex") is the record                             *)
(*   [vin: sequence of [prevout: [hash, n], scriptSig], vout, payload]     *)
(* and hex encoding and decoding are abstracted to the entity they carry,  *)
(* with the value Invalid for a string that does not decode.               *)
(***************************************************************************)
EXTENDS Script, Integers, SequencesExt

CONSTANTS
    TxIds,          \* hashes of previous transactions
    WalletKeys,     \* the keys of the node's wallet
    WalletScripts,  \* the redeem scripts of the node's wallet
    None,           \* an optional parameter that is absent or null
    Invalid,        \* a parameter value that does not parse or decode
    OutOfRange      \* a private key that decodes to an invalid key

ASSUME WalletKeys \subseteq Keys

\* pwalletMain: no wallet, or a wallet that is locked or unlocked.
WalletStates == {"disabled", "locked", "unlocked"}

-----------------------------------------------------------------------------
(* Entities.                                                               *)

\* What the signature hash sees of an entity: everything but the scripts.
Body(tx) ==
    [vin     |-> [i \in DOMAIN tx.vin |-> tx.vin[i].prevout],
     vout    |-> tx.vout,
     payload |-> tx.payload]

\* The two kinds of entity do not decode as one another: a certificate is
\* told by its version.
IsCert(tx) == "nVersion" \in DOMAIN tx.payload

PrevHashes(tx) == {tx.vin[i].prevout.hash : i \in DOMAIN tx.vin}

\* TxInErrorToJSON: the record pushed to vErrors for one input.
TxInErrorToJSON(txin, strMessage) ==
    [txid      |-> txin.prevout.hash,
     vout      |-> txin.prevout.n,
     scriptSig |-> txin.scriptSig,
     error     |-> strMessage]

-----------------------------------------------------------------------------
(* The steps of signrawtransaction before the signing loop.                *)

\* The hex string holds one transaction after the other; the first is the
\* one that is signed.
DecodeError(hex) ==
    CASE hex = Invalid -> "TX decode failed"
      [] hex = << >>   -> "Missing transaction"
      [] \E v \in DOMAIN hex : IsCert(hex[v]) -> "TX decode failed"
      [] OTHER         -> None

\* The coins of the inputs' previous transactions are read from the view of
\* chain and mempool into a cache; the cache is then cut off from it, so
\* every other transaction has no coins in this view.
FetchView(coins, mergedTx) ==
    [t \in TxIds |-> IF t \in PrevHashes(mergedTx) THEN coins[t] ELSE << >>]

\* The private keys of the request, which replace the wallet's.
KeysError(keys) ==
    CASE keys = None -> None
      [] \E j \in DOMAIN keys : keys[j] \in {Invalid, OutOfRange} ->
            LET first == SelectInSeq(keys, LAMBDA k : k \in {Invalid, OutOfRange})
            IN  IF keys[first] = Invalid THEN "Invalid private key"
                ELSE "Private key outside allowed range"
      [] OTHER -> None

\* Without keys in the request the wallet signs, and must be unlocked.
WalletError(keys, wallet) ==
    IF keys = None /\ wallet = "locked" THEN "RPC_WALLET_UNLOCK_NEEDED" ELSE None

\* coins->vout[nOut] of a CCoinsModifier: the entry grows to hold output
\* nOut, the outputs it gains in between being null.
SetOutput(coin, nOut, scriptPubKey) ==
    [j \in 1..Max({Len(coin), nOut + 1}) |->
        CASE j = nOut + 1   -> scriptPubKey
          [] j <= Len(coin) -> coin[j]
          [] OTHER          -> NullOut]

\* A misreading of the check below: no given output is ever refused.
NeverMismatches(coin, prevOut) == FALSE

\* The view already has the output, with another locking script.
ScriptPubKeyMismatch(coin, prevOut) ==
    /\ IsAvailable(coin, prevOut.vout)
    /\ coin[prevOut.vout + 1] # prevOut.scriptPubKey

\* One element of "prevtxs", applied to the view and the temporary key
\* store built so far.  acc = [view, scripts, error].
AddPrevTx(acc, prevOut, fGivenKeys) ==
    LET Throw(msg) == [acc EXCEPT !.error = msg]
        coin == acc.view[prevOut.txid]
    IN  CASE acc.error # None -> acc
          [] prevOut = Invalid ->
                Throw("expected object with {\"txid'\",\"vout\",\"scriptPubKey\"}")
          [] prevOut.vout < 0 -> Throw("vout must be positive")
          [] ScriptPubKeyMismatch(coin, prevOut) ->
                Throw("Previous output scriptPubKey mismatch")
          [] /\ fGivenKeys
             /\ prevOut.scriptPubKey.p2sh
             /\ prevOut.redeemScript = None -> Throw("Missing redeemScript")
          [] OTHER ->
                [view    |-> [acc.view EXCEPT ![prevOut.txid] =
                                SetOutput(@, prevOut.vout, prevOut.scriptPubKey)],
                 scripts |-> IF fGivenKeys /\ prevOut.scriptPubKey.p2sh
                             THEN acc.scripts \cup {prevOut.redeemScript}
                             ELSE acc.scripts,
                 error   |-> None]

\* "Add previous txouts given in the RPC call", in the order given.
AddPrevTxs(view, prevTxs, fGivenKeys) ==
    FoldLeft(LAMBDA acc, prevOut : AddPrevTx(acc, prevOut, fGivenKeys),
             [view |-> view, scripts |-> {}, error |-> None],
             IF prevTxs = None THEN << >> ELSE prevTxs)

\* A misreading of the choice below: the wallet signs whenever there is an
\* unlocked one.
KeystoreWalletFirst(keys, tempScripts, wallet) ==
    IF wallet = "unlocked"
    THEN [keys |-> WalletKeys, scripts |-> WalletScripts]
    ELSE [keys    |-> IF keys = None THEN {} ELSE ToSet(keys),
          scripts |-> tempScripts]

\* The key store that signs: the request's keys and redeem scripts when it
\* gives keys or the node has no wallet, the wallet otherwise.
Keystore(keys, tempScripts, wallet) ==
    IF keys # None \/ wallet = "disabled"
    THEN [keys    |-> IF keys = None THEN {} ELSE ToSet(keys),
          scripts |-> tempScripts]
    ELSE [keys |-> WalletKeys, scripts |-> WalletScripts]

\* mapSigHashValues: the six names of a signature hash type.
SigHashName(ht) == ht.base \o (IF ht.anyoneCanPay THEN "|ANYONECANPAY" ELSE "")

SigHashValues == {SigHashName(ht) : ht \in HashTypes}

HashTypeError(strHashType) ==
    IF strHashType \in SigHashValues \cup {None} THEN None ELSE "Invalid sighash param"

ParseHashType(strHashType) ==
    IF strHashType = None THEN SIGHASH_ALL
    ELSE CHOOSE ht \in HashTypes : SigHashName(ht) = strHashType

-----------------------------------------------------------------------------
(* The signing loop.  cx is what the loop reads:                           *)
(*   [view, keystore, nHashType, txVariants, garbage]                      *)
(* and mergedTx starts as txVariants[1].                                   *)

\* txv.vin[i].scriptSig.  The code never compares i with the size of
\* txv.vin: beyond it the read is out of bounds and yields cx.garbage.
VariantScriptSig(cx, txv, i) ==
    IF i \in DOMAIN txv.vin THEN txv.vin[i].scriptSig ELSE cx.garbage

\* The loop without its guard on SIGHASH_SINGLE.
SignsAnyInput(mergedTx, i, nHashType) == TRUE

\* "Only sign SIGHASH_SINGLE if there's a corresponding output".
SignsInput(mergedTx, i, nHashType) ==
    nHashType.base # "SINGLE" \/ i <= Len(mergedTx.vout)

\* Two misreadings of the merge below: the base entity, whose script was
\* just cleared, is not merged back in; and every variant is combined with
\* the fresh script instead of with what has been merged so far.
MergeOtherVariants(cx, prevPubKey, body, i, scriptSig) ==
    FoldLeft(LAMBDA sig, txv : CombineSignatures(prevPubKey, body, i, sig,
                                                 VariantScriptSig(cx, txv, i)),
             scriptSig, Tail(cx.txVariants))

MergeLastVariant(cx, prevPubKey, body, i, scriptSig) ==
    FoldLeft(LAMBDA sig, txv : CombineSignatures(prevPubKey, body, i, scriptSig,
                                                 VariantScriptSig(cx, txv, i)),
             scriptSig, cx.txVariants)

\* "... and merge in other signatures": every variant in the order given,
\* the base entity first.
MergeVariants(cx, prevPubKey, body, i, scriptSig) ==
    FoldLeft(LAMBDA sig, txv : CombineSignatures(prevPubKey, body, i, sig,
                                                 VariantScriptSig(cx, txv, i)),
             scriptSig, cx.txVariants)

\* What the signer leaves in the input's script, cleared just before, and
\* whether it raised: it is not called when the guard holds it back.
SignOrSkip(cx, mergedTx, prevPubKey, i) ==
    CASE ~SignsInput(mergedTx, i, cx.nHashType) ->
            [scriptSig |-> EmptyScript, throws |-> FALSE]
      [] SignThrows(cx.keystore, prevPubKey, Body(mergedTx), i, cx.nHashType) ->
            [scriptSig |-> EmptyScript, throws |-> TRUE]
      [] OTHER ->
            [scriptSig |-> SignSignature(cx.keystore, prevPubKey, Body(mergedTx),
                                         i, cx.nHashType),
             throws    |-> FALSE]

\* The end of a pass: the merged script stays in the input and is verified.
Verified(scriptSig, prevPubKey, body, i) ==
    LET serror == VerifyScript(scriptSig, prevPubKey, body, i)
    IN  [scriptSig |-> scriptSig, error |-> IF serror = "OK" THEN None ELSE serror]

\* One pass of the loop for input i of mergedTx: the scriptSig the input
\* ends with, the error pushed to vErrors (or None), whether the signer
\* raised and whether a variant was read out of bounds.  An input whose
\* output is unavailable is passed over as it is.
SignInput(cx, mergedTx, i) ==
    LET txin       == mergedTx.vin[i]
        coin       == cx.view[txin.prevout.hash]
        prevPubKey == coin[txin.prevout.n + 1]
        signed     == SignOrSkip(cx, mergedTx, prevPubKey, i)
    IN  IF ~IsAvailable(coin, txin.prevout.n)
        THEN [scriptSig |-> txin.scriptSig,
              error     |-> "Input not found or already spent",
              throws    |-> FALSE,
              oob       |-> FALSE]
        ELSE [throws |-> signed.throws,
              oob    |-> \E v \in DOMAIN cx.txVariants :
                             i \notin DOMAIN cx.txVariants[v].vin]
             @@ Verified(MergeVariants(cx, prevPubKey, Body(mergedTx), i,
                                       signed.scriptSig),
                         prevPubKey, Body(mergedTx), i)

\* What a pass leaves behind: the input's script in mergedTx, and its error
\* at the end of vErrors.  acc = [hex, errors, throws, oob].
EndPass(acc, i, done) ==
    LET mergedTx == [acc.hex EXCEPT !.vin[i].scriptSig = done.scriptSig]
    IN  [hex    |-> mergedTx,
         errors |-> IF done.error = None THEN acc.errors
                    ELSE Append(acc.errors, TxInErrorToJSON(mergedTx.vin[i], done.error)),
         throws |-> acc.throws \/ done.throws,
         oob    |-> acc.oob \/ done.oob]

\* "Sign what we can": the loop over the inputs of the first variant, in
\* order.
SignInputs(cx) ==
    FoldLeft(LAMBDA acc, i : EndPass(acc, i, SignInput(cx, acc.hex, i)),
             [hex |-> cx.txVariants[1], errors |-> << >>, throws |-> FALSE, oob |-> FALSE],
             [i \in DOMAIN cx.txVariants[1].vin |-> i])

-----------------------------------------------------------------------------
(* The handler.  req = [hex, prevtxs, keys, hashtype]; garbage is what an  *)
(* out-of-bounds read of a variant's input yields.                         *)

NoResult == [hex |-> None, complete |-> FALSE, errors |-> << >>, oob |-> FALSE]

Throw(strMessage) == [error |-> strMessage, result |-> NoResult]

\* The reply: "complete" is that vErrors is empty.
Result(out) ==
    IF out.throws
    THEN Throw("no matching output for SIGHASH_SINGLE")
    ELSE [error  |-> None,
          result |-> [hex |-> out.hex, complete |-> out.errors = << >>,
                      errors |-> out.errors, oob |-> out.oob]]

\* The handler from the outputs of "prevtxs" on: prev is what AddPrevTxs
\* made of the fetched view.
SignWithView(req, prev, wallet, garbage) ==
    CASE prev.error # None                  -> Throw(prev.error)
      [] HashTypeError(req.hashtype) # None -> Throw(HashTypeError(req.hashtype))
      [] OTHER ->
            Result(SignInputs([view       |-> prev.view,
                               keystore   |-> Keystore(req.keys, prev.scripts, wallet),
                               nHashType  |-> ParseHashType(req.hashtype),
                               txVariants |-> req.hex,
                               garbage    |-> garbage]))

SignRawTransaction(req, coins, wallet, garbage) ==
    CASE DecodeError(req.hex) # None          -> Throw(DecodeError(req.hex))
      [] KeysError(req.keys) # None           -> Throw(KeysError(req.keys))
      [] WalletError(req.keys, wallet) # None -> Throw(WalletError(req.keys, wallet))
      [] OTHER ->
            SignWithView(req,
                         AddPrevTxs(FetchView(coins, req.hex[1]), req.prevtxs,
                                    req.keys # None),
                         wallet, garbage)

=============================================================================
