------------------------------ MODULE SignCert ------------------------------
(***************************************************************************)
(* signrawcertificate of src/rpc/rawtransaction.cpp: the signing of one    *)
(* sidechain certificate, as operators from a request and the node's state *)
(* to the reply.  It takes what it can from signrawtransaction (the view,  *)
(* the keys of the request, the choice of the key store, the error list);  *)
(* it differs in what it decodes, in how it asks for the wallet, and in    *)
(* its loop, which signs and verifies and merges nothing.                  *)
(***************************************************************************)
EXTENDS SignRaw

\* What a caller sees of a node that has dereferenced a null pointer.
Crashed == "SIGSEGV"

\* A slip: what follows the first certificate is not looked at.
CertDecodeErrorFirstOnly(hex) ==
    CASE hex = Invalid   -> "Cert decode failed"
      [] hex = << >>     -> "Missing input certificate"
      [] ~IsCert(hex[1]) -> "Cert decode failed"
      [] OTHER           -> None

\* "just one and only one certificate expected".
CertDecodeError(hex) ==
    CASE hex = Invalid   -> "Cert decode failed"
      [] hex = << >>     -> "Missing input certificate"
      [] ~IsCert(hex[1]) -> "Cert decode failed"
      [] Len(hex) > 1    -> "Found extra bytes after certificate"
      [] OTHER           -> None

\* EnsureWalletIsUnlocked of rpcwallet.cpp asks pwalletMain whether it is
\* locked.  The handler calls it whether or not the request gives keys and
\* whether or not there is a wallet: without one the call reads through a
\* null pointer, which ends the process.
EnsureWalletIsUnlocked(wallet) ==
    CASE wallet = "disabled" -> Crashed
      [] wallet = "locked"   -> "RPC_WALLET_UNLOCK_NEEDED"
      [] OTHER               -> None

\* The loop with the error of an unavailable input left out.
SignCertInputNoError(cx, mergedCert, i) ==
    LET txin       == mergedCert.vin[i]
        coin       == cx.view[txin.prevout.hash]
        prevPubKey == coin[txin.prevout.n + 1]
    IN  IF ~IsAvailable(coin, txin.prevout.n)
        THEN [scriptSig |-> txin.scriptSig, error |-> None,
              throws    |-> FALSE,          oob   |-> FALSE]
        ELSE [throws |-> FALSE, oob |-> FALSE]
             @@ Verified(SignSignature(cx.keystore, prevPubKey, Body(mergedCert),
                                       i, SIGHASH_ALL),
                         prevPubKey, Body(mergedCert), i)

\* One pass of the loop: an input whose output is unavailable keeps its
\* script and gets an error; any other is cleared, signed for all of the
\* certificate and verified.  cx = [view, keystore].
SignCertInput(cx, mergedCert, i) ==
    LET txin       == mergedCert.vin[i]
        coin       == cx.view[txin.prevout.hash]
        prevPubKey == coin[txin.prevout.n + 1]
    IN  IF ~IsAvailable(coin, txin.prevout.n)
        THEN [scriptSig |-> txin.scriptSig,
              error     |-> "Input not found or already spent",
              throws    |-> FALSE,
              oob       |-> FALSE]
        ELSE [throws |-> FALSE, oob |-> FALSE]
             @@ Verified(SignSignature(cx.keystore, prevPubKey, Body(mergedCert),
                                       i, SIGHASH_ALL),
                         prevPubKey, Body(mergedCert), i)

\* "Sign what we can", input by input.
SignCertInputs(cx, certVariants) ==
    FoldLeft(LAMBDA acc, i : EndPass(acc, i, SignCertInput(cx, acc.hex, i)),
             [hex |-> certVariants, errors |-> << >>, throws |-> FALSE, oob |-> FALSE],
             [i \in DOMAIN certVariants.vin |-> i])

\* The handler: [error, result] for the request [hex, keys].
SignRawCertificate(req, coins, wallet) ==
    CASE CertDecodeError(req.hex) # None      -> Throw(CertDecodeError(req.hex))
      [] KeysError(req.keys) # None           -> Throw(KeysError(req.keys))
      [] EnsureWalletIsUnlocked(wallet) # None -> Throw(EnsureWalletIsUnlocked(wallet))
      [] OTHER ->
            Result(SignCertInputs([view     |-> FetchView(coins, req.hex[1]),
                                   keystore |-> Keystore(req.keys, {}, wallet)],
                                  req.hex[1]))

=============================================================================
