------------------------------- MODULE Script -------------------------------
(***************************************************************************)
(* The Signer, Combiner and Verifier collaborators of the raw-transaction  *)
(* RPCs, and the signature hash they share.  Their code (script/sign.cpp,  *)
(* script/interpreter.cpp, coins.h) is outside src/: every definition here *)
(* is written from the contracts of spec.md sections 4.2 and 4.4 and from  *)
(* the way rawtransaction.cpp calls them.                                  *)
(*                                                                         *)
(* Data is abstracted to what combination and verification tell apart:     *)
(*  - a locking script (scriptPubKey) is an m-of-n requirement over a set  *)
(*    of keys, bare or wrapped in pay-to-script-hash; pay-to-pubkey-hash   *)
(*    is 1-of-1;                                                           *)
(*  - a signature is the key that made it and the digest it commits to;    *)
(*  - an unlocking script (scriptSig) is a set of signatures, and whether  *)
(*    it pushes the redeem script a pay-to-script-hash output asks for.    *)
(* Keys are natural numbers: their order is the order of the public keys   *)
(* in a multi-signature script, which makes signing and combining          *)
(* deterministic.                                                          *)
(***************************************************************************)
EXTENDS Naturals, Sequences, FiniteSets

CONSTANTS Keys      \* the private keys that exist

ASSUME Keys \subseteq Nat

-----------------------------------------------------------------------------
(* Signature hash types: the six selectors of signrawtransaction.          *)

HashTypes == [base : {"ALL", "NONE", "SINGLE"}, anyoneCanPay : BOOLEAN]

SIGHASH_ALL == [base |-> "ALL", anyoneCanPay |-> FALSE]

-----------------------------------------------------------------------------
(* Locking scripts and previous outputs.                                   *)

Lock(keys, m, p2sh) == [keys |-> keys, m |-> m, p2sh |-> p2sh]

\* The script the signatures are checked against: the output's own script,
\* or the redeem script a pay-to-script-hash output commits to.
RedeemScript(lock) == [lock EXCEPT !.p2sh = FALSE]

\* A spent (null) output of a CCoins entry.
NullOut == Lock({}, 0, FALSE)

\* CCoins::IsAvailable: the entry has an output n (counted from 0) that is
\* not spent.  A missing entry is the empty sequence.
IsAvailable(coin, n) == n + 1 \in DOMAIN coin /\ coin[n + 1] # NullOut

-----------------------------------------------------------------------------
(* The signature hash.  body is an entity without its unlocking scripts:   *)
(* [vin: sequence of previous outpoints, vout: sequence of outputs,        *)
(*  payload: what else the digest commits to].  i counts inputs from 1.    *)

\* SIGHASH_SINGLE commits to the output at the input's own index: there is
\* no digest when the entity has no such output.
HasDigest(body, i, ht) == ht.base = "SINGLE" => i <= Len(body.vout)

SignatureHash(scriptCode, body, i, ht) ==
    [hashType   |-> ht,
     scriptCode |-> scriptCode,
     vin        |-> IF ht.anyoneCanPay THEN <<body.vin[i]>> ELSE body.vin,
     nIn        |-> IF ht.anyoneCanPay THEN 1 ELSE i,
     vout       |-> CASE ht.base = "ALL"    -> body.vout
                      [] ht.base = "NONE"   -> << >>
                      [] ht.base = "SINGLE" -> <<body.vout[i]>>,
     nOut       |-> IF ht.base = "SINGLE" THEN i ELSE 0,
     payload    |-> body.payload]

-----------------------------------------------------------------------------
(* Unlocking scripts.                                                      *)

EmptyScript == [sigs |-> {}, redeem |-> FALSE]

ValidSig(sig, lock, body, i) ==
    /\ sig.key \in lock.keys
    /\ HasDigest(body, i, sig.msg.hashType)
    /\ sig.msg = SignatureHash(RedeemScript(lock), body, i, sig.msg.hashType)

ValidSigs(script, lock, body, i) ==
    {sig \in script.sigs : ValidSig(sig, lock, body, i)}

SignedBy(sigs) == {sig.key : sig \in sigs}

\* The m smallest keys of a set: the order a multi-signature script is
\* signed and combined in.
FirstKeys(keys, m) == {k \in keys : Cardinality({j \in keys : j < k}) < m}

\* What a key store can sign for a lock: nothing for a pay-to-script-hash
\* output whose redeem script it does not hold.
Signers(keystore, lock) ==
    IF lock.p2sh /\ RedeemScript(lock) \notin keystore.scripts
    THEN {}
    ELSE FirstKeys(lock.keys \cap keystore.keys, lock.m)

\* sign(keys, lockingScript, entity, index, sighashType): the best script
\* the key store can make; too few keys give a partial or empty script.
SignSignature(keystore, lock, body, i, ht) ==
    [sigs   |-> {[key |-> k, msg |-> SignatureHash(RedeemScript(lock), body, i, ht)] :
                    k \in Signers(keystore, lock)},
     redeem |-> lock.p2sh /\ RedeemScript(lock) \in keystore.scripts]

\* The signer raises instead of signing a digest that does not exist.
SignThrows(keystore, lock, body, i, ht) ==
    Signers(keystore, lock) # {} /\ ~HasDigest(body, i, ht)

\* A script's signatures count for a lock when the script has the lock's
\* form (it pushes the redeem script exactly when the lock asks for one) and
\* the signature is valid: in any other script the pushes mean something
\* else.
UsableSigs(script, lock, body, i) ==
    IF script.redeem = lock.p2sh THEN ValidSigs(script, lock, body, i) ELSE {}

\* combine(lockingScript, entity, index, scriptA, scriptB): re-validates
\* every signature of both scripts against the lock and keeps, key by key
\* in key order, as many valid ones as the lock requires; a key signed in
\* both keeps scriptA's signature.
CombineSignatures(lock, body, i, a, b) ==
    LET fromA == UsableSigs(a, lock, body, i)
        fromB == UsableSigs(b, lock, body, i)
        keep  == FirstKeys(SignedBy(fromA \cup fromB), lock.m)
        SigOf(k) == CHOOSE sig \in fromA \cup fromB :
                        /\ sig.key = k
                        /\ k \in SignedBy(fromA) => sig \in fromA
    IN  IF lock.p2sh /\ ~(a.redeem \/ b.redeem)
        THEN EmptyScript
        ELSE [sigs |-> {SigOf(k) : k \in keep}, redeem |-> lock.p2sh]

\* A script satisfies a lock when it pushes the redeem script exactly when
\* the lock asks for one, and carries exactly m signatures, all valid, of
\* m different keys.
Satisfies(script, lock, body, i) ==
    /\ script.redeem = lock.p2sh
    /\ ValidSigs(script, lock, body, i) = script.sigs
    /\ Cardinality(script.sigs) = lock.m
    /\ Cardinality(SignedBy(script.sigs)) = lock.m

ScriptErrors == {"SCRIPT_ERR_INVALID_STACK_OPERATION", "SCRIPT_ERR_EVAL_FALSE"}

\* verify(unlockingScript, lockingScript, flags, checker): "OK" or the
\* script error.
VerifyScript(script, lock, body, i) ==
    CASE Satisfies(script, lock, body, i) -> "OK"
      [] script = EmptyScript             -> "SCRIPT_ERR_INVALID_STACK_OPERATION"
      [] OTHER                            -> "SCRIPT_ERR_EVAL_FALSE"

=============================================================================
