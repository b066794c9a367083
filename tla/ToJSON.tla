------------------------------ MODULE ToJSON -------------------------------
(***************************************************************************)
(* ScriptPubKeyToJSON, TxJoinSplitToJSON, TxToJSON and CertToJSON of       *)
(* src/rpc/rawtransaction.cpp, as the decode handlers show them: the       *)
(* inputs, outputs and joinsplits of an entity, the kind and the addresses *)
(* of every locking script, and for a backward transfer the key it pays,   *)
(* which is read out of the bytes of its script.                           *)
(*                                                                         *)
(* A script is a sequence of bytes.  A byte is an opcode, a count, or byte *)
(* i of a hash h in memory, [of |-> h, at |-> i], each a record so that    *)
(* any two can be compared.  The hex string of a hash shows its bytes last *)
(* first (uint160::SetHex and GetHex), and is the sequence of those bytes; *)
(* the hex string and the "asm" text of a script are the script.           *)
(***************************************************************************)
EXTENDS Integers, SequencesExt

CONSTANTS
    PkhSize     \* sizeof(uint160): the bytes of a key identifier

OP_DUP         == [op |-> "OP_DUP"]
OP_HASH160     == [op |-> "OP_HASH160"]
OP_EQUAL       == [op |-> "OP_EQUAL"]
OP_EQUALVERIFY == [op |-> "OP_EQUALVERIFY"]
OP_CHECKSIG    == [op |-> "OP_CHECKSIG"]

\* The byte that says how many bytes follow it.
Push(n) == [push |-> n]

\* The bytes of hash h in memory.
KeyBytes(h) == [i \in 1..PkhSize |-> [of |-> h, at |-> i]]

\* uint160::GetHex, and HexStr from rbegin() to rend().
GetHex(bytes) == Reverse(bytes)

\* GetScriptForDestination(keyID, false): pay to the key h.
PayToPubKeyHash(h) ==
    <<OP_DUP, OP_HASH160, Push(PkhSize)>> \o KeyBytes(h) \o <<OP_EQUALVERIFY, OP_CHECKSIG>>

\* GetScriptForDestination(scriptID): pay to the script with hash h.
PayToScriptHash(h) == <<OP_HASH160, Push(PkhSize)>> \o KeyBytes(h) \o <<OP_EQUAL>>

\* The locking script of an output: one that a create handler added pays the
\* key of its address; one that was made elsewhere carries its script.
ScriptPubKey(txout) ==
    CASE "scriptPubKey" \in DOMAIN txout -> txout.scriptPubKey
      [] "pkh" \in DOMAIN txout          -> PayToPubKeyHash(txout.pkh)
      [] OTHER                           -> PayToPubKeyHash(txout.address)

\* Whether byte b of a script is the first byte of a hash.
HashBegins(script, b) ==
    b \in DOMAIN script /\ "of" \in DOMAIN script[b] /\ script[b].at = 1

\* ExtractDestinations: the kind of a script and the addresses it pays.  Of
\* the standard kinds, the ones paying a key hash and a script hash are here.
ExtractDestinations(script) ==
    CASE HashBegins(script, 4) /\ script = PayToPubKeyHash(script[4].of) ->
            [type |-> "pubkeyhash", reqSigs |-> 1, addresses |-> <<script[4].of>>]
      [] HashBegins(script, 3) /\ script = PayToScriptHash(script[3].of) ->
            [type |-> "scripthash", reqSigs |-> 1, addresses |-> <<script[3].of>>]
      [] OTHER -> [type |-> "nonstandard"]

\* "hex" is shown on request; a script that is not standard has its type
\* and nothing more.
ScriptPubKeyToJSON(scriptPubKey, fIncludeHex) ==
    [asm |-> scriptPubKey]
        @@ (IF fIncludeHex THEN [hex |-> scriptPubKey] ELSE << >>)
        @@ ExtractDestinations(scriptPubKey)

\* CScCertificate::IsBackwardTransfer: the outputs after the ordinary ones.
IsBackwardTransfer(txout) == "address" \notin DOMAIN txout

\* std::find: the place of the first OP_HASH160, 0 for end().
FindHash160(script) == SelectInSeq(script, LAMBDA b : b = OP_HASH160)

\* A mistake: the bytes are shown in the order of memory.
PubKeyHashInMemoryOrder(script, stray) ==
    LET it == FindHash160(script) + 2
    IN  IF FindHash160(script) = 0
        THEN "<<Decode error>>"
        ELSE [i \in 1..PkhSize |->
                 IF it + i - 1 \in DOMAIN script THEN script[it + i - 1] ELSE stray]

\* pkhStr: the PkhSize bytes that begin two after the first OP_HASH160,
\* wherever the script ends; stray is what a byte past the end reads as.
PubKeyHashStr(script, stray) ==
    LET it == FindHash160(script) + 2
    IN  IF FindHash160(script) = 0
        THEN "<<Decode error>>"
        ELSE GetHex([i \in 1..PkhSize |->
                        IF it + i - 1 \in DOMAIN script THEN script[it + i - 1]
                                                        ELSE stray])

\* Whether the copy into pkh reads past scriptPubKey.end().
ReadsPastEnd(script) ==
    FindHash160(script) # 0 /\ FindHash160(script) + 1 + PkhSize > Len(script)

\* One element of "vout" of a certificate.
OutToJSON(vout, i, stray) ==
    [n |-> i - 1, scriptPubKey |-> ScriptPubKeyToJSON(ScriptPubKey(vout[i]), TRUE)]
        @@ (IF IsBackwardTransfer(vout[i])
            THEN [backwardTransfer |-> TRUE,
                  pubkeyhash |-> PubKeyHashStr(ScriptPubKey(vout[i]), stray)]
            ELSE << >>)

\* CertToJSON without a block: the inputs, the outputs and the
\* certificate's own fields.  `oob` is not in the real reply: it records a
\* read past the end.
CertToJSON(cert, stray) ==
    [vin  |-> cert.vin,
     cert |-> cert.payload,
     vout |-> [i \in DOMAIN cert.vout |-> OutToJSON(cert.vout, i, stray)],
     oob  |-> \E i \in DOMAIN cert.vout :
                  /\ IsBackwardTransfer(cert.vout[i])
                  /\ ReadsPastEnd(ScriptPubKey(cert.vout[i]))]

\* COutPoint::SetNull: the index (uint32_t) -1, written as -1.
NullIndex == -1

\* CTransaction::IsCoinBase: one input, and it spends nothing.
IsCoinBase(tx, NullHash) ==
    Len(tx.vin) = 1 /\ tx.vin[1].prevout = [hash |-> NullHash, n |-> NullIndex]

GROTH_TX_VERSION == "GROTH_TX_VERSION"

\* TxJoinSplitToJSON: one object for each joinsplit of the transaction, in
\* their order.  A description is opaque: its amounts, hashes and
\* ciphertexts are shown as they are, its proof as the serializer of the
\* transaction's version writes it.  Only a transaction made elsewhere has
\* joinsplits, and with them its version.
TxJoinSplitToJSON(tx) ==
    IF "vjoinsplit" \notin DOMAIN tx
    THEN << >>
    ELSE [i \in DOMAIN tx.vjoinsplit |->
             [tx.vjoinsplit[i] EXCEPT
                 !.proof = [useGroth |-> tx.nVersion = GROTH_TX_VERSION, proof |-> @]]]

\* TxToJSON without a block: a coinbase shows the script of its input and
\* not what it spends; the cross-chain outputs are shown as they are
\* (AddSidechainOutsToJSON).
TxToJSON(tx, NullHash) ==
    [vin        |-> [i \in DOMAIN tx.vin |->
                        IF IsCoinBase(tx, NullHash)
                        THEN [coinbase |-> tx.vin[i].scriptSig]
                        ELSE [txid |-> tx.vin[i].prevout.hash, vout |-> tx.vin[i].prevout.n,
                              scriptSig |-> tx.vin[i].scriptSig]],
     vout       |-> [i \in DOMAIN tx.vout |->
                        [n |-> i - 1,
                         scriptPubKey |-> ScriptPubKeyToJSON(ScriptPubKey(tx.vout[i]), TRUE)]],
     crosschain |-> tx.payload,
     vjoinsplit |-> TxJoinSplitToJSON(tx)]

=============================================================================
