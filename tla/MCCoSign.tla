------------------------------ MODULE MCCoSign ------------------------------
(***************************************************************************)
(* CoSign for model checking.  Two previous transactions: t1 has one       *)
(* output locked to 2 of the keys 1, 2, 3; t2 has one pay-to-script-hash   *)
(* output locked to key 1.  Callers build entities that spend one or both  *)
(* of them, with one output or none, and sign them key by key.             *)
(*                                                                         *)
(* TLC shares the value of a constant that a configuration substitutes     *)
(* between its workers, and sorts the fields of a record of it in place    *)
(* when it first uses the record.  The records of this module are written  *)
(* with their fields in the order in which TLC has met the names, which is *)
(* the order of their first occurrence in this module.                     *)
(***************************************************************************)
EXTENDS CoSign

CONSTANTS t1, t2, a1, h1, h2

TwoOfThree == [keys |-> {1, 2, 3}, m |-> 2, p2sh |-> FALSE]
ScriptHash == [keys |-> {1}, m |-> 1, p2sh |-> TRUE]

MCKeys == {1, 2, 3}
MCTxIds == {t1, t2}
MCTxOutputs == (t1 :> <<TwoOfThree>>) @@ (t2 :> <<ScriptHash>>)
MCWalletKeys == {1}
MCWalletScripts == {RedeemScript(ScriptHash)}

In(t, n) == [txid |-> t, vout |-> n]
Out(a) == [address |-> a, amount |-> 1]
PrevTx(t, n, lock, script) ==
    [txid |-> t, vout |-> n, scriptPubKey |-> lock, redeemScript |-> script]

\* A garbage script: a signature nothing verifies.
NoArgs == {}

MCGarbage ==
    {[sigs   |-> {[key |-> 1, msg |-> [hashType |-> SIGHASH_ALL]]},
      redeem |-> FALSE]}

-----------------------------------------------------------------------------
(* The arguments of the run "merge": entities of one and of two inputs,    *)
(* signed with one key at a time or with the wallet, with the default hash *)
(* type or with one that commits to the signer's own input and the output  *)
(* at its index, and merged.                                               *)

MergeInputArgs == {<<In(t1, 0)>>, <<In(t1, 0), In(t2, 0)>>, <<In(t1, -1)>>}
MergeSendToArgs == {<<Out(a1)>>, <<Out(a1), Out(a1)>>}
MergeCrosschainArgs == {None}
MergePrevTxArgs == {None, <<PrevTx(t2, 0, ScriptHash, RedeemScript(ScriptHash))>>}
MergeKeyArgs == {None, <<1>>, <<2>>, <<3>>}
MergeHashTypeArgs == {None, "SINGLE|ANYONECANPAY"}

\* The runs that sign with the default hash type only.
DefaultHashTypeArgs == {None}

-----------------------------------------------------------------------------
(* The arguments of the run "params": every way a request is refused, the  *)
(* signature hash types, outputs given in "prevtxs" that the node does not *)
(* know, knows, or knows otherwise, one of them past the outputs of its    *)
(* transaction, entities without outputs or without inputs, and calls      *)
(* without "inputs" or "sendTo".                                           *)

ParamsInputArgs ==
    {None, << >>, <<In(t1, 0), In(t2, 0)>>, <<In(t2, 0)>>, <<In(Invalid, 0)>>,
     <<In(t1, None)>>}
ParamsSendToArgs ==
    {None, << >>, <<Out(a1)>>, <<Out(Invalid)>>, <<[address |-> a1, amount |-> Invalid]>>}
ParamsCrosschainArgs == {None, <<Invalid>>}
ParamsPrevTxArgs ==
    {None,
     <<Invalid>>,
     <<PrevTx(t1, -1, TwoOfThree, None)>>,
     <<PrevTx(t2, 0, ScriptHash, None)>>,
     <<PrevTx(t1, 0, ScriptHash, RedeemScript(ScriptHash))>>,
     <<PrevTx(t1, 1, ScriptHash, RedeemScript(ScriptHash))>>,
     <<PrevTx(t2, 0, TwoOfThree, None),
       PrevTx(t2, 0, ScriptHash, RedeemScript(ScriptHash))>>}
ParamsKeyArgs == {None, <<1>>, <<2, OutOfRange>>, <<Invalid, OutOfRange>>}
ParamsHashTypeArgs == {None, "SINGLE", "NONE|ANYONECANPAY", "ALL|SINGLE"}

-----------------------------------------------------------------------------
(* The arguments of the run "cert": a certificate that spends both         *)
(* outputs, which one signing call cannot complete, and one that spends    *)
(* the output the wallet can sign alone, with every way its parameters are *)
(* refused, signed with one key at a time or with the wallet.              *)

Bwt(pkh, amount) == [amount |-> amount, pkh |-> pkh]
Param(key, value) == [key |-> key, value |-> value]

\* The five parameters of a certificate of the given epoch and quality.
CertParams(epoch, q, proof) ==
    <<Param("scid", h1), Param("withdrawalEpochNumber", epoch),
      Param("quality", q), Param("endEpochBlockHash", h2),
      Param("scProof", proof)>>

Proof == [valid |-> TRUE]
Good == CertParams(0, 1, Proof)

\* s without its j-th element.
Without(s, j) == SubSeq(s, 1, j - 1) \o SubSeq(s, j + 1, Len(s))

CertInputArgs == {<<In(t1, 0), In(t2, 0)>>, <<In(t2, 0)>>}
CertSendToArgs == {<<Out(a1)>>}
CertBwtArgs ==
    {None,
     <<Bwt(h1, 1)>>,
     <<Bwt(NullHash, 1), Bwt(Invalid, 1)>>,
     <<Bwt(h1, Invalid)>>}
CertCertParamArgs ==
    {Good,
     CertParams(-1, 0, Proof),
     CertParams(0, -1, Proof),
     CertParams(0, 1, Invalid),
     CertParams(0, 1, [valid |-> FALSE]),
     Good \o <<Param("fee", 1)>>,
     <<Param("scid", h1), Param("scid", h2)>> \o Tail(Good)}
    \cup {Without(Good, j) : j \in DOMAIN Good}
CertCertKeyArgs == {None, <<1>>, <<2>>, <<Invalid>>}
CertTxKeyArgs == {<<1>>}
CertPrevTxArgs == {None}
CertHashTypeArgs == {None}

-----------------------------------------------------------------------------
(* Entities made elsewhere, which the node is given to decode.             *)

\* A certificate whose backward transfer has a script that
\* createrawcertificate would not have made.
Foreign(script) ==
    [vout    |-> <<[amount |-> 1, scriptPubKey |-> script]>>,
     vin     |-> << >>,
     payload |-> [nVersion |-> "SC_CERT_VERSION", scId |-> h1, epochNumber |-> 0,
                  quality |-> 1, endEpochBlockHash |-> h2, scProof |-> Proof]]

\* A coinbase transaction: its one input spends the null outpoint.
CoinBase(index) ==
    [vout    |-> <<Out(a1)>>,
     vin     |-> <<[prevout   |-> [n |-> index, hash |-> NullHash],
                    scriptSig |-> [sigs |-> {}, redeem |-> FALSE]]>>,
     payload |-> [vsc_ccout |-> << >>, vft_ccout |-> << >>]]

\* A transaction with one joinsplit and nothing else.
Shielded(version) ==
    [vout       |-> << >>,
     vin        |-> << >>,
     payload    |-> [vsc_ccout |-> << >>, vft_ccout |-> << >>],
     nVersion   |-> version,
     vjoinsplit |-> <<[proof |-> Proof, vpub_old |-> 0, vpub_new |-> 1,
                       anchor |-> h1]>>]

=============================================================================
