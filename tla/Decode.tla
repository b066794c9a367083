------------------------------- MODULE Decode -------------------------------
(***************************************************************************)
(* The node of module CoSign serving decoderawtransaction,                 *)
(* decoderawcertificate and decodescript as well: a caller has the node    *)
(* show an entity it holds, or one that was made elsewhere, before it      *)
(* signs or sends it.  The handlers read their argument and nothing else.  *)
(***************************************************************************)
EXTENDS CoSign, ToJSON

CONSTANTS
    ForeignEntities,    \* entities made elsewhere that callers have shown
    ScriptArgs,         \* the scripts callers give to decodescript
    StrayBytes          \* what a byte read past the end of a script may be

\* decoderawtransaction: one transaction, shown without a block.
DecodeRawTransaction(hex) ==
    IF hex = Invalid \/ IsCert(hex)
    THEN Throw("TX decode failed")
    ELSE [error |-> None, result |-> TxToJSON(hex, NullHash)]

decoderawtransaction(hex) ==
    /\ reply = Idle
    /\ reply' = Reply("decoderawtransaction", hex, DecodeRawTransaction(hex))
    /\ UNCHANGED <<coins, wallet, wire>>

\* decoderawcertificate: one certificate, shown without a block.
DecodeRawCertificate(hex, stray) ==
    IF hex = Invalid \/ ~IsCert(hex)
    THEN Throw("TX decode failed")
    ELSE [error |-> None, result |-> CertToJSON(hex, stray)]

decoderawcertificate(hex, stray) ==
    /\ reply = Idle
    /\ reply' = Reply("decoderawcertificate", hex, DecodeRawCertificate(hex, stray))
    /\ UNCHANGED <<coins, wallet, wire>>

\* decodescript: a script, the empty one included, without its "hex" and
\* with the address that pays to its hash.
DecodeScript(hex) ==
    IF hex = Invalid
    THEN Throw("argument must be hexadecimal string")
    ELSE [error  |-> None,
          result |-> ScriptPubKeyToJSON(hex, FALSE) @@ [p2sh |-> [hash160 |-> hex]]]

decodescript(hex) ==
    /\ reply = Idle
    /\ reply' = Reply("decodescript", hex, DecodeScript(hex))
    /\ UNCHANGED <<coins, wallet, wire>>

\* The three take one parameter.
decoderawtransactionUsage == Usage("decoderawtransaction", {1})
decoderawcertificateUsage == Usage("decoderawcertificate", {1})
decodescriptUsage         == Usage("decodescript", {1})

-----------------------------------------------------------------------------

DecodeNext ==
    \/ Next
    \/ \E hex \in wire \cup ForeignEntities \cup {Invalid} : decoderawtransaction(hex)
    \/ \E hex \in wire \cup ForeignEntities \cup {Invalid}, stray \in StrayBytes :
            decoderawcertificate(hex, stray)
    \/ \E hex \in ScriptArgs : decodescript(hex)
    \/ decoderawtransactionUsage
    \/ decoderawcertificateUsage
    \/ decodescriptUsage

DecodeSpec == Init /\ [][DecodeNext]_vars

-----------------------------------------------------------------------------

Decoded == Answered("decoderawcertificate")

\* decoderawcertificate shows the key of every backward transfer that
\* createrawcertificate added (line 890) in the hex digits it was given in,
\* and as the one address of its script: line 876 reads the digits into a
\* key identifier, GetScriptForDestination puts its bytes into the script,
\* ScriptPubKeyToJSON (line 202) recognises the script, and lines 207-212
\* of CertToJSON find the bytes two after OP_HASH160 and write them last
\* byte first.
BwtKeyShownAsGiven ==
    Decoded =>
        \A i \in DOMAIN reply.req.vout :
            "pkh" \in DOMAIN reply.req.vout[i] =>
                /\ reply.result.vout[i].pubkeyhash = GetHex(KeyBytes(reply.req.vout[i].pkh))
                /\ reply.result.vout[i].scriptPubKey.addresses = <<reply.req.vout[i].pkh>>

\* CertToJSON reads the key of a backward transfer within the bytes of its
\* script (lines 210-211), whatever certificate it is given to show.
DecodeReadsInBounds == Decoded => ~reply.result.oob

=============================================================================
