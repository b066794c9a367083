----------------------------- MODULE CreateRaw -----------------------------
(***************************************************************************)
(* createrawtransaction and createrawcertificate of                        *)
(* src/rpc/rawtransaction.cpp: the unsigned entity a co-signing round      *)
(* starts from, built from JSON arguments.                                 *)
(*                                                                         *)
(* An input argument is [txid, vout], where txid is Invalid when it is not *)
(* a hash and vout is None when the key is missing or not a number.  An    *)
(* output argument is [address, amount], either of them Invalid when it    *)
(* does not parse.  An output of the entity is the pair itself: the        *)
(* destination script is determined by the address.  Cross-chain outputs   *)
(* are opaque values, Invalid when the sidechain library refuses them.     *)
(*                                                                         *)
(* The checks of a handler are the arms of a CASE in the order of the      *)
(* code: the first arm whose guard holds is the early return taken.        *)
(***************************************************************************)
EXTENDS Integers, Sequences, SequencesExt

CONSTANTS
    None,       \* an optional parameter that is absent or null
    Invalid,    \* a parameter value that does not parse or decode
    NullHash    \* the hash whose bits are all zero

\* CMutableTransaction rawTx, as constructed.
EmptyTx ==
    [vin     |-> << >>,
     vout    |-> << >>,
     payload |-> [vsc_ccout |-> << >>, vft_ccout |-> << >>]]

\* A builder stops at the first argument it refuses: every step passes an
\* earlier error on.
Raise(acc, strMessage) == [acc EXCEPT !.error = strMessage]

\* An element of "inputs" taken without the test of the sign of "vout".
AddInputNoSignCheck(acc, o) ==
    CASE acc.error # None -> acc
      [] o.txid = Invalid -> Raise(acc, "txid must be hexadecimal string")
      [] o.vout = None    -> Raise(acc, "Invalid parameter, missing vout key")
      [] OTHER ->
            [acc EXCEPT !.tx.vin =
                Append(@, [prevout   |-> [hash |-> o.txid, n |-> o.vout],
                           scriptSig |-> [sigs |-> {}, redeem |-> FALSE]])]

\* One element of "inputs".
AddInput(acc, o) ==
    CASE acc.error # None -> acc
      [] o.txid = Invalid -> Raise(acc, "txid must be hexadecimal string")
      [] o.vout = None    -> Raise(acc, "Invalid parameter, missing vout key")
      [] o.vout < 0       -> Raise(acc, "Invalid parameter, vout must be positive")
      [] OTHER ->
            [acc EXCEPT !.tx.vin =
                Append(@, [prevout   |-> [hash |-> o.txid, n |-> o.vout],
                           scriptSig |-> [sigs |-> {}, redeem |-> FALSE]])]

AddInputsToRawObject(acc, inputs) == FoldLeft(AddInput, acc, inputs)

\* One key of "sendTo"; the addresses seen so far are those of the outputs
\* added so far.
AddOutput(acc, out) ==
    CASE acc.error # None -> acc
      [] out.address = Invalid -> Raise(acc, "Invalid Horizen address")
      [] \E j \in DOMAIN acc.tx.vout : acc.tx.vout[j].address = out.address ->
            Raise(acc, "Invalid parameter, duplicated address")
      [] out.amount = Invalid -> Raise(acc, "Invalid amount")
      [] OTHER -> [acc EXCEPT !.tx.vout = Append(@, out)]

AddOutputsToRawObject(acc, sendTo) == FoldLeft(AddOutput, acc, sendTo)

\* Sidechain::AddSidechainCreationOutputs and AddSidechainForwardOutputs,
\* as the handler uses them: all of the array is added, or the call fails.
AddCrosschainOutputs(acc, field, arr) ==
    CASE acc.error # None \/ arr = None -> acc
      [] \E j \in DOMAIN arr : arr[j] = Invalid -> Raise(acc, "RPC_TYPE_ERROR")
      [] OTHER -> [acc EXCEPT !.tx.payload[field] = @ \o arr]

\* What a handler returns of a builder's work: [error, result], the result
\* being the entity whose hex encoding is returned.
Built(acc) ==
    [error  |-> acc.error,
     result |-> IF acc.error = None THEN acc.tx ELSE None]

\* RPCTypeCheck, get_array and get_obj, before anything is built: a
\* parameter that is missing or null is no array and no object.
NotAsExpected == [error |-> "JSON value is not as expected", result |-> None]

CreateRawTransaction(inputs, sendTo, sc_crs, fwdtr) ==
    IF None \in {inputs, sendTo}
    THEN NotAsExpected
    ELSE Built(AddCrosschainOutputs(
                   AddCrosschainOutputs(
                       AddOutputsToRawObject(
                           AddInputsToRawObject([tx |-> EmptyTx, error |-> None], inputs),
                           sendTo),
                       "vsc_ccout", sc_crs),
                   "vft_ccout", fwdtr))

-----------------------------------------------------------------------------
(* createrawcertificate.  A backward transfer argument is [pkh, amount],   *)
(* the certificate parameters a sequence of [key, value] in the order of   *)
(* the JSON object.  Hashes are read with SetHex, which refuses nothing.   *)
(* A backward transfer is an output of the certificate that pays a key     *)
(* identifier: the record [pkh, amount] among the outputs.                 *)

\* CMutableScCertificate rawCert, with the version it is given.
EmptyCert ==
    [vin |-> << >>, vout |-> << >>, payload |-> [nVersion |-> "SC_CERT_VERSION"]]

\* uint160::SetHex and uint256::SetHex: a string that is not hexadecimal
\* reads as the hash it begins with, here the null hash.
SetHex(str) == IF str = Invalid THEN NullHash ELSE str

\* setAddress: the keys the backward transfers added so far pay.
BwtKeys(tx) == {tx.vout[j].pkh : j \in {h \in DOMAIN tx.vout : "pkh" \in DOMAIN tx.vout[h]}}

\* A key of "backward addresses" compared as the string it was given as,
\* and not as the key it is read as.
AddBwtComparingNames(acc, out) ==
    CASE acc.error # None          -> acc
      [] out.pkh \in BwtKeys(acc.tx) -> Raise(acc, "Invalid parameter, duplicated address")
      [] out.amount = Invalid      -> Raise(acc, "Invalid amount")
      [] OTHER ->
            [acc EXCEPT !.tx.vout =
                Append(@, [pkh |-> SetHex(out.pkh), amount |-> out.amount])]

\* One key of "backward addresses".  A key identifier always makes a valid
\* address, so the address check of the code never fails.
AddBwt(acc, out) ==
    CASE acc.error # None                  -> acc
      [] SetHex(out.pkh) \in BwtKeys(acc.tx) ->
            Raise(acc, "Invalid parameter, duplicated address")
      [] out.amount = Invalid              -> Raise(acc, "Invalid amount")
      [] OTHER ->
            [acc EXCEPT !.tx.vout =
                Append(@, [pkh |-> SetHex(out.pkh), amount |-> out.amount])]

\* validKeyArgs
validKeyArgs == {"scid", "withdrawalEpochNumber", "quality", "endEpochBlockHash", "scProof"}

\* The sanity check of the keys of cert_params, key by key.
CertKeysError(cert_params) ==
    LET Unknown(j)  == cert_params[j].key \notin validKeyArgs
        Repeated(j) == \E h \in 1..(j - 1) : cert_params[h].key = cert_params[j].key
        bad         == {j \in DOMAIN cert_params : Unknown(j) \/ Repeated(j)}
    IN  CASE bad = {}          -> None
          [] Unknown(Min(bad)) -> "Invalid parameter, unknown key"
          [] OTHER             -> "Duplicate key in input"

\* find_value: the value of the first pair with the key, if there is one.
FindValue(cert_params, key) ==
    LET j == SelectInSeq(cert_params, LAMBDA p : p.key = key)
    IN  IF j = 0 THEN None ELSE cert_params[j].value

\* The mandatory parameters in the order the handler reads them.  A proof
\* is Invalid when it is not a hex string of SC_PROOF_SIZE bytes, and else
\* a record that says whether libzendoomc takes it for a proof.
CertParamsError(cert_params) ==
    LET Given(key)   == FindValue(cert_params, key)
        Missing(key) == "Missing mandatory parameter in input: " \o key
    IN  CASE CertKeysError(cert_params) # None     -> CertKeysError(cert_params)
          [] Given("scid") = None                  -> Missing("scid")
          [] Given("withdrawalEpochNumber") = None -> Missing("withdrawalEpochNumber")
          [] Given("quality") = None               -> Missing("quality")
          [] Given("quality") < 0                  ->
                "Invalid parameter \"quality\": must be a positive number"
          [] Given("endEpochBlockHash") = None     -> Missing("endEpochBlockHash")
          [] Given("scProof") = None               -> Missing("scProof")
          [] Given("scProof") = Invalid            -> "scProof: RPC_TYPE_ERROR"
          [] ~Given("scProof").valid               -> "invalid cert \"scProof\""
          [] OTHER                                 -> None

\* The certificate's own fields, set once every parameter is accepted.
SetCertParams(acc, cert_params) ==
    CASE acc.error # None                  -> acc
      [] CertParamsError(cert_params) # None -> Raise(acc, CertParamsError(cert_params))
      [] OTHER ->
            [acc EXCEPT !.tx.payload =
                @ @@ [scId              |-> SetHex(FindValue(cert_params, "scid")),
                      epochNumber       |-> FindValue(cert_params, "withdrawalEpochNumber"),
                      quality           |-> FindValue(cert_params, "quality"),
                      endEpochBlockHash |-> SetHex(FindValue(cert_params, "endEpochBlockHash")),
                      scProof           |-> FindValue(cert_params, "scProof")]]

CreateRawCertificate(inputs, standardOutputs, backwardOutputs, cert_params) ==
    IF None \in {inputs, standardOutputs, backwardOutputs, cert_params}
    THEN NotAsExpected
    ELSE Built(SetCertParams(
                   FoldLeft(AddBwt,
                            AddOutputsToRawObject(
                                AddInputsToRawObject([tx |-> EmptyCert, error |-> None],
                                                     inputs),
                                standardOutputs),
                            backwardOutputs),
                   cert_params))

=============================================================================
