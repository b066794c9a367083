------------------------------ MODULE MCSendRaw ------------------------------
(***************************************************************************)
(* The instance of SendRaw that TLC checks: the outputs, keys and wallet   *)
(* of MCCoSign, and callers who build a transaction on one output or on    *)
(* both, and a certificate, sign them and send them.                       *)
(***************************************************************************)
EXTENDS MCCoSign, SendRaw

SendInputArgs == {<<In(t1, 0)>>, <<In(t2, 0)>>, <<In(t1, 0), In(t2, 0)>>}
SendSendToArgs == {<< >>, <<Out(a1)>>}
SendKeyArgs == {None, <<2>>}
SendCertParamArgs == {Good}
SendBwtArgs == {<< >>}
SendCertKeyArgs == {None}

=============================================================================
