----------------------------- MODULE MCPolling -----------------------------
(* Polling with a microinverter of two parameter chunks and one of one port.  *)
EXTENDS Polling, TLC

MCSerials == {"A", "B", "X"}
MCInventory == <<"A", "B">>
MCNumPorts == "A" :> 20 @@ "B" :> 1
\* Everything; one; one twice; and a serial that is not there.
MCChoices == {<<>>, <<"B">>, <<"A", "A">>, <<"X", "A">>}
=============================================================================
