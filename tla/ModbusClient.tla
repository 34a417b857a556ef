---------------------------- MODULE ModbusClient ----------------------------
(***************************************************************************)
(* One modbus context of libmodbus used as a client, as the whole program   *)
(* uses it: modbus_read_registers and modbus_write_register, one call at a   *)
(* time, over the TCP backend or the RTU backend                            *)
(* (src/src/libmodbus/src/modbus.c, modbus-tcp.c, modbus-rtu.c).            *)
(*                                                                         *)
(* A call sends a request and waits for an answer with a timeout.  The DTU   *)
(* serves requests in order, and may be slower than the timeout: a late      *)
(* answer stays in the receive buffer and is the first thing that the NEXT   *)
(* call reads.  Every request and answer carries its age, the number of      *)
(* calls made since, which no code sees: the properties do.                  *)
(*                                                                         *)
(* An answer is received in one piece (it is shorter than one segment), and  *)
(* the DTU is alone on its line.                                            *)
(***************************************************************************)
EXTENDS Integers, Sequences

CONSTANTS Settings,          \* the contexts and DTUs looked at, see SettingsAssumption
          TidMod,            \* number of transaction identifiers (2^16)
          MaxLate,           \* bound: no answer comes more than MaxLate calls late
          MaxReadRegisters,  \* MODBUS_MAX_READ_REGISTERS (125)
          Requests           \* what may be asked: [op, addr, arg]

Ops == {"read", "write"}

\* The backend; whether MODBUS_ERROR_RECOVERY_PROTOCOL is set (never, by this
\* program: modbus.c:1706); whether the DTU may leave a request unanswered or close.
ASSUME SettingsAssumption ==
  Settings \subseteq [backend : {"tcp", "rtu"}, recovery : BOOLEAN, lossy : BOOLEAN]
ASSUME BoundAssumption ==
  /\ TidMod \in Nat /\ MaxLate \in Nat
  /\ 0 < MaxLate /\ MaxLate < TidMod
ASSUME RequestsAssumption ==
  Requests \subseteq [op : Ops, addr : Nat, arg : Nat]

VARIABLES
  setting,  \* the context and the DTU: it never changes
  pc,       \* "idle", "waiting" for an answer, or "flushing" after a mismatch
  tid,      \* transaction identifier of the last request
  pending,  \* the request of the call in progress
  dtuIn,    \* requests the DTU has not answered, oldest first
  stream,   \* answers received and not read, oldest first
  peer,     \* "up", "closed" by the DTU, or "reset"
  result,   \* the last call that ended: "none", "ok" or "error", and its answer
  executed  \* writes the DTU has carried out

vars == <<setting, pc, tid, pending, dtuIn, stream, peer, result, executed>>

Backend == setting.backend
ProtocolRecovery == setting.recovery
Lossy == setting.lossy

Kinds == {"data", "exception", "corrupt"}
Frames == [tid : 0 .. TidMod - 1, req : Requests, age : Nat]
Answers == [tid : 0 .. TidMod - 1, req : Requests, age : Nat, kind : Kinds]
-----------------------------------------------------------------------------
Init ==
  /\ setting \in Settings
  /\ pc = "idle"
  /\ tid = 0
  /\ pending \in Requests
  /\ dtuIn = <<>>
  /\ stream = <<>>
  /\ peer = "up"
  /\ result = [outcome |-> "none"]
  /\ executed = {}

\* Mutant: the identifier wraps one too late.
NextTidWrapsLate == IF Backend = "tcp"
                    THEN IF tid < TidMod THEN tid + 1 ELSE 0
                    ELSE tid

\* Mutant: the identifier is not advanced.
SameTid == tid

\* build_request_basis: TCP takes the next identifier, RTU frames carry none.
NextTid == IF Backend = "tcp"
           THEN IF tid < TidMod - 1 THEN tid + 1 ELSE 0
           ELSE tid

Older(queue) == [i \in DOMAIN queue |-> [queue[i] EXCEPT !.age = @ + 1]]

Ended(outcome) == result' = [outcome |-> outcome]

\* modbus_read_registers refuses an oversized request before sending it.
RefuseOversized(req) ==
  /\ pc = "idle"
  /\ req.op = "read" /\ req.arg > MaxReadRegisters
  /\ Ended("error")
  /\ UNCHANGED <<pc, tid, pending, dtuIn, stream, peer, executed>>

\* The request is built and sent; a half closed connection still accepts it.
SendRequest(req) ==
  /\ pc = "idle"
  /\ req.op = "read" => req.arg <= MaxReadRegisters
  /\ peer # "reset"
  /\ pc' = "waiting"
  /\ tid' = NextTid
  /\ pending' = req
  /\ stream' = Older(stream)
  /\ dtuIn' = IF peer = "up"
              THEN Append(Older(dtuIn), [tid |-> NextTid, req |-> req, age |-> 0])
              ELSE dtuIn
  /\ UNCHANGED <<peer, result, executed>>

\* send() fails on a reset connection; the identifier is spent all the same.
SendFails(req) ==
  /\ pc = "idle"
  /\ req.op = "read" => req.arg <= MaxReadRegisters
  /\ peer = "reset"
  /\ tid' = NextTid
  /\ pending' = req
  /\ Ended("error")
  /\ UNCHANGED <<pc, dtuIn, stream, peer, executed>>
-----------------------------------------------------------------------------
\* Mutant: the identifier is not compared.
NoPreCheck(ans) == TRUE

\* pre_check_confirmation: the identifier over TCP.  Over RTU the slave address
\* is all there is to compare, and the DTU is the only slave.
PreCheck(ans) == Backend = "tcp" => ans.tid = tid

\* Mutant: the echo of a write is not compared.
CorrespondsNoEcho(ans) == ans.req.op = pending.op

\* check_confirmation: function and number of values for a read, the echo of
\* address and value for a write.  The answer to a read names no address.
Corresponds(ans) ==
  /\ ans.req.op = pending.op
  /\ ans.req.arg = pending.arg
  /\ pending.op = "write" => ans.req.addr = pending.addr

\* Mutant: every mismatch flushes.
RejectAndFlush == pc' = "flushing" /\ Ended("error")

\* What a rejected answer leads to: without recovery the call just fails.
Reject == /\ pc' = IF ProtocolRecovery THEN "flushing" ELSE "idle"
          /\ Ended("error")

\* The receive step of every call takes the first answer of the buffer.
TakesAnswer == /\ pc = "waiting"
               /\ stream # <<>>
               /\ stream' = Tail(stream)
               /\ UNCHANGED <<tid, pending, dtuIn, peer, executed>>

\* Mutant: the exception bit of the function code is not looked at.
AcceptException ==
  /\ TakesAnswer
  /\ Head(stream).kind # "corrupt"
  /\ PreCheck(Head(stream))
  /\ Corresponds(Head(stream))
  /\ pc' = "idle"
  /\ result' = [outcome |-> "ok", asked |-> pending, answer |-> Head(stream).req,
                age |-> Head(stream).age]

AcceptAnswer ==
  /\ TakesAnswer
  /\ Head(stream).kind = "data"
  /\ PreCheck(Head(stream))
  /\ Corresponds(Head(stream))
  /\ pc' = "idle"
  /\ result' = [outcome |-> "ok", asked |-> pending, answer |-> Head(stream).req,
                age |-> Head(stream).age]

RejectAnswer ==
  /\ TakesAnswer
  /\ Head(stream).kind # "corrupt"
  /\ PreCheck(Head(stream)) =>
       Head(stream).kind = "data" /\ ~Corresponds(Head(stream))
  /\ Reject

\* A valid exception answer fails the call, and is never a reason to flush.
ReceiveException ==
  /\ TakesAnswer
  /\ Head(stream).kind = "exception"
  /\ PreCheck(Head(stream))
  /\ pc' = "idle"
  /\ Ended("error")

\* check_integrity of RTU: a bad CRC fails the call, and flushes at once.
ReceiveCorrupt ==
  /\ pc = "waiting"
  /\ stream # <<>>
  /\ Head(stream).kind = "corrupt"
  /\ stream' = IF ProtocolRecovery THEN <<>> ELSE Tail(stream)
  /\ pc' = "idle"
  /\ Ended("error")
  /\ UNCHANGED <<tid, pending, dtuIn, peer, executed>>

\* Mutant: the flush reads nothing out of the buffer.
FlushNothing ==
  /\ pc = "flushing"
  /\ pc' = "idle"
  /\ UNCHANGED <<tid, pending, dtuIn, stream, peer, result, executed>>

\* modbus_flush, after the sleep of response_timeout: what has come is dropped.
Flush ==
  /\ pc = "flushing"
  /\ pc' = "idle"
  /\ stream' = <<>>
  /\ UNCHANGED <<tid, pending, dtuIn, peer, result, executed>>

\* Mutant: recv() returning 0 is not taken for an error.
ReceiveEndOnErrorOnly ==
  /\ pc = "waiting"
  /\ stream = <<>>
  /\ peer = "reset"
  /\ pc' = "idle"
  /\ Ended("error")
  /\ UNCHANGED <<tid, pending, dtuIn, stream, peer, executed>>

\* recv() returns 0 or fails on a connection the DTU has closed.
ReceiveEnd ==
  /\ pc = "waiting"
  /\ stream = <<>>
  /\ peer # "up"
  /\ pc' = "idle"
  /\ Ended("error")
  /\ UNCHANGED <<tid, pending, dtuIn, stream, peer, executed>>

\* select() runs into response_timeout.  The guard is the bound MaxLate: the
\* DTU is never so slow that an answer is more than MaxLate calls late.
Timeout ==
  /\ pc = "waiting"
  /\ stream = <<>>
  /\ peer = "up"
  /\ \A i \in DOMAIN dtuIn : dtuIn[i].age < MaxLate
  /\ pc' = "idle"
  /\ Ended("error")
  /\ UNCHANGED <<tid, pending, dtuIn, stream, peer, executed>>
-----------------------------------------------------------------------------
\* The DTU carries out its oldest request and answers it, with data or with an
\* exception.  A frame on the serial line may be damaged.
DtuAnswers ==
  /\ dtuIn # <<>>
  /\ dtuIn' = Tail(dtuIn)
  /\ \E kind \in Kinds :
       /\ kind = "corrupt" => Backend = "rtu"
       /\ stream' = Append(stream, [tid |-> Head(dtuIn).tid, req |-> Head(dtuIn).req,
                                    age |-> Head(dtuIn).age, kind |-> kind])
       /\ executed' = IF Head(dtuIn).req.op = "write" /\ kind # "exception"
                      THEN executed \cup {Head(dtuIn).req}
                      ELSE executed
  /\ UNCHANGED <<pc, tid, pending, peer, result>>

\* A request or its answer is lost.
DtuIsSilent ==
  /\ Lossy
  /\ dtuIn # <<>>
  /\ dtuIn' = Tail(dtuIn)
  /\ \/ UNCHANGED executed
     \/ /\ Head(dtuIn).req.op = "write"
        /\ executed' = executed \cup {Head(dtuIn).req}
  /\ UNCHANGED <<pc, tid, pending, stream, peer, result>>

DtuCloses ==
  /\ Lossy
  /\ Backend = "tcp"
  /\ peer = "up"
  /\ peer' = "closed"
  /\ dtuIn' = <<>>
  /\ UNCHANGED <<pc, tid, pending, stream, result, executed>>

\* A request sent to a closed peer is answered by a reset.
DtuResets ==
  /\ pc = "waiting"
  /\ peer = "closed"
  /\ peer' = "reset"
  /\ stream' = <<>>
  /\ UNCHANGED <<pc, tid, pending, dtuIn, result, executed>>
-----------------------------------------------------------------------------
Calls == /\ \E req \in Requests : RefuseOversized(req) \/ SendRequest(req) \/ SendFails(req)
         /\ UNCHANGED setting
Returns == /\ \/ AcceptAnswer \/ RejectAnswer \/ ReceiveException \/ ReceiveCorrupt
              \/ Flush \/ ReceiveEnd \/ Timeout
           /\ UNCHANGED setting
DtuWorks == DtuAnswers /\ UNCHANGED setting
DtuFails == (DtuIsSilent \/ DtuCloses \/ DtuResets) /\ UNCHANGED setting

Next == Calls \/ Returns \/ DtuWorks \/ DtuFails

Spec == Init /\ [][Next]_vars

\* A call never gives up waiting but by its timeout, and the polling loop calls
\* again; the DTU works on.
Fairness == WF_vars(Calls) /\ WF_vars(Returns) /\ WF_vars(DtuWorks)
FairSpec == Spec /\ Fairness
-----------------------------------------------------------------------------
TypeOK ==
  /\ setting \in Settings
  /\ pc \in {"idle", "waiting", "flushing"}
  /\ tid \in 0 .. TidMod - 1
  /\ pending \in Requests
  /\ dtuIn \in Seq(Frames)
  /\ stream \in Seq(Answers)
  /\ peer \in {"up", "closed", "reset"}
  /\ result \in [outcome : {"none", "error"}]
           \cup [outcome : {"ok"}, asked : Requests, answer : Requests, age : Nat]
  /\ executed \subseteq Requests

\* Over TCP a call that succeeds returns the registers it asked for, however many
\* answers of earlier calls came late (modbus-tcp.c:201).
AnswersItsRequest ==
  (Backend = "tcp" /\ result.outcome = "ok") => result.answer = result.asked

\* Over TCP a call succeeds only when no answer to an earlier call is left: the
\* first late answer makes every later call fail, until an answer is lost.
InStepSuccess ==
  (Backend = "tcp" /\ pc = "idle" /\ result.outcome = "ok") =>
     dtuIn = <<>> /\ stream = <<>>

\* Answers to earlier calls that are still to be read.
Lag == Len(dtuIn) + Len(stream) - (IF pc = "waiting" THEN 1 ELSE 0)

\* Without recovery the client never catches up on a connection that stays up:
\* each call consumes one answer and causes another one, and only an answer that
\* is lost brings it back (modbus.c:565).
LagStep ==
  (~ProtocolRecovery /\ peer = "up" /\ peer' = "up" /\ ~DtuIsSilent) => Lag' >= Lag
LagNeverShrinks == [][LagStep]_vars

\* A write that is confirmed has been carried out, even if the confirmation is
\* that of an earlier, equal write.
ConfirmedWriteExecuted ==
  (result.outcome = "ok" /\ result.asked.op = "write") => result.asked \in executed

\* Every call returns.
CallReturns == (pc # "idle") ~> (pc = "idle")

\* The DTU is late: a call times out, or the sleep before a flush ends, while an
\* answer is still to come.
Late == (Timeout \/ Flush) /\ dtuIn # <<>>

\* With MODBUS_ERROR_RECOVERY_PROTOCOL the client is in step again and again once
\* the DTU has stopped being late (modbus.c:565-569).
BackInStep ==
  (<>[][~Late]_vars) => []((ProtocolRecovery /\ ~Lossy) => <>(Lag = 0))
=============================================================================
