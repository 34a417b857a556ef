----------------------------- MODULE ModbusLink -----------------------------
(***************************************************************************)
(* A client and a server of libmodbus at the two ends of a connection or of a  *)
(* serial line, byte by byte: every client function of modbus.c, the receiver   *)
(* that puts messages together from what has come, and modbus_reply.            *)
(*                                                                           *)
(* Bytes that were sent and not read are in `toServer' and `toClient'.  A        *)
(* receiver that runs into a timeout has read the first of them, and the others  *)
(* were late.  On a serial line there is another slave, whose messages the       *)
(* server hears too, and bytes may be damaged or lost.  The program that uses    *)
(* the server receives and replies in a loop, and closes a TCP connection on     *)
(* which receiving has failed.                                                  *)
(***************************************************************************)
EXTENDS ModbusServer

CONSTANTS Requests,        \* what the client asks: [fn, unit, addr, nb, values, writeAddr]
          Unit, OtherUnit, \* the server's address, and that of the other slave
          InitialMapping, OtherMapping,
          MaxCalls,        \* bound: calls in a behaviour
          MaxFaults        \* bound: things that go wrong in a behaviour

ASSUME UnitsAssumption == Unit \in 1 .. 247 /\ OtherUnit \in 1 .. 247 \ {Unit}
ASSUME RequestsAssumption == \A q \in Requests : IsRequest(q)
ASSUME BoundsAssumption == MaxCalls \in Nat /\ MaxFaults \in Nat

\* What the blocks hold: bits or registers, at addresses of 16 bits.
IsMapping(map) ==
  /\ map = [name \in BlockNames |-> map[name]]
  /\ \A name \in BlockNames :
       /\ DOMAIN map[name] \subseteq Uint16
       /\ map[name] \in [DOMAIN map[name] ->
                           IF name \in {"bits", "inputBits"} THEN {0, 1} ELSE Uint16]
ASSUME MappingsAssumption == IsMapping(InitialMapping) /\ IsMapping(OtherMapping)

VARIABLES
  backend, recovery,  \* of the client: "tcp" or "rtu"; both modes of recovery, or none
  pc,                 \* "idle", "waiting", or "flushing" after an error
  tid, calls, request,
  conn,               \* the connection is "up", or "closed" by the server
  toServer, toClient,
  mapping,
  ignoring,           \* confirmation_to_ignore
  otherAsked,         \* frames that the other slave has to answer
  result, asked,      \* as in RemoteMemory
  faults              \* what has gone wrong

vars == <<backend, recovery, pc, tid, calls, request, conn, toServer, toClient, mapping,
          ignoring, otherAsked, result, asked, faults>>

context == <<backend, recovery>>
call == <<tid, calls, request, asked>>
server == <<mapping, ignoring>>

Drop(buf, n) == SubSeq(buf, n + 1, Len(buf))
Pending == [outcome |-> "none", values |-> <<>>]
Return(outcome, values) == result' = [outcome |-> outcome, values |-> values]

\* One thing more goes wrong.
Fault(kind) == Len(faults) < MaxFaults /\ faults' = Append(faults, kind)
Happened(kinds) == ToSet(faults) \cap kinds # {}

\* A raw request takes no identifier of its own.
NextTid(q) == IF backend = "tcp" /\ ~q.raw THEN (tid + 1) % 65536 ELSE tid
Frame(q, id) == Adu(backend, IF q.raw THEN 0 ELSE id, q.unit, RequestPdu(q))

\* All of the next message has come; it is too long to be one.
Whole(type, buf) == ~TooLong(type, backend, buf) /\ Len(buf) >= Wanted(type, backend, buf)
NextMessage(type, buf) == SubSeq(buf, 1, Wanted(type, backend, buf))

\* check_integrity, for the context of `unit': the length, 0 if the message is for
\* another slave, -1 if it is damaged.
Integrity(msg, unit) ==
  CASE backend = "tcp" -> Len(msg)
    [] backend = "rtu" /\ msg[1] \notin {unit, BroadcastAddress} -> 0
    [] OTHER -> IF WithCrc(SubSeq(msg, 1, Len(msg) - 2)) = msg THEN Len(msg) ELSE -1
-----------------------------------------------------------------------------
Init ==
  /\ backend \in Backends
  /\ recovery \in BOOLEAN
  /\ pc = "idle"
  /\ tid = 0 /\ calls = 0
  /\ request \in Requests
  /\ conn = "up"
  /\ toServer = <<>> /\ toClient = <<>>
  /\ mapping = InitialMapping
  /\ ignoring = FALSE
  /\ otherAsked = <<>>
  /\ result = Pending
  /\ asked = {}
  /\ faults = <<>>

Begin(q) == /\ pc = "idle" /\ calls < MaxCalls
            /\ calls' = calls + 1
            /\ request' = q

Refuse(q) ==
  /\ Begin(q)
  /\ Refused(q)
  /\ Return("error", <<>>)
  /\ UNCHANGED <<context, pc, tid, conn, toServer, toClient, server, otherAsked, asked, faults>>

\* The request is built and sent; a connection just closed still takes it.
Ask(q) ==
  /\ Begin(q)
  /\ ~Refused(q)
  /\ pc' = "waiting"
  /\ tid' = NextTid(q)
  /\ asked' = asked \cup {q}
  /\ LET adu == Frame(q, tid')
     IN /\ toServer' = IF conn = "up" THEN toServer \o adu ELSE toServer
        /\ otherAsked' = IF /\ backend = "rtu" /\ q.unit \in {OtherUnit, BroadcastAddress}
                           /\ Whole("indication", adu)
                         THEN Append(otherAsked, NextMessage("indication", adu)) ELSE otherAsked
  /\ UNCHANGED <<context, conn, toClient, server, result, faults>>

\* send() fails on a closed connection.  Link recovery connects anew and sends again
\* until it succeeds.
AskFails(q) ==
  /\ Begin(q)
  /\ ~Refused(q)
  /\ conn = "closed"
  /\ tid' = NextTid(q)
  /\ asked' = asked \cup {q}
  /\ IF recovery
     THEN /\ pc' = "waiting" /\ conn' = "up"
          /\ toServer' = Frame(q, tid') /\ toClient' = <<>>
          /\ UNCHANGED result
     ELSE /\ Return("error", <<>>)
          /\ UNCHANGED <<pc, conn, toServer, toClient>>
  /\ UNCHANGED <<context, server, otherAsked, faults>>
-----------------------------------------------------------------------------
\* How a call ends that has read n bytes: an error may lead to a flush.
Fails(n, flushes) ==
  /\ pc' = IF flushes /\ recovery THEN "flushing" ELSE "idle"
  /\ toClient' = Drop(toClient, n)
  /\ Return("error", <<>>)

ClientReceives ==
  /\ pc = "waiting" /\ Whole("confirmation", toClient)
  /\ LET rsp == NextMessage("confirmation", toClient)
         length == Integrity(rsp, request.unit)
         verdict == IF request.raw THEN "raw"
                    ELSE Confirmation(Frame(request, tid), rsp, length, backend)
     IN CASE length = -1 ->
               /\ pc' = "idle"
               /\ toClient' = IF recovery THEN <<>> ELSE Drop(toClient, Len(rsp))
               /\ Return("error", <<>>)
          [] length >= 0 /\ verdict \in {"ok", "raw"} ->
               /\ pc' = "idle"
               /\ toClient' = Drop(toClient, Len(rsp))
               /\ Return(verdict, IF request.raw THEN <<>> ELSE ValuesOf(request, rsp, backend))
          [] OTHER -> Fails(Len(rsp), verdict = "bad")
  /\ UNCHANGED <<context, call, conn, toServer, server, otherAsked, faults>>

\* The number of bytes is more than a frame can have: what was read is lost.
ClientReceivesTooLong ==
  /\ pc = "waiting" /\ TooLong("confirmation", backend, toClient)
  /\ LET h == HeaderLength[backend]
     IN Fails(h + 1 + MetaLength("confirmation", toClient[h + 1]), FALSE)
  /\ UNCHANGED <<context, call, conn, toServer, server, otherAsked, faults>>

ServerMayAct == \/ toServer # <<>> /\ Whole(IF ignoring THEN "confirmation" ELSE "indication", toServer)
                \/ otherAsked # <<>>

\* select() runs into the timeout with n bytes read, which are no whole message.
\* Either nothing more is to come, or the answer is late.
ClientTimesOut(n) ==
  /\ pc = "waiting" /\ conn = "up"
  /\ ~Whole("confirmation", SubSeq(toClient, 1, n))
  /\ ~TooLong("confirmation", backend, SubSeq(toClient, 1, n))
  /\ IF n = Len(toClient) /\ ~ServerMayAct THEN UNCHANGED faults ELSE Fault("late")
  /\ Fails(n, TRUE)
  /\ UNCHANGED <<context, call, conn, toServer, server, otherAsked>>

\* recv() returns 0.  Link recovery connects anew.
ClientFindsEnd ==
  /\ pc = "waiting" /\ conn = "closed"
  /\ ~Whole("confirmation", toClient) /\ ~TooLong("confirmation", backend, toClient)
  /\ pc' = "idle"
  /\ toClient' = <<>>
  /\ Return("error", <<>>)
  /\ IF recovery THEN conn' = "up" /\ toServer' = <<>> ELSE UNCHANGED <<conn, toServer>>
  /\ UNCHANGED <<context, call, server, otherAsked, faults>>

\* modbus_flush, after the sleep of response_timeout.
Flush ==
  /\ pc = "flushing"
  /\ pc' = "idle"
  /\ toClient' = <<>>
  /\ UNCHANGED <<context, call, conn, toServer, server, otherAsked, result, faults>>
-----------------------------------------------------------------------------
\* modbus_receive with a confirmation to ignore: the next message, whatever it is.
ServerIgnores ==
  /\ ignoring /\ Whole("confirmation", toServer)
  /\ ignoring' = FALSE
  /\ toServer' = Drop(toServer, Len(NextMessage("confirmation", toServer)))
  /\ UNCHANGED <<context, pc, call, conn, toClient, mapping, otherAsked, result, faults>>

\* A request for another slave is passed over, and its confirmation is to be ignored.
\* A damaged one is dropped.
ServerPassesOver ==
  /\ ~ignoring /\ Whole("indication", toServer)
  /\ LET req == NextMessage("indication", toServer)
     IN /\ Integrity(req, Unit) <= 0
        /\ ignoring' = (Integrity(req, Unit) = 0)
        /\ toServer' = Drop(toServer, Len(req))
  /\ UNCHANGED <<context, pc, call, conn, toClient, mapping, otherAsked, result, faults>>

\* modbus_receive and modbus_reply.  Broadcasts on a serial line are not answered.
ServerReplies ==
  /\ ~ignoring /\ Whole("indication", toServer)
  /\ LET req == NextMessage("indication", toServer)
         unit == req[HeaderLength[backend]]
         reply == Reply(req, backend, mapping)
     IN /\ Integrity(req, Unit) > 0
        /\ mapping' = reply.mapping
        /\ toServer' = IF reply.flush THEN <<>> ELSE Drop(toServer, Len(req))
        /\ toClient' =
             IF reply.pdu = <<>> \/ (backend = "rtu" /\ unit = BroadcastAddress)
             THEN toClient
             ELSE toClient \o Adu(backend, WordAt(req, 1), unit, reply.pdu)
  /\ UNCHANGED <<context, pc, call, conn, ignoring, otherAsked, result, faults>>

\* The program refuses with an exception of its own, "busy" for one.
ServerIsBusy ==
  /\ ~ignoring /\ Whole("indication", toServer)
  /\ Fault("busy")
  /\ LET req == NextMessage("indication", toServer)
     IN /\ Integrity(req, Unit) > 0
        /\ toServer' = Drop(toServer, Len(req))
        /\ toClient' = toClient \o Adu(backend, WordAt(req, 1), req[HeaderLength[backend]],
                                       ReplyException(req, backend, 6))
  /\ UNCHANGED <<context, pc, call, conn, server, otherAsked, result>>

\* Mutant: the timeout of a response is not set.
TimedOnceBegun(n) == n > 0

\* Whether receiving may time out with n bytes read: before the first byte there is the
\* timeout of a response, but none of a request.
TimesOut(n) == n > 0 \/ ignoring

\* Receiving fails with n bytes read, by a timeout or because the message is too long.
\* Either nothing more is to come, or it is late.  A TCP connection is closed.
ServerGivesUp(n) ==
  /\ TimesOut(n)
  /\ LET type == IF ignoring THEN "confirmation" ELSE "indication"
         read == SubSeq(toServer, 1, n)
     IN /\ ~Whole(type, read)
        /\ TooLong(type, backend, read) =>
             n = HeaderLength[backend] + 1 + MetaLength(type, read[HeaderLength[backend] + 1])
        /\ IF \/ TooLong(type, backend, read)
              \/ n = Len(toServer) /\ (ignoring => otherAsked = <<>>)
           THEN UNCHANGED faults ELSE Fault("late")
  /\ ignoring' = FALSE
  /\ IF backend = "tcp"
     THEN conn' = "closed" /\ toServer' = <<>>
     ELSE toServer' = Drop(toServer, n) /\ UNCHANGED conn
  /\ UNCHANGED <<context, pc, call, toClient, mapping, otherAsked, result>>

ServerCloses ==
  /\ backend = "tcp" /\ conn = "up"
  /\ Fault("close")
  /\ conn' = "closed" /\ toServer' = <<>>
  /\ UNCHANGED <<context, pc, call, toClient, server, otherAsked, result>>
-----------------------------------------------------------------------------
\* The other slave answers what it is asked, for both to hear, or does not.
OtherAnswers ==
  /\ otherAsked # <<>>
  /\ otherAsked' = Tail(otherAsked)
  /\ LET req == Head(otherAsked)
         pdu == Reply(req, backend, OtherMapping).pdu
         adu == Adu(backend, 0, OtherUnit, pdu)
         answers == req[1] = OtherUnit /\ pdu # <<>>
     IN \/ /\ answers
           /\ toServer' = toServer \o adu /\ toClient' = toClient \o adu
           /\ UNCHANGED faults
        \/ /\ answers
           /\ Fault("silent")
           /\ UNCHANGED <<toServer, toClient>>
        \/ /\ ~answers
           /\ UNCHANGED <<toServer, toClient, faults>>
  /\ UNCHANGED <<context, pc, call, conn, server, result>>

\* A byte on the serial line is damaged or lost.
Damaged(buf) ==
  {[buf EXCEPT ![i] = (@ + 1) % 256] : i \in DOMAIN buf} \cup {RemoveAt(buf, i) : i \in DOMAIN buf}

LineFails ==
  /\ backend = "rtu"
  /\ Fault("damage")
  /\ \/ toServer' \in Damaged(toServer) /\ UNCHANGED toClient
     \/ toClient' \in Damaged(toClient) /\ UNCHANGED toServer
  /\ UNCHANGED <<context, pc, call, conn, server, otherAsked, result>>

Calls == \E q \in Requests : Refuse(q) \/ Ask(q) \/ AskFails(q)
Returns == \/ ClientReceives \/ ClientReceivesTooLong \/ ClientFindsEnd \/ Flush
           \/ \E n \in 0 .. Len(toClient) : ClientTimesOut(n)
Server == \/ ServerIgnores \/ ServerPassesOver \/ ServerReplies \/ OtherAnswers
          \/ \E n \in 0 .. Len(toServer) : ServerGivesUp(n)
Trouble == ServerIsBusy \/ ServerCloses \/ LineFails

Next == Calls \/ Returns \/ Server \/ Trouble

Spec == Init /\ [][Next]_vars

\* A server that waits for a confirmation to ignore reads it, or runs into its timeout.
IgnoringEnds == \/ ServerIgnores
                \/ \E n \in 0 .. Len(toServer) : ignoring /\ ServerGivesUp(n)

FairSpec == Spec /\ WF_vars(IgnoringEnds)
-----------------------------------------------------------------------------
TypeOK ==
  /\ backend \in Backends /\ recovery \in BOOLEAN
  /\ pc \in {"idle", "waiting", "flushing"}
  /\ tid \in Uint16 /\ calls \in 0 .. MaxCalls
  /\ request \in Requests /\ asked \subseteq Requests
  /\ conn \in {"up", "closed"}
  /\ toServer \in Seq(Byte) /\ toClient \in Seq(Byte)
  /\ IsMapping(mapping)
  /\ \A name \in BlockNames : DOMAIN mapping[name] = DOMAIN InitialMapping[name]
  /\ ignoring \in BOOLEAN
  /\ otherAsked \in Seq(Seq(Byte))
  /\ result.outcome \in {"none", "ok", "raw", "error"}

\* A raw request has the arguments of its function code, if that has a known length.
Complete(q) ==
  q.raw => /\ q.fn < 128
           /\ q.fn <= WriteSingleRegister => Len(q.values) = 4
           /\ q.fn \in Multiples => Len(q.values) >= 5 /\ Len(q.values) = 5 + q.values[5]
           /\ q.fn \in {ReadExceptionStatus, ReportSlaveId} => q.values = <<>>
           /\ q.fn = MaskWriteRegister => Len(q.values) = 6
           /\ q.fn = WriteAndReadRegisters =>
                Len(q.values) >= 9 /\ Len(q.values) = 9 + q.values[9]

\* On a serial line a function code of no known length leaves bytes behind: the
\* checksum is taken too early, and the flush of modbus.c:1124 is not reached.  And after
\* a request that nobody answers the server ignores a message that comes before its
\* response timeout.
Measured ==
  \A q \in asked :
    /\ Complete(q)
    /\ backend = "rtu" =>
         /\ q.fn \in Functions \cup {ReadExceptionStatus}
         /\ q.unit \in {Unit, OtherUnit, BroadcastAddress}
         /\ q.unit = OtherUnit => q.fn # ReadExceptionStatus

\* As long as nothing goes wrong, what the receivers take are whole messages: once
\* everybody has read what there is to read, nothing is left (modbus.c:267-341).
NothingLeft ==
  (pc = "idle" /\ faults = <<>> /\ ~ServerMayAct /\ Measured)
  => toServer = <<>> /\ toClient = <<>>

\* A slave that is silent, or whose answer is damaged, never makes the server deaf for
\* good: unless a slave has still to answer, the server waits for a confirmation to ignore
\* no longer than for its timeout ("Ignore errors and reset the flag", modbus-rtu.c:298).
ListensAgain == ignoring ~> ~ignoring \/ otherAsked # <<>>

\* The calls keep the promises of RemoteMemory.
Trusted == backend = "tcp" \/ ~Happened({"late", "silent"})
Clean == faults = <<>> /\ Measured
Memory == INSTANCE RemoteMemory
          WITH calling <- pc = "waiting", trusted <- Trusted, clean <- Clean
MemorySpec == Memory!Spec
=============================================================================
