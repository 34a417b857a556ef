---------------------------- MODULE RemoteMemory ----------------------------
(***************************************************************************)
(* What the calls of a Modbus client promise about the memory of the server: *)
(* the specification that ModbusLink implements.                              *)
(*                                                                           *)
(* A request that was sent may be carried out at any time after that, once,    *)
(* more than once or never.  A call that succeeds tells the truth, as long as  *)
(* nothing has happened that the frames cannot show (`trusted').  A call on a   *)
(* line on which nothing at all has happened (`clean') fails only if the         *)
(* request is not for this memory.                                              *)
(***************************************************************************)
EXTENDS ModbusServer

CONSTANTS Requests,        \* what may be asked: [fn, unit, addr, nb, values, writeAddr]
          Unit,            \* the address of this memory among others
          InitialMapping

VARIABLES mapping,  \* the memory, a mapping of ModbusServer
          calling,  \* a call is in progress
          request,  \* the last request
          asked,    \* the requests sent so far
          result,   \* of the last call: [outcome, values]
          trusted, clean

vars == <<mapping, calling, request, asked, result, trusted, clean>>

Pending == [outcome |-> "none", values |-> <<>>]

\* The request asks for what the memory has.
InRange(q, block) ==
  CASE q.fn \in BitReads \cup RegisterReads ->
         q.nb \in 1 .. MaxRead(q.fn) /\ Covers(block, q.addr, q.nb)
    [] q.fn \in Multiples -> q.values # <<>> /\ Covers(block, q.addr, Len(q.values))
    [] q.fn \in Singles \cup {MaskWriteRegister} -> q.addr \in DOMAIN block
    [] q.fn = WriteAndReadRegisters ->
         /\ q.nb > 0 /\ q.values # <<>>
         /\ Covers(block, q.addr, q.nb) /\ Covers(block, q.writeAddr, Len(q.values))
    [] OTHER -> q.fn = ReportSlaveId

\* A register after a masked write: the sum of its bits.
MaskedBySum(old, mask, other) ==
  LET Bit(w, place) == (w \div place) % 2
      New(place) == place * (IF Bit(mask, place) = 1 THEN Bit(old, place) ELSE Bit(other, place))
  IN New(1) + New(2) + New(4) + New(8) + New(16) + New(32) + New(64) + New(128)
     + New(256) + New(512) + New(1024) + New(2048) + New(4096) + New(8192)
     + New(16384) + New(32768)

\* The memory once the request is carried out, which changes nothing the second time.
Effect(q, m) ==
  LET name == BlockOf(q.fn)
  IN IF q.raw \/ ~InRange(q, m[name]) THEN m
     ELSE CASE q.fn = WriteSingleCoil ->
                 [m EXCEPT ![name][q.addr] = IF q.values[1] = 0 THEN 0 ELSE 1]
            [] q.fn = WriteSingleRegister -> [m EXCEPT ![name][q.addr] = q.values[1]]
            [] q.fn \in Multiples -> [m EXCEPT ![name] = Overwritten(@, q.addr, q.values)]
            [] q.fn = MaskWriteRegister -> [m EXCEPT ![name][q.addr] = MaskedBySum(@, q.values[1], q.values[2])]
            [] q.fn = WriteAndReadRegisters ->
                 [m EXCEPT ![name] = Overwritten(@, q.writeAddr, q.values)]
            [] OTHER -> m

ValuesRead(q, m) ==
  IF q.fn \in BitReads \cup RegisterReads \cup {WriteAndReadRegisters}
  THEN Slice(m[BlockOf(q.fn)], q.addr, q.nb) ELSE <<>>

Init == /\ mapping = InitialMapping
        /\ calling = FALSE
        /\ request \in Requests
        /\ asked = {}
        /\ result = Pending
        /\ trusted = TRUE /\ clean = TRUE

\* What has gone wrong is not undone.
Worsens == (trusted' => trusted) /\ (clean' => clean)

Error == [outcome |-> "error", values |-> <<>>]

\* A request that fails while it is sent may have arrived.
Ask(q) == /\ ~calling
          /\ request' = q
          /\ asked' = asked \cup {q}
          /\ \/ calling' = TRUE /\ UNCHANGED result
             \/ ~clean' /\ result' = Error /\ UNCHANGED calling
          /\ UNCHANGED mapping

Refuse(q) == /\ ~calling
             /\ Refused(q)
             /\ request' = q
             /\ result' = Error
             /\ UNCHANGED <<mapping, calling, asked>>

CarryOut(q) == /\ q \in asked
               /\ mapping' = Effect(q, mapping)
               /\ UNCHANGED <<calling, request, asked, result>>

\* The request is for this memory, and made by a function that knows it.
Judged == request.unit = Unit /\ ~request.raw

Succeed == /\ calling /\ calling' = FALSE
           /\ result'.outcome \in {"ok", "raw"}
           /\ trusted' /\ Judged =>
                /\ InRange(request, mapping[BlockOf(request.fn)])
                /\ Effect(request, mapping) = mapping
                /\ result'.values = ValuesRead(request, mapping)
           /\ UNCHANGED <<mapping, request, asked>>

Fail == /\ calling /\ calling' = FALSE
        /\ result' = Error
        /\ clean' /\ Judged => ~InRange(request, mapping[BlockOf(request.fn)])
        /\ UNCHANGED <<mapping, request, asked>>

Nothing == UNCHANGED <<mapping, calling, request, asked, result>>

Next == /\ Worsens
        /\ \/ \E q \in Requests : Ask(q) \/ Refuse(q) \/ CarryOut(q)
           \/ Succeed \/ Fail \/ Nothing

Spec == Init /\ [][Next]_vars
=============================================================================
