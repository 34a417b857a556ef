---------------------------- MODULE ModbusServer ----------------------------
(***************************************************************************)
(* modbus_reply and modbus_reply_exception: what libmodbus's server answers   *)
(* to a request and does to its mapping (src/src/libmodbus/src/modbus.c).     *)
(*                                                                           *)
(* A mapping has four blocks, each a function from the addresses it covers to *)
(* their values.                                                              *)
(***************************************************************************)
EXTENDS ModbusFrames

BlockNames == {"bits", "inputBits", "registers", "inputRegisters"}

\* modbus_mapping_new_start_address: every block begins at its own address, with zeros.
NewMapping(start, nb) ==
  [name \in BlockNames |-> [addr \in start[name] .. start[name] + nb[name] - 1 |-> 0]]

BlockOf(fn) ==
  CASE fn \in {ReadCoils, WriteSingleCoil, WriteMultipleCoils} -> "bits"
    [] fn = ReadDiscreteInputs -> "inputBits"
    [] fn = ReadInputRegisters -> "inputRegisters"
    [] OTHER -> "registers"

Covers(block, addr, nb) == addr .. addr + nb - 1 \subseteq DOMAIN block
Slice(block, addr, nb) == [i \in 1 .. nb |-> block[addr + i - 1]]
Overwritten(block, addr, values) ==
  [a \in DOMAIN block |->
     IF a \in addr .. addr + Len(values) - 1 THEN values[a - addr + 1] ELSE block[a]]
WordsAt(msg, i, nb) == [k \in 1 .. nb |-> WordAt(msg, i + 2 * (k - 1))]
-----------------------------------------------------------------------------
\* The places of the arguments in a request; `h' is the length of the header.
Function(req, h) == req[h + 1]
Address(req, h) == WordAt(req, h + 2)
Number(req, h) == WordAt(req, h + 4)
WriteAddress(req, h) == WordAt(req, h + 6)
WriteNumber(req, h) == WordAt(req, h + 8)

\* The number of values, and of bytes that carry them.
LegalNumber(req, h) ==
  LET fn == Function(req, h)
  IN CASE fn \in BitReads \cup RegisterReads -> Number(req, h) \in 1 .. MaxRead(fn)
       [] fn = WriteMultipleCoils ->
            Number(req, h) \in 1 .. MaxWrite(fn) /\ 8 * req[h + 6] >= Number(req, h)
       [] fn = WriteMultipleRegisters ->
            Number(req, h) \in 1 .. MaxWrite(fn) /\ req[h + 6] = 2 * Number(req, h)
       [] fn = WriteAndReadRegisters ->
            /\ Number(req, h) \in 1 .. MaxRead(fn)
            /\ WriteNumber(req, h) \in 1 .. MaxWrite(fn)
            /\ req[h + 10] = 2 * WriteNumber(req, h)
       [] OTHER -> TRUE

LegalAddress(req, h, block) ==
  LET fn == Function(req, h)
  IN CASE fn \in BitReads \cup RegisterReads \cup Multiples ->
            Covers(block, Address(req, h), Number(req, h))
       [] fn \in Singles \cup {MaskWriteRegister} -> Address(req, h) \in DOMAIN block
       [] fn = WriteAndReadRegisters ->
            /\ Covers(block, Address(req, h), Number(req, h))
            /\ Covers(block, WriteAddress(req, h), WriteNumber(req, h))
       [] OTHER -> TRUE

\* The value of a single coil, looked at after its address.
LegalValue(req, h) == Function(req, h) = WriteSingleCoil => Number(req, h) \in {0, 65280}

\* Mutant: a coil takes the value as it was sent.
WrittenAsSent(req, h, block) ==
  IF Function(req, h) \in Singles THEN [block EXCEPT ![Address(req, h)] = Number(req, h)]
  ELSE block

\* The block after the request.
Written(req, h, block) ==
  LET fn == Function(req, h)
      addr == Address(req, h)
  IN CASE fn = WriteSingleCoil -> [block EXCEPT ![addr] = IF Number(req, h) = 0 THEN 0 ELSE 1]
       [] fn = WriteSingleRegister -> [block EXCEPT ![addr] = Number(req, h)]
       [] fn = WriteMultipleCoils ->
            Overwritten(block, addr, Unpacked(SubSeq(req, h + 7, Len(req)), Number(req, h)))
       [] fn = WriteMultipleRegisters ->
            Overwritten(block, addr, WordsAt(req, h + 7, Number(req, h)))
       [] fn = MaskWriteRegister ->
            [block EXCEPT ![addr] = Masked(@, WordAt(req, h + 4), WordAt(req, h + 6))]
       [] fn = WriteAndReadRegisters ->
            Overwritten(block, WriteAddress(req, h), WordsAt(req, h + 11, WriteNumber(req, h)))
       [] OTHER -> block

\* "LMB" and the version of the library.
SlaveName == <<76, 77, 66, 51, 46, 49, 46, 49, 48>>

\* The answer, from the block after the request; `end' is the last byte before the
\* checksum.
ResponsePdu(req, h, end, block) ==
  LET fn == Function(req, h)
      nb == Number(req, h)
  IN CASE fn \in BitReads -> <<fn, BytesFor(nb)>> \o Packed(Slice(block, Address(req, h), nb))
       [] fn \in RegisterReads \cup {WriteAndReadRegisters} ->
            <<fn, 2 * nb>> \o Words(Slice(block, Address(req, h), nb))
       [] fn \in Singles \cup {MaskWriteRegister} -> SubSeq(req, h + 1, end)
       [] fn \in Multiples -> SubSeq(req, h + 1, h + 5)
       [] fn = ReportSlaveId -> <<fn, 2 + Len(SlaveName), 180, 255>> \o SlaveName

\* modbus_reply up to the sending: the answer, the mapping after it, and whether
\* what else has come is flushed.  Nothing is answered to ReadExceptionStatus.
Reply(req, backend, mapping) ==
  LET h == HeaderLength[backend]
      fn == Function(req, h)
      name == BlockOf(fn)
      Exception(code, flush) ==
        [pdu |-> <<(fn + 128) % 256, code>>, mapping |-> mapping, flush |-> flush]
      new == [mapping EXCEPT ![name] = Written(req, h, @)]
  IN IF fn = ReadExceptionStatus THEN [pdu |-> <<>>, mapping |-> mapping, flush |-> FALSE]
     ELSE IF fn \notin Functions THEN Exception(1, TRUE)
     ELSE IF ~LegalNumber(req, h) THEN Exception(3, TRUE)
     ELSE IF ~LegalAddress(req, h, mapping[name]) THEN Exception(2, FALSE)
     ELSE IF ~LegalValue(req, h) THEN Exception(3, FALSE)
     ELSE [pdu |-> ResponsePdu(req, h, Len(req) - ChecksumLength[backend], new[name]),
           mapping |-> new, flush |-> FALSE]

\* modbus_reply_exception, with a code of the caller's.
ReplyException(req, backend, code) ==
  <<(req[HeaderLength[backend] + 1] + 128) % 256, code>>
=============================================================================
