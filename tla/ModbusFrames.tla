---------------------------- MODULE ModbusFrames ----------------------------
(***************************************************************************)
(* Modbus frames byte by byte, as libmodbus builds and measures them: the    *)
(* requests of its client functions, the lengths that the receiver works out  *)
(* from the bytes it has read, and the comparison of an answer with its       *)
(* request (src/src/libmodbus/src/modbus.c, modbus-tcp.c, modbus-rtu.c).      *)
(*                                                                           *)
(* A frame is a sequence of bytes, indexed from 1.  A request is a record of   *)
(* its function code and arguments; `values' are registers, or bits as 0 and 1, *)
(* or, for a raw request, the bytes after the function code.                    *)
(***************************************************************************)
EXTENDS Integers, Sequences, SequencesExt

Byte == 0 .. 255
Uint16 == 0 .. 65535

Backends == {"tcp", "rtu"}
HeaderLength == [tcp |-> 7, rtu |-> 1]
ChecksumLength == [tcp |-> 0, rtu |-> 2]
MaxAdu == [tcp |-> 260, rtu |-> 256]

\* Function codes.
ReadCoils == 1
ReadDiscreteInputs == 2
ReadHoldingRegisters == 3
ReadInputRegisters == 4
WriteSingleCoil == 5
WriteSingleRegister == 6
ReadExceptionStatus == 7
WriteMultipleCoils == 15
WriteMultipleRegisters == 16
ReportSlaveId == 17
MaskWriteRegister == 22
WriteAndReadRegisters == 23

BitReads == {ReadCoils, ReadDiscreteInputs}
RegisterReads == {ReadHoldingRegisters, ReadInputRegisters}
Singles == {WriteSingleCoil, WriteSingleRegister}
Multiples == {WriteMultipleCoils, WriteMultipleRegisters}

\* What a request may ask for: MODBUS_MAX_...
MaxRead(fn) == IF fn \in BitReads THEN 2000 ELSE 125
MaxWrite(fn) == CASE fn = WriteMultipleCoils -> 1968
                  [] fn = WriteMultipleRegisters -> 123
                  [] OTHER -> 121

BroadcastAddress == 0

\* What the client functions are called with; a raw request may be anything.
Functions == BitReads \cup RegisterReads \cup Singles \cup Multiples
             \cup {ReportSlaveId, MaskWriteRegister, WriteAndReadRegisters}
IsRequest(q) ==
  /\ q \in [raw : BOOLEAN, fn : Byte, unit : Byte, addr : Uint16, nb : Nat,
            values : Seq(Uint16), writeAddr : Uint16]
  /\ q.raw => q.values \in Seq(Byte)
  /\ ~q.raw => /\ q.fn \in Functions
               /\ q.fn \in Singles => Len(q.values) = 1
               /\ q.fn = MaskWriteRegister => Len(q.values) = 2
               /\ q.fn = WriteMultipleCoils => q.values \in Seq({0, 1})
-----------------------------------------------------------------------------
\* 16 bits as two bytes, high byte first, and back.
Word(w) == <<w \div 256, w % 256>>
WordAt(msg, i) == msg[i] * 256 + msg[i + 1]

Words(values) ==
  [k \in 1 .. 2 * Len(values) |-> Word(values[(k + 1) \div 2])[IF k % 2 = 1 THEN 1 ELSE 2]]

\* Bytes for a number of bits, the bits packed lowest first, and unpacked.
BytesFor(nb) == nb \div 8 + (IF nb % 8 = 0 THEN 0 ELSE 1)

Octet(b) == b[1] + 2 * b[2] + 4 * b[3] + 8 * b[4]
            + 16 * b[5] + 32 * b[6] + 64 * b[7] + 128 * b[8]
EightFrom(bits, k) == [i \in 1 .. 8 |-> IF k + i <= Len(bits) THEN bits[k + i] ELSE 0]

\* Mutant: the first bit of a byte is packed highest.
PackedHighestFirst(bits) ==
  [k \in 1 .. BytesFor(Len(bits)) |->
     LET b == EightFrom(bits, 8 * (k - 1)) IN Octet([i \in 1 .. 8 |-> b[9 - i]])]

Packed(bits) == [k \in 1 .. BytesFor(Len(bits)) |-> Octet(EightFrom(bits, 8 * (k - 1)))]

Weight == <<1, 2, 4, 8, 16, 32, 64, 128>>
Unpacked(bytes, nb) ==
  [i \in 1 .. nb |-> (bytes[(i + 7) \div 8] \div Weight[((i - 1) % 8) + 1]) % 2]

\* The old bits of a word where a mask has them, and those of another word elsewhere.
Masked(old, mask, other) ==
  LET Bits(w) == Unpacked(<<w % 256, w \div 256>>, 16)
      bytes == Packed([i \in 1 .. 16 |-> IF Bits(mask)[i] = 1 THEN Bits(old)[i]
                                         ELSE Bits(other)[i]])
  IN 256 * bytes[2] + bytes[1]
-----------------------------------------------------------------------------
\* What is refused before it is sent: nothing but too large a number.
Refused(q) ==
  \/ q.raw /\ Len(q.values) > 252
  \/ /\ ~q.raw /\ q.fn \in BitReads \cup RegisterReads \cup {WriteAndReadRegisters}
     /\ q.nb > MaxRead(q.fn)
  \/ /\ ~q.raw /\ q.fn \in Multiples \cup {WriteAndReadRegisters}
     /\ Len(q.values) > MaxWrite(q.fn)

\* What the client functions put behind the function code.
ReadArguments(q) == Word(q.addr) \o Word(q.nb)

SingleArguments(q) ==
  Word(q.addr) \o Word(IF q.fn = WriteSingleRegister THEN q.values[1]
                       ELSE IF q.values[1] # 0 THEN 65280 ELSE 0)

MultipleArguments(q) ==
  Word(q.addr) \o Word(Len(q.values))
  \o (IF q.fn = WriteMultipleCoils
      THEN <<BytesFor(Len(q.values))>> \o Packed(q.values)
      ELSE <<2 * Len(q.values)>> \o Words(q.values))

MaskArguments(q) == Word(q.addr) \o Word(q.values[1]) \o Word(q.values[2])

WriteAndReadArguments(q) ==
  Word(q.addr) \o Word(q.nb) \o Word(q.writeAddr) \o Word(Len(q.values))
  \o <<2 * Len(q.values)>> \o Words(q.values)

Arguments(q) ==
  CASE q.raw -> q.values
    [] ~q.raw /\ q.fn \in BitReads \cup RegisterReads -> ReadArguments(q)
    [] ~q.raw /\ q.fn \in Singles -> SingleArguments(q)
    [] ~q.raw /\ q.fn \in Multiples -> MultipleArguments(q)
    [] ~q.raw /\ q.fn = MaskWriteRegister -> MaskArguments(q)
    [] ~q.raw /\ q.fn = WriteAndReadRegisters -> WriteAndReadArguments(q)
    [] ~q.raw /\ q.fn = ReportSlaveId -> <<>>

RequestPdu(q) == <<q.fn>> \o Arguments(q)

\* Exclusive or, four bits at a time.
XorNibble ==
  [a \in 0 .. 15 |-> [b \in 0 .. 15 |->
     LET Bit(k) == IF (a \div k) % 2 # (b \div k) % 2 THEN k ELSE 0
     IN Bit(1) + Bit(2) + Bit(4) + Bit(8)]]
XorByte(a, b) == 16 * XorNibble[a \div 16][b \div 16] + XorNibble[a % 16][b % 16]

\* The remainders of the bytes, reflected (polynomial 16#A001), and the two tables of
\* their bytes, which the code gives the name of the byte they do not hold.
ShiftOut(r) == IF r % 2 = 0 THEN r \div 2
               ELSE 256 * XorByte(r \div 512, 160) + XorByte((r \div 2) % 256, 1)
ShiftFour(r) == ShiftOut(ShiftOut(ShiftOut(ShiftOut(r))))
Remainder == [i \in Byte |-> ShiftFour(ShiftFour(i))]
table_crc_hi == [i \in Byte |-> Remainder[i] % 256]
table_crc_lo == [i \in Byte |-> Remainder[i] \div 256]

\* crc16, as [hi, lo].
Crc(msg) ==
  FoldLeft(LAMBDA crc, byte : LET i == XorByte(crc.lo, byte)
                              IN [lo |-> XorByte(crc.hi, table_crc_hi[i]), hi |-> table_crc_lo[i]],
           [hi |-> 255, lo |-> 255], msg)
WithCrc(msg) == msg \o <<Crc(msg).lo, Crc(msg).hi>>

\* The whole frame around a function code and its data.
Adu(backend, tid, unit, pdu) ==
  IF backend = "tcp"
  THEN Word(tid) \o <<0, 0>> \o Word(Len(pdu) + 1) \o <<unit>> \o pdu
  ELSE WithCrc(<<unit>> \o pdu)
-----------------------------------------------------------------------------
\* How many bytes follow the function code for certain.
MetaLength(type, fn) ==
  IF type = "indication"
  THEN CASE fn <= WriteSingleRegister -> 4
         [] fn \in Multiples -> 5
         [] fn = MaskWriteRegister -> 6
         [] fn = WriteAndReadRegisters -> 9
         [] OTHER -> 0
  ELSE CASE fn \in Singles \cup Multiples -> 4
         [] fn = MaskWriteRegister -> 6
         [] OTHER -> 1

\* Mutant: the number of bytes of a write-and-read is taken to count itself.
DataLengthLong(type, msg, h) ==
  IF type = "indication"
  THEN CASE msg[h + 1] \in Multiples -> msg[h + 6]
         [] msg[h + 1] = WriteAndReadRegisters -> msg[h + 10] + 1
         [] OTHER -> 0
  ELSE IF msg[h + 1] <= ReadInputRegisters \/ msg[h + 1] \in {ReportSlaveId, WriteAndReadRegisters}
       THEN msg[h + 2] ELSE 0

\* How many bytes of data follow those.
DataLength(type, msg, h) ==
  IF type = "indication"
  THEN CASE msg[h + 1] \in Multiples -> msg[h + 6]
         [] msg[h + 1] = WriteAndReadRegisters -> msg[h + 10]
         [] OTHER -> 0
  ELSE IF msg[h + 1] <= ReadInputRegisters \/ msg[h + 1] \in {ReportSlaveId, WriteAndReadRegisters}
       THEN msg[h + 2] ELSE 0

\* The bytes the receiver wants before it takes another look at the length, or at
\* the whole message: up to the function code, to the number of bytes, to the end.
Wanted(type, backend, buf) ==
  LET h == HeaderLength[backend]
      meta == h + 1 + MetaLength(type, buf[h + 1])
  IN IF Len(buf) <= h THEN h + 1
     ELSE IF Len(buf) < meta THEN meta
     ELSE meta + DataLength(type, buf, h) + ChecksumLength[backend]

\* The rest does not fit the largest frame there is.
TooLong(type, backend, buf) == Wanted(type, backend, buf) > MaxAdu[backend]
-----------------------------------------------------------------------------
\* The length that the answer to a request has, unless it is an exception.
ResponseLength(req, backend) ==
  LET h == HeaderLength[backend]
      fn == req[h + 1]
      nb == WordAt(req, h + 4)
  IN h + ChecksumLength[backend]
     + CASE fn \in BitReads -> 2 + BytesFor(nb)
         [] fn \in RegisterReads \cup {WriteAndReadRegisters} -> 2 + 2 * nb
         [] fn = ReadExceptionStatus -> 3
         [] fn = MaskWriteRegister -> 7
         [] OTHER -> 5

\* The number of values that an answer must have, and the echo of a write.
SameValues(req, rsp, h) ==
  LET fn == rsp[h + 1]
  IN CASE fn \in BitReads -> rsp[h + 2] = BytesFor(WordAt(req, h + 4))
       [] fn \in RegisterReads \cup {WriteAndReadRegisters} ->
            rsp[h + 2] \div 2 = WordAt(req, h + 4)
       [] fn \in Singles \cup Multiples -> SubSeq(req, h + 2, h + 5) = SubSeq(rsp, h + 2, h + 5)
       [] OTHER -> TRUE

\* pre_check_confirmation: identifier and protocol, or the slave that answers.
PreCheck(req, rsp, backend) ==
  IF backend = "tcp"
  THEN SubSeq(rsp, 1, 2) = SubSeq(req, 1, 2) /\ SubSeq(rsp, 3, 4) = <<0, 0>>
  ELSE rsp[1] = req[1] \/ req[1] = BroadcastAddress

\* check_confirmation: "ok", "exception" or "bad", of which only the last may flush.
\* `length' is what the receiver returned, 0 for a frame of another slave.
Confirmation(req, rsp, length, backend) ==
  LET h == HeaderLength[backend]
      fits == /\ length = ResponseLength(req, backend) \/ req[h + 1] = ReportSlaveId
              /\ rsp[h + 1] = req[h + 1]
              /\ SameValues(req, rsp, h)
  IN IF ~PreCheck(req, rsp, backend) THEN "bad"
     ELSE IF rsp[h + 1] >= 128
     THEN IF length = h + 2 + ChecksumLength[backend] /\ rsp[h + 1] = req[h + 1] + 128
          THEN "exception" ELSE "bad exception"
     ELSE IF fits THEN "ok" ELSE "bad"

\* What a client function hands its caller.
ValuesOf(q, rsp, backend) ==
  LET h == HeaderLength[backend]
  IN CASE q.fn \in BitReads -> Unpacked(SubSeq(rsp, h + 3, Len(rsp)), q.nb)
       [] q.fn \in RegisterReads \cup {WriteAndReadRegisters} ->
            [i \in 1 .. q.nb |-> WordAt(rsp, h + 1 + 2 * i)]
       [] OTHER -> <<>>
=============================================================================
