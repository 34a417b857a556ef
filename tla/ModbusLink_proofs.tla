-------------------------- MODULE ModbusLink_proofs --------------------------
(***************************************************************************)
(* Theorems about ModbusLink, and about the frames it is made of.            *)
(***************************************************************************)
EXTENDS ModbusLink, Recursion

\* Bytes and words as integers within bounds.
LEMMA ByteIs == \A x : x \in Byte <=> x \in Int /\ 0 <= x /\ x <= 255
BY DEF Byte

\* An interval of integers, said element by element.
LEMMA RangeIs == \A m \in Int : \A x : x \in 0 .. m <=> x \in Int /\ 0 <= x /\ x <= m
OBVIOUS

\* The 16-bit numbers, said element by element.
LEMMA Uint16Is == \A x : x \in Uint16 <=> x \in Int /\ 0 <= x /\ x <= 65535
<1> DEFINE M == 65535
<1>0. M \in Int
  OBVIOUS
<1>1. M = 65535
  OBVIOUS
<1>2. Uint16 = 0 .. M
  BY DEF Uint16
<1> HIDE DEF M
<1>3. \A x : x \in 0..M <=> x \in Int /\ 0 <= x /\ x <= M
  BY <1>0, RangeIs
<1>4. \A x : x \in Uint16 <=> x \in Int /\ 0 <= x /\ x <= M
  BY <1>2, <1>3, Zenon
<1> QED
  BY <1>1, <1>4

\* The bytes of words.
LEMMA WordType ==
  ASSUME NEW w \in Uint16
  PROVE  /\ Word(w) \in Seq(Byte) /\ Len(Word(w)) = 2
         /\ Word(w)[1] = w \div 256 /\ Word(w)[2] = w % 256
         /\ w \div 256 \in Byte /\ w % 256 \in Byte /\ 256 * (w \div 256) + (w % 256) = w
<1>1. w \div 256 \in Byte /\ w % 256 \in Byte /\ 256 * (w \div 256) + (w % 256) = w
  <2>1. w \in Int /\ 0 <= w /\ w <= 65535
    BY Uint16Is
  <2>2. w \div 256 \in Int /\ 0 <= w \div 256 /\ w \div 256 <= 255
    BY <2>1
  <2> QED
    BY <2>1, <2>2, ByteIs
<1> QED
  BY <1>1 DEF Word

\* Two bytes of a message make a 16-bit number.
LEMMA WordAtType ==
  ASSUME NEW msg \in Seq(Byte), NEW i \in 1 .. Len(msg) - 1
  PROVE  WordAt(msg, i) \in Uint16
<1> DEFINE high == msg[i]
           low == msg[i + 1]
<1>1. high \in Byte /\ low \in Byte
  OBVIOUS
<1> HIDE DEF high, low
<1>2. high \in Int /\ 0 <= high /\ high <= 255 /\ low \in Int /\ 0 <= low /\ low <= 255
  BY <1>1, ByteIs
<1>3. high * 256 + low \in Uint16
  BY <1>2, Uint16Is
<1> QED
  BY <1>3 DEF WordAt, high, low

\* Registers laid out as bytes take two each, and are read back as they were.
LEMMA WordsType ==
  ASSUME NEW values \in Seq(Uint16)
  PROVE  /\ Words(values) \in Seq(Byte) /\ Len(Words(values)) = 2 * Len(values)
         /\ \A k \in 1 .. Len(values) : WordAt(Words(values), 2 * k - 1) = values[k]
<1> DEFINE n == 2 * Len(values)
<1>1. n \in Nat /\ Words(values) = [k \in 1 .. n |->
        Word(values[(k + 1) \div 2])[IF k % 2 = 1 THEN 1 ELSE 2]]
  BY DEF Words
<1>2. ASSUME NEW k \in 1 .. n
      PROVE  Word(values[(k + 1) \div 2])[IF k % 2 = 1 THEN 1 ELSE 2] \in Byte
  <2>1. (k + 1) \div 2 \in 1 .. Len(values)
    OBVIOUS
  <2>2. values[(k + 1) \div 2] \in Uint16
    BY <2>1
  <2> QED
    BY <2>2, WordType
<1>3. Words(values) \in [1 .. n -> Byte]
  BY <1>1, <1>2
<1>4. Words(values) \in Seq(Byte) /\ Len(Words(values)) = n
  BY <1>1, <1>3
<1>5. ASSUME NEW k \in 1 .. Len(values)
      PROVE  WordAt(Words(values), 2 * k - 1) = values[k]
  <2>1. 2 * k - 1 \in 1 .. n /\ 2 * k \in 1 .. n
    OBVIOUS
  <2>2. (2 * k - 1 + 1) \div 2 = k /\ (2 * k + 1) \div 2 = k
    OBVIOUS
  <2>3. (2 * k - 1) % 2 = 1 /\ (2 * k) % 2 = 0
    OBVIOUS
  <2>4. Words(values)[2 * k - 1] = Word(values[k])[1] /\ Words(values)[2 * k] = Word(values[k])[2]
    <3> HIDE DEF n
    <3> QED
      BY <1>1, <2>1, <2>2, <2>3
  <2>5. values[k] \in Uint16
    OBVIOUS
  <2> QED
    <3>1. WordAt(Words(values), 2 * k - 1) = Words(values)[2 * k - 1] * 256 + Words(values)[2 * k]
      BY DEF WordAt
    <3> DEFINE w == values[k]
    <3>2. /\ Word(w)[1] = w \div 256 /\ Word(w)[2] = w % 256 /\ w \div 256 \in Int
          /\ 256 * (w \div 256) + (w % 256) = w
      <4>1. w \in Uint16
        BY <2>5
      <4> HIDE DEF w
      <4> QED
        BY <4>1, WordType, ByteIs
    <3> HIDE DEF w
    <3>3. Word(w)[1] * 256 + Word(w)[2] = w
      BY <3>2
    <3> QED
      BY <2>4, <3>1, <3>3 DEF w
<1> QED
  BY <1>4, <1>5

\* Bytes for bits.
LEMMA BytesForBounds ==
  ASSUME NEW nb \in Nat
  PROVE  /\ BytesFor(nb) \in Nat
         /\ \A i \in 1 .. nb : (i + 7) \div 8 \in 1 .. BytesFor(nb)
         /\ nb <= 2000 => BytesFor(nb) <= 250
         /\ nb <= 1968 => BytesFor(nb) <= 246
         /\ \A bytes \in Nat : 8 * bytes >= nb => bytes >= BytesFor(nb)
BY DEF BytesFor

\* Eight bits make a byte.
LEMMA OctetIsByte == ASSUME NEW b \in [1 .. 8 -> {0, 1}] PROVE Octet(b) \in Byte
<1>1. /\ b[1] \in {0, 1} /\ b[2] \in {0, 1} /\ b[3] \in {0, 1} /\ b[4] \in {0, 1}
      /\ b[5] \in {0, 1} /\ b[6] \in {0, 1} /\ b[7] \in {0, 1} /\ b[8] \in {0, 1}
  OBVIOUS
<1>2. Octet(b) \in 0 .. 255
  BY <1>1 DEF Octet
<1> QED
  BY <1>2, Zenon DEF Byte

\* Bits laid out as bytes take one byte for each eight of them.
LEMMA PackedType ==
  ASSUME NEW bits \in Seq({0, 1})
  PROVE  Packed(bits) \in Seq(Byte) /\ Len(Packed(bits)) = BytesFor(Len(bits))
<1> DEFINE n == BytesFor(Len(bits))
<1>1. n \in Nat
  BY BytesForBounds
<1>2. ASSUME NEW k \in 1 .. n PROVE Octet(EightFrom(bits, 8 * (k - 1))) \in Byte
  <2>1. 8 * (k - 1) \in Nat
    BY <1>1
  <2>2. EightFrom(bits, 8 * (k - 1)) \in [1 .. 8 -> {0, 1}]
    BY <2>1 DEF EightFrom
  <2> QED
    BY <2>2, OctetIsByte
<1>3. Packed(bits) = [k \in 1 .. n |-> Octet(EightFrom(bits, 8 * (k - 1)))]
  BY DEF Packed
<1> HIDE DEF n
<1>4. Packed(bits) \in [1 .. n -> Byte]
  BY <1>2, <1>3
<1>5. Len(Packed(bits)) = n
  BY <1>1, <1>3
<1> QED
  BY <1>1, <1>4, <1>5 DEF n

\* As many bits come out of the bytes as are asked for.
LEMMA UnpackedType ==
  ASSUME NEW bytes, NEW nb \in Nat, \A i \in 1 .. nb : bytes[(i + 7) \div 8] \in Int
  PROVE  Unpacked(bytes, nb) \in [1 .. nb -> {0, 1}] /\ Len(Unpacked(bytes, nb)) = nb
<1>1. ASSUME NEW i \in 1 .. nb
      PROVE  (bytes[(i + 7) \div 8] \div Weight[((i - 1) % 8) + 1]) % 2 \in {0, 1}
  <2>1. Weight[((i - 1) % 8) + 1] \in Nat \ {0}
    <3>1. ((i - 1) % 8) + 1 \in 1 .. 8
      OBVIOUS
    <3>2. \A j \in 1 .. 8 : Weight[j] \in Nat \ {0}
      BY DEF Weight
    <3> QED
      BY <3>1, <3>2
  <2>2. bytes[(i + 7) \div 8] \div Weight[((i - 1) % 8) + 1] \in Int
    BY <2>1
  <2> QED
    BY <2>2
<1> QED
  BY <1>1 DEF Unpacked
-----------------------------------------------------------------------------
\* The checksum consists of bytes.
LEMMA XorNibbleType == \A a, b \in 0 .. 15 : XorNibble[a][b] \in 0 .. 15
<1> TAKE a, b \in 0 .. 15
<1> DEFINE Bit(k) == IF (a \div k) % 2 # (b \div k) % 2 THEN k ELSE 0
<1>1. XorNibble[a][b] = Bit(1) + Bit(2) + Bit(4) + Bit(8)
  BY DEF XorNibble
<1>2. Bit(1) \in {0, 1} /\ Bit(2) \in {0, 2} /\ Bit(4) \in {0, 4} /\ Bit(8) \in {0, 8}
  OBVIOUS
<1> HIDE DEF Bit
<1>3. Bit(1) + Bit(2) + Bit(4) + Bit(8) \in 0 .. 15
  BY <1>2
<1> QED
  BY <1>1, <1>3

\* The exclusive or of two bytes is a byte.
LEMMA XorByteType == \A a, b \in Byte : XorByte(a, b) \in Byte
<1> TAKE a, b \in Byte
<1>1. a \div 16 \in 0 .. 15 /\ b \div 16 \in 0 .. 15 /\ a % 16 \in 0 .. 15 /\ b % 16 \in 0 .. 15
  BY ByteIs
<1> DEFINE high == XorNibble[a \div 16][b \div 16]
           low == XorNibble[a % 16][b % 16]
<1>2. high \in 0 .. 15 /\ low \in 0 .. 15
  BY <1>1, XorNibbleType
<1>3. XorByte(a, b) = 16 * high + low
  BY DEF XorByte
<1> HIDE DEF high, low
<1>4. 16 * high + low \in Int /\ 0 <= 16 * high + low /\ 16 * high + low <= 255
  BY <1>2
<1> QED
  BY <1>3, <1>4, ByteIs

\* A high and a low byte make a 16-bit number.
LEMMA BytesMakeWord == \A a, b \in Byte : 256 * a + b \in Uint16
<1> TAKE a, b \in Byte
<1>1. a \in Int /\ 0 <= a /\ a <= 255 /\ b \in Int /\ 0 <= b /\ b <= 255
  BY ByteIs
<1>2. 256 * a + b \in Int /\ 0 <= 256 * a + b /\ 256 * a + b <= 65535
  BY <1>1
<1> QED
  BY <1>2, Uint16Is

\* One step of the table computation keeps to 16 bits.
LEMMA ShiftOutType == \A r \in Uint16 : ShiftOut(r) \in Uint16
<1> TAKE r \in Uint16
<1>1. r \in Int /\ 0 <= r /\ r <= 65535
  BY Uint16Is
<1>2. CASE r % 2 = 0
  <2>1. r \div 2 \in Int /\ 0 <= r \div 2 /\ r \div 2 <= 65535
    BY <1>1
  <2> QED
    BY <1>2, <2>1, Uint16Is DEF ShiftOut
<1>3. CASE r % 2 # 0
  <2>1. r \div 512 \in Byte /\ 160 \in Byte /\ (r \div 2) % 256 \in Byte /\ 1 \in Byte
    BY <1>1, ByteIs
  <2>2. XorByte(r \div 512, 160) \in Byte /\ XorByte((r \div 2) % 256, 1) \in Byte
    BY <2>1, XorByteType, Zenon
  <2> DEFINE hi == XorByte(r \div 512, 160)
             lo == XorByte((r \div 2) % 256, 1)
  <2>3. 256 * hi + lo \in Uint16
    <3>1. hi \in Byte /\ lo \in Byte
      BY <2>2
    <3> HIDE DEF hi, lo
    <3> QED
      BY <3>1, BytesMakeWord, Zenon
  <2> QED
    BY <1>3, <2>3, Zenon DEF ShiftOut
<1> QED
  BY <1>2, <1>3

\* The tables of crc16 hold bytes.
LEMMA TablesType == table_crc_hi \in [Byte -> Byte] /\ table_crc_lo \in [Byte -> Byte]
<1>1. ASSUME NEW i \in Byte PROVE Remainder[i] \in Uint16
  <2>1. i \in Uint16
    BY ByteIs, Uint16Is
  <2>2. ShiftFour(i) \in Uint16
    BY <2>1, ShiftOutType, Zenon DEF ShiftFour
  <2>3. ShiftFour(ShiftFour(i)) \in Uint16
    BY <2>2, ShiftOutType, Zenon DEF ShiftFour
  <2>4. Remainder[i] = ShiftFour(ShiftFour(i))
    BY Zenon DEF Remainder
  <2> QED
    BY <2>3, <2>4, Zenon
<1>2. ASSUME NEW i \in Byte PROVE Remainder[i] % 256 \in Byte /\ Remainder[i] \div 256 \in Byte
  BY <1>1, WordType
<1> QED
  BY <1>2 DEF table_crc_hi, table_crc_lo

\* How a checksum is made, byte by byte.
Checksums == [hi : Byte, lo : Byte]
CrcWith(crc, byte) == LET i == XorByte(crc.lo, byte)
                      IN [lo |-> XorByte(crc.hi, table_crc_hi[i]), hi |-> table_crc_lo[i]]
Checking(f, msg) ==
  f = [s \in SUBSET DOMAIN msg |->
         IF s = {} THEN [hi |-> 255, lo |-> 255]
         ELSE LET i == Max(s) IN CrcWith(f[s \ {i}], msg[i])]
Checker(msg) == CHOOSE f : Checking(f, msg)

\* The fold of crc16 is a recursive function on the positions of the message.
LEMMA CrcByChecker == ASSUME NEW msg PROVE Crc(msg) = Checker(msg)[DOMAIN msg]
BY Zenon DEF Crc, FoldLeft, MapThenFoldSet, Checker, Checking, CrcWith

\* Taking one more byte into a checksum leaves a checksum.
LEMMA CrcWithType == \A crc \in Checksums, byte \in Byte : CrcWith(crc, byte) \in Checksums
<1> TAKE crc \in Checksums, byte \in Byte
<1> DEFINE i == XorByte(crc.lo, byte)
<1>1. crc.lo \in Byte /\ crc.hi \in Byte
  BY DEF Checksums
<1>2. i \in Byte
  BY <1>1, XorByteType
<1>3. table_crc_hi[i] \in Byte /\ table_crc_lo[i] \in Byte
  <2> HIDE DEF i
  <2> QED
    BY <1>2, TablesType
<1>4. XorByte(crc.hi, table_crc_hi[i]) \in Byte
  <2> HIDE DEF i
  <2> QED
    BY <1>1, <1>3, XorByteType
<1>5. CrcWith(crc, byte) = [lo |-> XorByte(crc.hi, table_crc_hi[i]), hi |-> table_crc_lo[i]]
  BY DEF CrcWith
<1> HIDE DEF i
<1> QED
  BY <1>3, <1>4, <1>5 DEF Checksums

\* The checksum of a message is two bytes.
LEMMA CrcType == ASSUME NEW msg \in Seq(Byte) PROVE Crc(msg).lo \in Byte /\ Crc(msg).hi \in Byte
<1> DEFINE D == DOMAIN msg
           ch == [s \in SUBSET D |-> Max(s)]
           step == [i \in D |-> [crc \in Checksums |-> CrcWith(crc, msg[i])]]
<1>0. D = 1 .. Len(msg) /\ Len(msg) \in Nat /\ IsFiniteSet(D)
  BY FS_Interval
<1>1. \A s \in SUBSET D : s # {} => ch[s] \in s
  BY <1>0, MaxIsMember
<1>2. step \in [D -> [Checksums -> Checksums]]
  <2>1. \A i \in D : msg[i] \in Byte
    OBVIOUS
  <2> HIDE DEF D
  <2> QED
    BY <2>1, CrcWithType
<1>3. PICK f : ByFolding(f, D, ch, Checksums, [hi |-> 255, lo |-> 255], step)
  <2>1. [hi |-> 255, lo |-> 255] \in Checksums
    BY ByteIs DEF Checksums
  <2> HIDE DEF ch, step, D
  <2> QED
    BY <1>0, <1>1, <1>2, <2>1, FoldDefines, Zenon
<1>4. f \in [SUBSET D -> Checksums]
  BY <1>3 DEF ByFolding
<1>5. ASSUME NEW s \in SUBSET D
      PROVE  f[s] = IF s = {} THEN [hi |-> 255, lo |-> 255]
                    ELSE LET i == Max(s) IN CrcWith(f[s \ {i}], msg[i])
  <2>1. f[s] = IF s = {} THEN [hi |-> 255, lo |-> 255] ELSE step[ch[s]][f[s \ {ch[s]}]]
    BY <1>3 DEF ByFolding
  <2>2. f[s \ {ch[s]}] \in Checksums
    BY <1>4
  <2>3. s # {} => ch[s] \in D
    BY <1>1
  <2>4. ch[s] = Max(s)
    OBVIOUS
  <2> HIDE DEF ch, D
  <2> QED
    BY <2>1, <2>2, <2>3, <2>4
<1>6. Checking(f, msg)
  BY <1>4, <1>5 DEF Checking
<1> DEFINE g == Checker(msg)
<1>7. Checking(g, msg)
  BY <1>6, Zenon DEF Checker
<1>8. g \in [SUBSET D -> Checksums]
  <2> DEFINE Good == {s \in SUBSET D : g[s] \in Checksums}
  <2>1. \A s \in SUBSET D : g[s] = IF s = {} THEN [hi |-> 255, lo |-> 255]
                                   ELSE CrcWith(g[s \ {Max(s)}], msg[Max(s)])
    <3> DEFINE rule == [s \in SUBSET D |-> IF s = {} THEN [hi |-> 255, lo |-> 255]
                                          ELSE CrcWith(g[s \ {Max(s)}], msg[Max(s)])]
    <3>1. g = rule
      BY <1>7, Zenon DEF Checking
    <3>2. \A s \in SUBSET D : rule[s] = IF s = {} THEN [hi |-> 255, lo |-> 255]
                                   ELSE CrcWith(g[s \ {Max(s)}], msg[Max(s)])
      OBVIOUS
    <3> HIDE DEF rule, g
    <3> QED
      BY <3>1, <3>2
  <2> HIDE DEF g
  <2>2. {} \in Good
    <3>1. [hi |-> 255, lo |-> 255] \in Checksums
      BY ByteIs DEF Checksums
    <3> QED
      BY <2>1, <3>1
  <2>3. ASSUME NEW s \in SUBSET D, s # {}, s \ {ch[s]} \in Good PROVE s \in Good
    <3>1. ch[s] = Max(s) /\ Max(s) \in D
      BY <1>1, <2>3
    <3>2. g[s \ {Max(s)}] \in Checksums /\ msg[Max(s)] \in Byte
      BY <2>3, <3>1
    <3>3. g[s] = CrcWith(g[s \ {Max(s)}], msg[Max(s)])
      BY <2>1, <2>3
    <3> QED
      BY <3>2, <3>3, CrcWithType
  <2>4. \A s \in SUBSET D : s \in Good
    <3> HIDE DEF ch, Good, D
    <3>1. \A s \in SUBSET D : s # {} /\ s \ {ch[s]} \in Good => s \in Good
      BY <2>3
    <3>2. IsFiniteSet(D)
      BY <1>0
    <3> QED
      BY <1>1, <2>2, <3>1, <3>2, SubsetInduction
  <2>5. DOMAIN g = SUBSET D /\ g = [s \in DOMAIN g |-> g[s]]
    BY <1>7 DEF Checking, g
  <2> QED
    BY <2>4, <2>5
<1>9. D \in SUBSET D
  OBVIOUS
<1>10. g[D] \in Checksums
  <2> HIDE DEF g, D
  <2> QED
    BY <1>8, <1>9
<1> QED
  BY <1>10, CrcByChecker DEF Checksums

-----------------------------------------------------------------------------
\* What the lengths come to; a function code belongs to one of the cases.
LEMMA MetaLengthIs ==
  ASSUME NEW fn \in Int
  PROVE  /\ fn <= 6 => MetaLength("indication", fn) = 4
         /\ fn \in {15, 16} => MetaLength("indication", fn) = 5
         /\ fn = 22 => MetaLength("indication", fn) = 6
         /\ fn = 23 => MetaLength("indication", fn) = 9
         /\ fn > 6 /\ fn \notin {15, 16, 22, 23} => MetaLength("indication", fn) = 0
         /\ fn \in {5, 6, 15, 16} => MetaLength("confirmation", fn) = 4
         /\ fn = 22 => MetaLength("confirmation", fn) = 6
         /\ fn \notin {5, 6, 15, 16, 22} => MetaLength("confirmation", fn) = 1
<1> DEFINE low == fn <= WriteSingleRegister
           multiple == fn \in Multiples
           mask == fn = MaskWriteRegister
           both == fn = WriteAndReadRegisters
           written == fn \in Singles \cup Multiples
<1> USE DEF Singles, Multiples, WriteSingleCoil, WriteSingleRegister, WriteMultipleCoils,
            WriteMultipleRegisters, MaskWriteRegister, WriteAndReadRegisters
<1>1. /\ low <=> fn <= 6
      /\ multiple <=> fn \in {15, 16}
      /\ mask <=> fn = 22
      /\ both <=> fn = 23
      /\ written <=> fn \in {5, 6, 15, 16}
  OBVIOUS
<1>2. /\ low => ~multiple /\ ~mask /\ ~both
      /\ multiple => ~mask /\ ~both
      /\ mask => ~both /\ ~written
  OBVIOUS
<1>3. MetaLength("indication", fn) =
        CASE low -> 4 [] multiple -> 5 [] mask -> 6 [] both -> 9 [] OTHER -> 0
  BY Zenon DEF MetaLength
<1>4. MetaLength("confirmation", fn) = CASE written -> 4 [] mask -> 6 [] OTHER -> 1
  BY Zenon DEF MetaLength
<1> HIDE DEF low, multiple, mask, both, written
<1>5. /\ low => MetaLength("indication", fn) = 4
      /\ multiple => MetaLength("indication", fn) = 5
      /\ mask => MetaLength("indication", fn) = 6
      /\ both => MetaLength("indication", fn) = 9
      /\ ~low /\ ~multiple /\ ~mask /\ ~both => MetaLength("indication", fn) = 0
  BY <1>2, <1>3, Zenon
<1>6. /\ written => MetaLength("confirmation", fn) = 4
      /\ mask => MetaLength("confirmation", fn) = 6
      /\ ~written /\ ~mask => MetaLength("confirmation", fn) = 1
  BY <1>2, <1>4, Zenon
<1> QED
  BY <1>1, <1>5, <1>6

\* How much follows the fixed part, by function code and the count the message carries.
LEMMA DataLengthIs ==
  ASSUME NEW msg, NEW h, NEW fn \in Int, fn = msg[h + 1]
  PROVE  /\ fn \in {15, 16} => DataLength("indication", msg, h) = msg[h + 6]
         /\ fn = 23 => DataLength("indication", msg, h) = msg[h + 10]
         /\ fn \notin {15, 16, 23} => DataLength("indication", msg, h) = 0
         /\ fn <= 4 \/ fn \in {17, 23} => DataLength("confirmation", msg, h) = msg[h + 2]
         /\ fn > 4 /\ fn \notin {17, 23} => DataLength("confirmation", msg, h) = 0
<1> DEFINE multiple == msg[h + 1] \in Multiples
           both == msg[h + 1] = WriteAndReadRegisters
<1> USE DEF Multiples, WriteMultipleCoils, ReadInputRegisters, ReportSlaveId,
            WriteMultipleRegisters, WriteAndReadRegisters
<1>1. /\ multiple <=> fn \in {15, 16}
      /\ both <=> fn = 23
      /\ multiple => ~both
  OBVIOUS
<1>2. DataLength("indication", msg, h) =
        CASE multiple -> msg[h + 6] [] both -> msg[h + 10] [] OTHER -> 0
  BY Zenon DEF DataLength
<1>3. DataLength("confirmation", msg, h) =
        IF fn <= 4 \/ fn \in {17, 23} THEN msg[h + 2] ELSE 0
  BY DEF DataLength
<1> HIDE DEF multiple, both
<1>4. /\ multiple => DataLength("indication", msg, h) = msg[h + 6]
      /\ both => DataLength("indication", msg, h) = msg[h + 10]
      /\ ~multiple /\ ~both => DataLength("indication", msg, h) = 0
  BY <1>1, <1>2, Zenon
<1> QED
  BY <1>1, <1>3, <1>4

\* The lengths of the two backends: modbus-tcp-private.h and modbus-rtu-private.h.
LEMMA LengthsAre ==
  ASSUME NEW b \in Backends
  PROVE  \/ b = "tcp" /\ HeaderLength[b] = 7 /\ ChecksumLength[b] = 0 /\ MaxAdu[b] = 260
         \/ b = "rtu" /\ HeaderLength[b] = 1 /\ ChecksumLength[b] = 2 /\ MaxAdu[b] = 256
BY DEF Backends, HeaderLength, ChecksumLength, MaxAdu

Types == {"indication", "confirmation"}

\* A frame that has the length which its bytes tell.
IsMessage(type, b, msg) ==
  LET h == HeaderLength[b]
      meta == h + 1 + MetaLength(type, msg[h + 1])
  IN /\ msg \in Seq(Byte)
     /\ Len(msg) <= MaxAdu[b]
     /\ Len(msg) > h /\ Len(msg) >= meta
     /\ Len(msg) = meta + DataLength(type, msg, h) + ChecksumLength[b]

\* The lengths are numbers, once the bytes that tell them have come.
LEMMA LengthsType ==
  ASSUME NEW type \in Types, NEW h \in {1, 7}, NEW msg \in Seq(Byte), Len(msg) > h
  PROVE  /\ MetaLength(type, msg[h + 1]) \in 0 .. 9
         /\ Len(msg) >= h + 1 + MetaLength(type, msg[h + 1]) => DataLength(type, msg, h) \in Byte
<1> DEFINE fn == msg[h + 1]
<1>1. fn \in Byte /\ fn \in Int /\ 0 <= fn
  <2>1. msg[h + 1] \in Byte
    OBVIOUS
  <2> QED
    BY <2>1, ByteIs
<1>2. /\ 0 \in Byte
      /\ Len(msg) >= h + 6 => msg[h + 6] \in Byte
      /\ Len(msg) >= h + 10 => msg[h + 10] \in Byte
      /\ Len(msg) >= h + 2 => msg[h + 2] \in Byte
  BY ByteIs
<1> HIDE DEF fn
<1>3. CASE type = "indication"
  <2>1. MetaLength(type, fn) \in {0, 4, 5, 6, 9}
    BY <1>1, <1>3, MetaLengthIs
  <2>2. /\ fn \in {15, 16} => MetaLength(type, fn) = 5
        /\ fn = 23 => MetaLength(type, fn) = 9
    BY <1>1, <1>3, MetaLengthIs
  <2>3. /\ fn \in {15, 16} => DataLength(type, msg, h) = msg[h + 6]
        /\ fn = 23 => DataLength(type, msg, h) = msg[h + 10]
        /\ fn \notin {15, 16, 23} => DataLength(type, msg, h) = 0
    BY <1>1, <1>3, DataLengthIs DEF fn
  <2>4. Len(msg) >= h + 1 + MetaLength(type, fn) => DataLength(type, msg, h) \in Byte
    BY <1>1, <1>2, <2>2, <2>3
  <2> QED
    BY <2>1, <2>4 DEF fn
<1>4. CASE type = "confirmation"
  <2>1. MetaLength(type, fn) \in {1, 4, 6}
    BY <1>1, <1>4, MetaLengthIs
  <2>2. /\ fn <= 4 \/ fn \in {17, 23} => DataLength(type, msg, h) = msg[h + 2]
        /\ fn > 4 /\ fn \notin {17, 23} => DataLength(type, msg, h) = 0
    BY <1>1, <1>4, DataLengthIs DEF fn
  <2>3. Len(msg) >= h + 1 + MetaLength(type, fn) => DataLength(type, msg, h) \in Byte
    BY <1>1, <1>2, <2>1, <2>2
  <2> QED
    BY <2>1, <2>3 DEF fn
<1> QED
  BY <1>3, <1>4 DEF Types

\* They are the same for the same bytes at the places of the function code and of those
\* that follow it.
LEMMA SameDataLength ==
  ASSUME NEW type \in Types, NEW fn \in Int, NEW m, NEW h, NEW n, NEW k,
         fn = m[h + 1], fn = n[k + 1],
         \A i \in 1 .. 10 : i <= 1 + MetaLength(type, fn) => m[h + i] = n[k + i]
  PROVE  DataLength(type, m, h) = DataLength(type, n, k)
<1>1. CASE type = "indication"
  <2>1. /\ fn \in {15, 16} => DataLength(type, m, h) = m[h + 6]
        /\ fn = 23 => DataLength(type, m, h) = m[h + 10]
        /\ fn \notin {15, 16, 23} => DataLength(type, m, h) = 0
    BY <1>1, DataLengthIs
  <2>2. /\ fn \in {15, 16} => DataLength(type, n, k) = n[k + 6]
        /\ fn = 23 => DataLength(type, n, k) = n[k + 10]
        /\ fn \notin {15, 16, 23} => DataLength(type, n, k) = 0
    BY <1>1, DataLengthIs
  <2>3. /\ fn \in {15, 16} => MetaLength(type, fn) = 5
        /\ fn = 23 => MetaLength(type, fn) = 9
    BY <1>1, MetaLengthIs
  <2>4. /\ fn \in {15, 16} => m[h + 6] = n[k + 6]
        /\ fn = 23 => m[h + 10] = n[k + 10]
    BY <2>3
  <2> QED
    BY <2>1, <2>2, <2>4
<1>2. CASE type = "confirmation"
  <2>1. /\ fn <= 4 \/ fn \in {17, 23} => DataLength(type, m, h) = m[h + 2]
        /\ fn > 4 /\ fn \notin {17, 23} => DataLength(type, m, h) = 0
    BY <1>2, DataLengthIs
  <2>2. /\ fn <= 4 \/ fn \in {17, 23} => DataLength(type, n, k) = n[k + 2]
        /\ fn > 4 /\ fn \notin {17, 23} => DataLength(type, n, k) = 0
    BY <1>2, DataLengthIs
  <2>3. MetaLength(type, fn) \in {1, 4, 6}
    BY <1>2, MetaLengthIs
  <2>4. m[h + 2] = n[k + 2]
    BY <2>3
  <2> QED
    BY <2>1, <2>2, <2>4
<1> QED
  BY <1>1, <1>2 DEF Types

\* What the receiver wants while it reads such a frame, and more behind it.
LEMMA WantedOfMessage ==
  ASSUME NEW type \in Types, NEW b \in Backends, NEW msg, IsMessage(type, b, msg),
         NEW read \in Seq(Byte), \A i \in 1 .. Len(msg) : i <= Len(read) => read[i] = msg[i]
  PROVE  /\ Wanted(type, b, read) \in Nat
         /\ Wanted(type, b, read) <= Len(msg)
         /\ Len(read) >= Len(msg) => Wanted(type, b, read) = Len(msg)
         /\ Len(read) < Len(msg) => Wanted(type, b, read) > Len(read)
         /\ ~TooLong(type, b, read)
<1> DEFINE h == HeaderLength[b]
           c == ChecksumLength[b]
           meta == h + 1 + MetaLength(type, msg[h + 1])
           data == DataLength(type, msg, h)
<1>1. /\ msg \in Seq(Byte) /\ Len(msg) <= MaxAdu[b] /\ Len(msg) > h /\ Len(msg) >= meta
      /\ Len(msg) = meta + data + c
  BY DEF IsMessage
<1>2. h \in {1, 7} /\ c \in {0, 2}
  BY LengthsAre
<1>3. MetaLength(type, msg[h + 1]) \in 0 .. 9 /\ data \in Nat
  <2> HIDE DEF h
  <2> QED
    BY <1>1, <1>2, LengthsType, ByteIs
<1>4. Len(msg) \in Nat /\ Len(read) \in Nat
  BY <1>1
<1>5. Len(read) > h => read[h + 1] = msg[h + 1]
  <2> HIDE DEF h, c, meta, data
  <2>1. Len(read) > h => h + 1 \in 1 .. Len(msg) /\ h + 1 <= Len(read)
    BY <1>1, <1>2, <1>4
  <2> QED
    BY <2>1
<1>6. Len(read) >= meta /\ Len(read) > h => DataLength(type, read, h) = data
  <2> SUFFICES ASSUME Len(read) >= meta, Len(read) > h
               PROVE  DataLength(type, read, h) = data
    OBVIOUS
  <2> DEFINE fn == msg[h + 1]
  <2>0. fn \in Int
    <3>1. msg[h + 1] \in Byte
      BY <1>1, <1>2, <1>4
    <3> QED
      BY <3>1, ByteIs
  <2>1. \A i \in 1 .. 10 : i <= 1 + MetaLength(type, fn) => read[h + i] = msg[h + i]
    <3> DEFINE more == MetaLength(type, fn)
    <3>1. more \in Nat /\ meta = h + 1 + more
      BY <1>2, <1>3
    <3> HIDE DEF meta, h, more
    <3> SUFFICES ASSUME NEW i \in 1 .. 10, i <= 1 + more
                 PROVE  read[h + i] = msg[h + i]
      BY DEF more
    <3>2. h + i <= meta /\ h + i >= 1
      BY <1>2, <3>1
    <3>3. h + i \in 1 .. Len(msg) /\ h + i <= Len(read)
      BY <1>1, <1>2, <1>4, <3>1, <3>2
    <3> QED
      BY <3>3
  <2>2. read[h + 1] = fn
    BY <1>5
  <2> HIDE DEF fn, h
  <2> QED
    BY <2>0, <2>1, <2>2, SameDataLength DEF fn
<1>7. Wanted(type, b, read) = IF Len(read) <= h THEN h + 1
                              ELSE IF Len(read) < h + 1 + MetaLength(type, read[h + 1])
                                   THEN h + 1 + MetaLength(type, read[h + 1])
                              ELSE h + 1 + MetaLength(type, read[h + 1])
                                   + DataLength(type, read, h) + c
  BY DEF Wanted
<1>8. meta \in Nat
  BY <1>2, <1>3
<1>9. Wanted(type, b, read) = IF Len(read) <= h THEN h + 1
                              ELSE IF Len(read) < meta THEN meta ELSE meta + data + c
  <2>1. CASE Len(read) <= h
    BY <1>7, <2>1
  <2>2. CASE Len(read) > h
    <3>1. h + 1 + MetaLength(type, read[h + 1]) = meta
      BY <1>5, <2>2
    <3> HIDE DEF h, c, data, meta
    <3>2. Len(read) >= meta => DataLength(type, read, h) = data
      BY <1>6, <2>2
    <3>3. Wanted(type, b, read) = IF Len(read) <= h THEN h + 1
                                  ELSE IF Len(read) < meta THEN meta
                                  ELSE meta + DataLength(type, read, h) + c
      BY <1>7, <3>1
    <3>4. meta \in Nat
      BY <1>8 DEF meta
    <3> QED
      BY <1>2, <1>4, <2>2, <3>2, <3>3, <3>4
  <2> QED
    BY <1>2, <1>4, <2>1, <2>2
<1> HIDE DEF h, c, data, meta
<1>10. /\ Wanted(type, b, read) \in Nat
       /\ Wanted(type, b, read) <= Len(msg)
       /\ Len(read) >= Len(msg) => Wanted(type, b, read) = Len(msg)
       /\ Len(read) < Len(msg) => Wanted(type, b, read) > Len(read)
  BY <1>1, <1>2, <1>3, <1>4, <1>8, <1>9
<1>11. MaxAdu[b] \in Nat
  BY LengthsAre
<1> QED
  BY <1>1, <1>4, <1>10, <1>11 DEF TooLong

\* Such a frame is taken from what has come, whatever has come behind it, and not before
\* all of it has.
LEMMA MessageFirst ==
  ASSUME NEW type \in Types, backend \in Backends, NEW msg, IsMessage(type, backend, msg),
         NEW rest \in Seq(Byte)
  PROVE  /\ Whole(type, msg \o rest) /\ ~TooLong(type, backend, msg \o rest)
         /\ NextMessage(type, msg \o rest) = msg
         /\ Drop(msg \o rest, Len(msg)) = rest
         /\ \A n \in 0 .. Len(msg \o rest) :
              /\ ~TooLong(type, backend, SubSeq(msg \o rest, 1, n))
              /\ Whole(type, SubSeq(msg \o rest, 1, n)) <=> n >= Len(msg)
<1> DEFINE buf == msg \o rest
<1>1. msg \in Seq(Byte)
  BY DEF IsMessage
<1>2. /\ buf \in Seq(Byte) /\ Len(buf) = Len(msg) + Len(rest)
      /\ Len(msg) \in Nat /\ Len(rest) \in Nat
      /\ \A i \in 1 .. Len(msg) : buf[i] = msg[i]
  BY <1>1
<1>3. SubSeq(buf, 1, Len(msg)) = msg /\ Drop(buf, Len(msg)) = rest
  BY <1>1 DEF Drop
<1>4. SubSeq(buf, 1, Len(buf)) = buf
  BY <1>2
<1> HIDE DEF buf
<1>5. ASSUME NEW n \in 0 .. Len(buf)
      PROVE  /\ ~TooLong(type, backend, SubSeq(buf, 1, n))
             /\ Whole(type, SubSeq(buf, 1, n)) <=> n >= Len(msg)
             /\ n >= Len(msg) => Wanted(type, backend, SubSeq(buf, 1, n)) = Len(msg)
  <2> DEFINE read == SubSeq(buf, 1, n)
  <2>1. read \in Seq(Byte) /\ Len(read) = n /\ n \in Nat
    BY <1>2
  <2>2. \A i \in 1 .. Len(msg) : i <= Len(read) => read[i] = msg[i]
    BY <1>2
  <2> HIDE DEF read
  <2>3. /\ Wanted(type, backend, read) \in Nat
        /\ Len(read) >= Len(msg) => Wanted(type, backend, read) = Len(msg)
        /\ Len(read) < Len(msg) => Wanted(type, backend, read) > Len(read)
        /\ ~TooLong(type, backend, read)
    BY <2>1, <2>2, WantedOfMessage
  <2>4. Whole(type, read) <=> n >= Len(msg)
    BY <1>2, <2>1, <2>3 DEF Whole
  <2> QED
    BY <2>1, <2>3, <2>4 DEF read
<1>6. Len(buf) \in 0 .. Len(buf) /\ Len(buf) >= Len(msg)
  BY <1>2
<1>7. Wanted(type, backend, buf) = Len(msg)
  BY <1>4, <1>5, <1>6
<1>8. NextMessage(type, buf) = msg
  BY <1>3, <1>7 DEF NextMessage
<1> QED
  BY <1>3, <1>4, <1>5, <1>6, <1>8 DEF buf

\* What is taken from a buffer that holds a whole message is a message, and the rest stays.
LEMMA MessageTaken ==
  ASSUME NEW type \in Types, backend \in Backends, NEW buf \in Seq(Byte), Whole(type, buf)
  PROVE  /\ IsMessage(type, backend, NextMessage(type, buf))
         /\ Drop(buf, Len(NextMessage(type, buf))) \in Seq(Byte)
         /\ Len(NextMessage(type, buf)) <= Len(buf)
         /\ buf = NextMessage(type, buf) \o Drop(buf, Len(NextMessage(type, buf)))
<1> DEFINE h == HeaderLength[backend]
           c == ChecksumLength[backend]
           msg == NextMessage(type, buf)
           meta == h + 1 + MetaLength(type, buf[h + 1])
           data == DataLength(type, buf, h)
           wanted == Wanted(type, backend, buf)
<1>1. h \in {1, 7} /\ c \in {0, 2} /\ MaxAdu[backend] \in Nat
  BY LengthsAre
<1>2. wanted = IF Len(buf) <= h THEN h + 1
               ELSE IF Len(buf) < meta THEN meta ELSE meta + data + c
  BY DEF Wanted
<1>3. ~(wanted > MaxAdu[backend]) /\ Len(buf) >= wanted
  BY DEF Whole, TooLong
<1>4. Len(buf) \in Nat
  OBVIOUS
<1>5. Len(buf) > h
  <2> HIDE DEF h, c, meta, data, wanted
  <2> QED
    BY <1>1, <1>2, <1>3, <1>4
<1>6. meta \in Nat /\ meta >= h + 1 /\ (Len(buf) >= meta => data \in Byte)
  <2>1. /\ MetaLength(type, buf[h + 1]) \in 0 .. 9
        /\ Len(buf) >= h + 1 + MetaLength(type, buf[h + 1]) => DataLength(type, buf, h) \in Byte
    <3> HIDE DEF h
    <3> QED
      BY <1>1, <1>5, LengthsType
  <2> QED
    BY <1>1, <2>1
<1>7. Len(buf) >= meta /\ wanted = meta + data + c
  <2> HIDE DEF h, c, meta, data, wanted
  <2> QED
    BY <1>1, <1>2, <1>3, <1>4, <1>5, <1>6
<1>8. data \in Nat
  BY <1>6, <1>7, ByteIs
<1>9. msg = SubSeq(buf, 1, wanted)
  BY DEF NextMessage
<1>10. wanted \in Nat /\ wanted <= Len(buf) /\ wanted >= meta /\ wanted > h
  <2> HIDE DEF h, c, meta, data, wanted
  <2> QED
    BY <1>1, <1>3, <1>4, <1>6, <1>7, <1>8
<1> HIDE DEF msg, wanted
<1>11. /\ msg \in Seq(Byte) /\ Len(msg) = wanted
       /\ \A i \in 1 .. wanted : msg[i] = buf[i]
  BY <1>4, <1>9, <1>10
<1>12. Drop(buf, wanted) \in Seq(Byte) /\ buf = msg \o Drop(buf, wanted)
  <2>1. SubSeq(buf, 1, wanted) \o SubSeq(buf, wanted + 1, Len(buf)) = SubSeq(buf, 1, Len(buf))
    <3>1. 1 \in 1 .. Len(buf) + 1 /\ wanted \in 1 - 1 .. Len(buf) /\ Len(buf) \in wanted .. Len(buf)
      BY <1>4, <1>10
    <3> QED
      BY <3>1, ConcatAdjacentSubSeq
  <2>2. SubSeq(buf, 1, Len(buf)) = buf
    OBVIOUS
  <2>3. SubSeq(buf, wanted + 1, Len(buf)) \in Seq(Byte)
    BY <1>4, <1>10
  <2> QED
    BY <1>9, <2>1, <2>2, <2>3 DEF Drop
<1>13. msg[h + 1] = buf[h + 1]
  <2> HIDE DEF h
  <2> QED
    BY <1>1, <1>10, <1>11
<1>14. DataLength(type, msg, h) = data
  <2> DEFINE fn == buf[h + 1]
  <2>1. fn \in Int
    <3>1. buf[h + 1] \in Byte
      BY <1>1, <1>4, <1>5
    <3> QED
      BY <3>1, ByteIs
  <2>2. \A i \in 1 .. 10 : i <= 1 + MetaLength(type, fn) => msg[h + i] = buf[h + i]
    <3> DEFINE more == MetaLength(type, fn)
    <3>1. meta = h + 1 + more
      OBVIOUS
    <3>2. more \in Nat
      <4> HIDE DEF h
      <4> QED
        BY <1>1, <1>5, LengthsType
    <3> HIDE DEF meta, h, more
    <3> SUFFICES ASSUME NEW i \in 1 .. 10, i <= 1 + more
                 PROVE  msg[h + i] = buf[h + i]
      BY DEF more
    <3>3. h + i \in 1 .. wanted
      BY <1>1, <1>4, <1>10, <3>1, <3>2
    <3> QED
      BY <1>11, <3>3
  <2> HIDE DEF fn, h
  <2> QED
    BY <1>13, <2>1, <2>2, SameDataLength DEF fn
<1>15. meta = h + 1 + MetaLength(type, msg[h + 1])
  BY <1>13
<1> HIDE DEF h, c, meta, data
<1>16. Len(msg) <= MaxAdu[backend]
  BY <1>1, <1>3, <1>10, <1>11
<1>17. IsMessage(type, backend, msg)
  BY <1>7, <1>10, <1>11, <1>14, <1>15, <1>16 DEF IsMessage, h, c, data
<1> QED
  BY <1>10, <1>11, <1>12, <1>17 DEF msg
-----------------------------------------------------------------------------
\* What is behind what, when bytes are put together.
LEMMA Together ==
  \A s, t \in Seq(Byte) : s \o t \in Seq(Byte) /\ Len(s \o t) = Len(s) + Len(t)
OBVIOUS

\* Two sequences one behind the other: the left one ...
LEMMA TogetherLeft ==
  \A s, t \in Seq(Byte) : \A i \in 1 .. Len(s) : (s \o t)[i] = s[i]
OBVIOUS

\* ... the right one ...
LEMMA TogetherRight ==
  \A s, t \in Seq(Byte) : \A i \in 1 .. Len(t) : (s \o t)[Len(s) + i] = t[i]
OBVIOUS

\* ... and three of them, grouped either way.
LEMMA Regrouped == \A s, t, u \in Seq(Byte) : s \o (t \o u) = (s \o t) \o u
BY ConcatAssociative

\* A frame has its function code and data behind the header.
LEMMA AduType ==
  ASSUME NEW b \in Backends, NEW id \in Uint16, NEW unit \in Byte,
         NEW pdu \in Seq(Byte), Len(pdu) <= 253
  PROVE  /\ Adu(b, id, unit, pdu) \in Seq(Byte)
         /\ Len(Adu(b, id, unit, pdu)) = HeaderLength[b] + Len(pdu) + ChecksumLength[b]
         /\ Adu(b, id, unit, pdu)[HeaderLength[b]] = unit
         /\ \A i \in 1 .. Len(pdu) : Adu(b, id, unit, pdu)[HeaderLength[b] + i] = pdu[i]
<1>1. Len(pdu) \in Nat /\ Len(pdu) + 1 \in Uint16
  BY Uint16Is
<1> DEFINE first == Word(id)
           zeros == <<0, 0>>
           size == Word(Len(pdu) + 1)
           whose == <<unit>>
           adu == Adu(b, id, unit, pdu)
<1>2. first \in Seq(Byte) /\ Len(first) = 2 /\ size \in Seq(Byte) /\ Len(size) = 2
  BY <1>1, WordType
<1>3. zeros \in Seq(Byte) /\ Len(zeros) = 2
  BY ByteIs
<1>4. whose \in Seq(Byte) /\ Len(whose) = 1 /\ whose[1] = unit
  OBVIOUS
<1>5. CASE b = "tcp"
  <2> DEFINE four == first \o zeros
             six == four \o size
             header == six \o whose
  <2>1. adu = header \o pdu
    BY <1>5 DEF Adu
  <2> HIDE DEF first, size, zeros, whose, adu
  <2>2. four \in Seq(Byte) /\ Len(four) = Len(first) + Len(zeros)
    BY <1>2, <1>3, Together, Zenon
  <2> HIDE DEF four
  <2>3. six \in Seq(Byte) /\ Len(six) = Len(four) + Len(size)
    BY <1>2, <2>2, Together, Zenon
  <2> HIDE DEF six
  <2>4. header \in Seq(Byte) /\ Len(header) = Len(six) + Len(whose)
    BY <1>4, <2>3, Together, Zenon
  <2>5. \A i \in 1 .. Len(whose) : header[Len(six) + i] = whose[i]
    BY <1>4, <2>3, TogetherRight, Zenon
  <2> HIDE DEF header
  <2>6. Len(six) = 6 /\ Len(header) = 7 /\ header[7] = unit
    BY <1>2, <1>3, <1>4, <2>2, <2>3, <2>4, <2>5
  <2>7. adu \in Seq(Byte) /\ Len(adu) = Len(header) + Len(pdu)
    BY <2>1, <2>4, Together, Zenon
  <2>8. \A i \in 1 .. Len(header) : adu[i] = header[i]
    BY <2>1, <2>4, TogetherLeft, Zenon
  <2>9. \A i \in 1 .. Len(pdu) : adu[Len(header) + i] = pdu[i]
    BY <2>1, <2>4, TogetherRight, Zenon
  <2>10. HeaderLength[b] = 7 /\ ChecksumLength[b] = 0
    BY <1>5, LengthsAre
  <2>11. /\ Len(adu) = 7 + Len(pdu) + 0 /\ adu[7] = unit
         /\ \A i \in 1 .. Len(pdu) : adu[7 + i] = pdu[i]
    BY <1>1, <2>6, <2>7, <2>8, <2>9
  <2> QED
    BY <2>7, <2>10, <2>11 DEF adu
<1>6. CASE b = "rtu"
  <2> DEFINE plain == whose \o pdu
             sum == <<Crc(plain).lo, Crc(plain).hi>>
  <2>1. adu = plain \o sum
    BY <1>6 DEF Adu, WithCrc
  <2> HIDE DEF whose, adu
  <2>2. plain \in Seq(Byte) /\ Len(plain) = Len(whose) + Len(pdu)
    BY <1>4, Together, Zenon
  <2>3. \A i \in 1 .. Len(whose) : plain[i] = whose[i]
    BY <1>4, TogetherLeft, Zenon
  <2>4. \A i \in 1 .. Len(pdu) : plain[Len(whose) + i] = pdu[i]
    BY <1>4, TogetherRight, Zenon
  <2> HIDE DEF plain
  <2>5. sum \in Seq(Byte) /\ Len(sum) = 2
    BY <2>2, CrcType
  <2> HIDE DEF sum
  <2>6. HeaderLength[b] = 1 /\ ChecksumLength[b] = 2
    BY <1>6, LengthsAre
  <2>7. adu \in Seq(Byte) /\ Len(adu) = Len(plain) + Len(sum)
    BY <2>1, <2>2, <2>5, Together, Zenon
  <2>8. \A i \in 1 .. Len(plain) : adu[i] = plain[i]
    BY <2>1, <2>2, <2>5, TogetherLeft, Zenon
  <2>9. Len(adu) = 1 + Len(pdu) + 2 /\ adu[1] = unit
    BY <1>1, <1>4, <2>2, <2>3, <2>5, <2>7, <2>8
  <2>10. \A i \in 1 .. Len(pdu) : adu[1 + i] = pdu[i]
    BY <1>1, <1>4, <2>2, <2>4, <2>8
  <2> QED
    BY <2>6, <2>7, <2>9, <2>10 DEF adu
<1> QED
  BY <1>5, <1>6 DEF Backends

\* A function code with the data that it announces.
IsPdu(type, pdu) ==
  /\ pdu \in Seq(Byte) /\ Len(pdu) >= 1 /\ Len(pdu) <= 253
  /\ Len(pdu) >= 1 + MetaLength(type, pdu[1])
  /\ Len(pdu) = 1 + MetaLength(type, pdu[1]) + DataLength(type, pdu, 0)

\* What the builders make of a whole PDU is a message to the receiver.
LEMMA FrameIsMessage ==
  ASSUME NEW type \in Types, NEW b \in Backends, NEW id \in Uint16, NEW unit \in Byte,
         NEW pdu, IsPdu(type, pdu)
  PROVE  IsMessage(type, b, Adu(b, id, unit, pdu))
<1> DEFINE h == HeaderLength[b]
           c == ChecksumLength[b]
           adu == Adu(b, id, unit, pdu)
           fn == pdu[1]
           more == MetaLength(type, fn)
<1>1. /\ pdu \in Seq(Byte) /\ Len(pdu) \in Nat /\ Len(pdu) >= 1 /\ Len(pdu) <= 253
      /\ Len(pdu) >= 1 + more
      /\ Len(pdu) = 1 + more + DataLength(type, pdu, 0)
  BY DEF IsPdu
<1>2. /\ adu \in Seq(Byte) /\ Len(adu) = h + Len(pdu) + c
      /\ \A i \in 1 .. Len(pdu) : adu[h + i] = pdu[i]
  BY <1>1, AduType
<1>3. /\ h \in Nat /\ c \in Nat /\ MaxAdu[b] \in Nat
      /\ h + 253 + c = MaxAdu[b]
  BY LengthsAre
<1> HIDE DEF h, c, adu
<1>4. fn \in Int /\ adu[h + 1] = fn
  <2>1. fn \in Byte
    BY <1>1
  <2> QED
    BY <1>1, <1>2, <2>1, ByteIs
<1>5. more \in Nat
  BY <1>1, <1>4, LengthsType, MetaLengthIs DEF Types
<1>6. DataLength(type, adu, h) = DataLength(type, pdu, 0)
  <2> HIDE DEF fn
  <2>1. \A i \in 1 .. 10 : i <= 1 + more => adu[h + i] = pdu[0 + i]
    BY <1>1, <1>2, <1>5
  <2>2. fn = pdu[0 + 1]
    BY DEF fn
  <2> QED
    BY <1>4, <2>1, <2>2, SameDataLength
<1>7. DataLength(type, pdu, 0) \in Int
  <2> DEFINE data == DataLength(type, pdu, 0)
  <2>1. /\ \A i \in 1 .. Len(pdu) : pdu[i] \in Int
    BY <1>1, ByteIs
  <2> HIDE DEF fn
  <2>2. CASE type = "indication"
    <3>1. /\ fn \in {15, 16} => more = 5
          /\ fn = 23 => more = 9
      BY <1>4, <2>2, MetaLengthIs
    <3>2. /\ fn \in {15, 16} => DataLength(type, pdu, 0) = pdu[0 + 6]
          /\ fn = 23 => DataLength(type, pdu, 0) = pdu[0 + 10]
          /\ fn \notin {15, 16, 23} => DataLength(type, pdu, 0) = 0
      BY <1>4, <2>2, DataLengthIs DEF fn
    <3> QED
      BY <1>1, <2>1, <3>1, <3>2
  <2>3. CASE type = "confirmation"
    <3>1. more >= 1
      BY <1>4, <2>3, MetaLengthIs
    <3>2. /\ fn <= 4 \/ fn \in {17, 23} => DataLength(type, pdu, 0) = pdu[0 + 2]
          /\ fn > 4 /\ fn \notin {17, 23} => DataLength(type, pdu, 0) = 0
      BY <1>4, <2>3, DataLengthIs DEF fn
    <3> HIDE DEF more
    <3> QED
      BY <1>1, <1>4, <1>5, <2>1, <3>1, <3>2
  <2> QED
    BY <2>2, <2>3 DEF Types
<1> HIDE DEF more, fn
<1>8. /\ Len(adu) <= MaxAdu[b] /\ Len(adu) > h
      /\ Len(adu) >= h + 1 + more
      /\ Len(adu) = h + 1 + more + DataLength(type, adu, h) + c
  BY <1>1, <1>2, <1>3, <1>5, <1>6, <1>7
<1> QED
  BY <1>2, <1>4, <1>8 DEF IsMessage, h, c, adu, more
-----------------------------------------------------------------------------
\* The cases of the function codes.
LEMMA CodesAre ==
  ASSUME NEW fn
  PROVE  /\ fn \in BitReads <=> fn \in {1, 2}
         /\ fn \in RegisterReads <=> fn \in {3, 4}
         /\ fn \in Singles <=> fn \in {5, 6}
         /\ fn \in Multiples <=> fn \in {15, 16}
         /\ fn \in Functions <=> fn \in {1, 2, 3, 4, 5, 6, 15, 16, 17, 22, 23}
         /\ ReadCoils = 1 /\ ReadDiscreteInputs = 2 /\ ReadHoldingRegisters = 3
         /\ ReadInputRegisters = 4 /\ WriteSingleCoil = 5 /\ WriteSingleRegister = 6
         /\ ReadExceptionStatus = 7 /\ WriteMultipleCoils = 15 /\ WriteMultipleRegisters = 16
         /\ ReportSlaveId = 17 /\ MaskWriteRegister = 22 /\ WriteAndReadRegisters = 23
BY DEF Functions, BitReads, RegisterReads, Singles, Multiples, ReadCoils, ReadDiscreteInputs,
       ReadHoldingRegisters, ReadInputRegisters, WriteSingleCoil, WriteSingleRegister,
       ReadExceptionStatus, WriteMultipleCoils, WriteMultipleRegisters, ReportSlaveId,
       MaskWriteRegister, WriteAndReadRegisters

\* The limits of a read and of a write: modbus.h.
LEMMA MaxesAre ==
  /\ MaxRead(1) = 2000 /\ MaxRead(2) = 2000
  /\ MaxRead(3) = 125 /\ MaxRead(4) = 125 /\ MaxRead(23) = 125
  /\ MaxWrite(15) = 1968 /\ MaxWrite(16) = 123 /\ MaxWrite(23) = 121
<1>1. /\ MaxRead(1) = 2000 /\ MaxRead(2) = 2000
      /\ MaxRead(3) = 125 /\ MaxRead(4) = 125 /\ MaxRead(23) = 125
  BY DEF MaxRead, BitReads, ReadCoils, ReadDiscreteInputs
<1>2. ASSUME NEW fn \in Int
      PROVE  /\ fn = 15 => MaxWrite(fn) = 1968
             /\ fn = 16 => MaxWrite(fn) = 123
             /\ fn = 23 => MaxWrite(fn) = 121
  <2> DEFINE coils == fn = WriteMultipleCoils
             registers == fn = WriteMultipleRegisters
             most == 1968
             many == 123
             rest == 121
  <2>1. (coils <=> fn = 15) /\ (registers <=> fn = 16) /\ (coils => ~registers)
    BY CodesAre
  <2>2. MaxWrite(fn) = CASE coils -> most [] registers -> many [] OTHER -> rest
    BY Zenon DEF MaxWrite
  <2> HIDE DEF coils, registers, most, many, rest
  <2>3. /\ coils => MaxWrite(fn) = most
        /\ registers => MaxWrite(fn) = many
        /\ ~coils /\ ~registers => MaxWrite(fn) = rest
    BY <2>1, <2>2, Zenon
  <2> QED
    BY <2>1, <2>3 DEF most, many, rest
<1> QED
  BY <1>1, <1>2

\* Which block of the mapping a function code is about.
LEMMA BlockOfIs ==
  ASSUME NEW fn
  PROVE  /\ fn \in {1, 5, 15} => BlockOf(fn) = "bits"
         /\ fn = 2 => BlockOf(fn) = "inputBits"
         /\ fn = 4 => BlockOf(fn) = "inputRegisters"
         /\ fn \notin {1, 2, 4, 5, 15} => BlockOf(fn) = "registers"
<1> DEFINE bits == fn \in {ReadCoils, WriteSingleCoil, WriteMultipleCoils}
           inputBits == fn = ReadDiscreteInputs
           inputRegisters == fn = ReadInputRegisters
<1>1. /\ bits <=> fn \in {1, 5, 15}
      /\ inputBits <=> fn = 2
      /\ inputRegisters <=> fn = 4
  BY CodesAre
<1>2. BlockOf(fn) = CASE bits -> "bits" [] inputBits -> "inputBits"
                      [] inputRegisters -> "inputRegisters" [] OTHER -> "registers"
  BY Zenon DEF BlockOf
<1>3. (bits => ~inputBits /\ ~inputRegisters) /\ (inputBits => ~inputRegisters)
  BY <1>1
<1> HIDE DEF bits, inputBits, inputRegisters
<1>4. /\ bits => BlockOf(fn) = "bits"
      /\ inputBits => BlockOf(fn) = "inputBits"
      /\ inputRegisters => BlockOf(fn) = "inputRegisters"
      /\ ~bits /\ ~inputBits /\ ~inputRegisters => BlockOf(fn) = "registers"
  BY <1>2, <1>3, Zenon
<1> QED
  BY <1>1, <1>4

\* What a legal request says.
LEMMA LegalNumberIs ==
  ASSUME NEW req, NEW h, LegalNumber(req, h)
  PROVE  /\ req[h + 1] \in {1, 2} => Number(req, h) \in 1 .. 2000
         /\ req[h + 1] \in {3, 4} => Number(req, h) \in 1 .. 125
         /\ req[h + 1] = 15 => Number(req, h) \in 1 .. 1968 /\ 8 * req[h + 6] >= Number(req, h)
         /\ req[h + 1] = 16 => Number(req, h) \in 1 .. 123 /\ req[h + 6] = 2 * Number(req, h)
         /\ req[h + 1] = 23 => /\ Number(req, h) \in 1 .. 125 /\ WriteNumber(req, h) \in 1 .. 121
                       /\ req[h + 10] = 2 * WriteNumber(req, h)
<1> DEFINE fn == req[h + 1]
           nb == Number(req, h)
           reads == fn \in BitReads \cup RegisterReads
           coils == fn = WriteMultipleCoils
           registers == fn = WriteMultipleRegisters
           both == fn = WriteAndReadRegisters
           legalCoils == nb \in 1 .. MaxWrite(fn) /\ 8 * req[h + 6] >= nb
           legalRegisters == nb \in 1 .. MaxWrite(fn) /\ req[h + 6] = 2 * nb
           legalBoth == /\ nb \in 1 .. MaxRead(fn)
                        /\ WriteNumber(req, h) \in 1 .. MaxWrite(fn)
                        /\ req[h + 10] = 2 * WriteNumber(req, h)
           legalReads == nb \in 1 .. MaxRead(fn)
<1>1. /\ reads <=> fn \in {1, 2, 3, 4}
      /\ coils <=> fn = 15
      /\ registers <=> fn = 16
      /\ both <=> fn = 23
  BY CodesAre
<1>2. /\ reads => ~coils /\ ~registers /\ ~both
      /\ coils => ~registers /\ ~both
      /\ registers => ~both
  BY <1>1
<1>3. (CASE reads -> legalReads [] coils -> legalCoils [] registers -> legalRegisters
         [] both -> legalBoth [] OTHER -> TRUE)
  BY Zenon DEF LegalNumber, Function
<1> HIDE DEF reads, coils, registers, both, legalReads, legalCoils, legalRegisters, legalBoth
<1>4. /\ reads => legalReads
      /\ coils => legalCoils
      /\ registers => legalRegisters
      /\ both => legalBoth
  BY <1>2, <1>3, Zenon
<1> HIDE DEF nb
<1>5. ASSUME fn \in {1, 2, 3, 4} PROVE nb \in 1 .. MaxRead(fn)
  BY <1>1, <1>4, <1>5 DEF legalReads
<1>6. ASSUME fn = 15 PROVE nb \in 1 .. MaxWrite(fn) /\ 8 * req[h + 6] >= nb
  <2>1. legalCoils
    BY <1>1, <1>4, <1>6
  <2> QED
    BY <2>1, Zenon DEF legalCoils
<1>7. ASSUME fn = 16 PROVE nb \in 1 .. MaxWrite(fn) /\ req[h + 6] = 2 * nb
  <2>1. legalRegisters
    BY <1>1, <1>4, <1>7
  <2> QED
    BY <2>1, Zenon DEF legalRegisters
<1>8. ASSUME fn = 23
      PROVE  /\ nb \in 1 .. MaxRead(fn) /\ WriteNumber(req, h) \in 1 .. MaxWrite(fn)
             /\ req[h + 10] = 2 * WriteNumber(req, h)
  <2>1. legalBoth
    BY <1>1, <1>4, <1>8
  <2> QED
    BY <2>1, Zenon DEF legalBoth
<1>9. /\ fn \in {1, 2} => nb \in 1 .. 2000
      /\ fn \in {3, 4} => nb \in 1 .. 125
  BY <1>5, MaxesAre
<1>10. fn = 15 => nb \in 1 .. 1968 /\ 8 * req[h + 6] >= nb
  BY <1>6, MaxesAre
<1>11. fn = 16 => nb \in 1 .. 123 /\ req[h + 6] = 2 * nb
  BY <1>7, MaxesAre
<1>12. fn = 23 => /\ nb \in 1 .. 125 /\ WriteNumber(req, h) \in 1 .. 121
                  /\ req[h + 10] = 2 * WriteNumber(req, h)
  BY <1>8, MaxesAre
<1> QED
  BY <1>9, <1>10, <1>11, <1>12 DEF nb

\* What the server has checked about addresses when it goes on to answer.
LEMMA LegalAddressIs ==
  ASSUME NEW req, NEW h, NEW block, LegalAddress(req, h, block)
  PROVE  /\ req[h + 1] \in {1, 2, 3, 4, 15, 16} => Covers(block, Address(req, h), Number(req, h))
         /\ req[h + 1] \in {5, 6, 22} => Address(req, h) \in DOMAIN block
         /\ req[h + 1] = 23 => /\ Covers(block, Address(req, h), Number(req, h))
                       /\ Covers(block, WriteAddress(req, h), WriteNumber(req, h))
<1> DEFINE fn == req[h + 1]
           many == fn \in BitReads \cup RegisterReads \cup Multiples
           one == fn \in Singles \cup {MaskWriteRegister}
           both == fn = WriteAndReadRegisters
           covers == Covers(block, Address(req, h), Number(req, h))
           within == Address(req, h) \in DOMAIN block
           coversBoth == covers /\ Covers(block, WriteAddress(req, h), WriteNumber(req, h))
<1>1. /\ many <=> fn \in {1, 2, 3, 4, 15, 16}
      /\ one <=> fn \in {5, 6, 22}
      /\ both <=> fn = 23
  BY CodesAre
<1>2. (many => ~one /\ ~both) /\ (one => ~both)
  BY <1>1
<1>3. (CASE many -> covers [] one -> within [] both -> coversBoth [] OTHER -> TRUE)
  BY Zenon DEF LegalAddress, Function
<1> HIDE DEF many, one, both, within, coversBoth, covers
<1>4. (many => covers) /\ (one => within) /\ (both => coversBoth)
  BY <1>2, <1>3, Zenon
<1> QED
  BY <1>1, <1>4 DEF within, coversBoth, covers

\* What a request leaves in its block.
LEMMA WrittenIs ==
  ASSUME NEW req, NEW h, NEW block
  PROVE  /\ req[h + 1] = 5 => Written(req, h, block) =
                        [block EXCEPT ![Address(req, h)] = IF Number(req, h) = 0 THEN 0 ELSE 1]
         /\ req[h + 1] = 6 => Written(req, h, block) = [block EXCEPT ![Address(req, h)] = Number(req, h)]
         /\ req[h + 1] = 15 => Written(req, h, block) =
              Overwritten(block, Address(req, h),
                          Unpacked(SubSeq(req, h + 7, Len(req)), Number(req, h)))
         /\ req[h + 1] = 16 => Written(req, h, block) =
              Overwritten(block, Address(req, h), WordsAt(req, h + 7, Number(req, h)))
         /\ req[h + 1] = 22 => Written(req, h, block) =
              [block EXCEPT ![Address(req, h)] =
                 Masked(block[Address(req, h)], WordAt(req, h + 4), WordAt(req, h + 6))]
         /\ req[h + 1] = 23 => Written(req, h, block) =
              Overwritten(block, WriteAddress(req, h), WordsAt(req, h + 11, WriteNumber(req, h)))
         /\ req[h + 1] \notin {5, 6, 15, 16, 22, 23} => Written(req, h, block) = block
<1> DEFINE fn == req[h + 1]
           coil == fn = WriteSingleCoil
           register == fn = WriteSingleRegister
           coils == fn = WriteMultipleCoils
           registers == fn = WriteMultipleRegisters
           mask == fn = MaskWriteRegister
           both == fn = WriteAndReadRegisters
           addr == Address(req, h)
           new5 == [block EXCEPT ![addr] = IF Number(req, h) = 0 THEN 0 ELSE 1]
           new6 == [block EXCEPT ![addr] = Number(req, h)]
           new15 == Overwritten(block, addr, Unpacked(SubSeq(req, h + 7, Len(req)), Number(req, h)))
           new16 == Overwritten(block, addr, WordsAt(req, h + 7, Number(req, h)))
           new22 == [block EXCEPT ![addr] = Masked(block[addr], WordAt(req, h + 4), WordAt(req, h + 6))]
           new23 == Overwritten(block, WriteAddress(req, h), WordsAt(req, h + 11, WriteNumber(req, h)))
<1>1. /\ coil <=> fn = 5
      /\ register <=> fn = 6
      /\ coils <=> fn = 15
      /\ registers <=> fn = 16
      /\ mask <=> fn = 22
      /\ both <=> fn = 23
  BY CodesAre
<1>2. /\ coil => ~register /\ ~coils /\ ~registers /\ ~mask /\ ~both
      /\ register => ~coils /\ ~registers /\ ~mask /\ ~both
      /\ coils => ~registers /\ ~mask /\ ~both
      /\ registers => ~mask /\ ~both
      /\ mask => ~both
  BY <1>1
<1>3. Written(req, h, block) =
        CASE coil -> new5 [] register -> new6 [] coils -> new15 [] registers -> new16
          [] mask -> new22 [] both -> new23 [] OTHER -> block
  BY Zenon DEF Written, Function
<1> HIDE DEF coil, register, coils, registers, mask, both, new5, new6, new15, new16, new22, new23
<1>4. /\ coil => Written(req, h, block) = new5
      /\ register => Written(req, h, block) = new6
      /\ coils => Written(req, h, block) = new15
  BY <1>2, <1>3, Zenon
<1>5. /\ registers => Written(req, h, block) = new16
      /\ mask => Written(req, h, block) = new22
      /\ both => Written(req, h, block) = new23
  BY <1>2, <1>3, Zenon
<1>6. ~coil /\ ~register /\ ~coils /\ ~registers /\ ~mask /\ ~both => Written(req, h, block) = block
  BY <1>3, Zenon
<1> QED
  BY <1>1, <1>4, <1>5, <1>6 DEF new5, new6, new15, new16, new22, new23

\* The values of a block of a mapping, before and after a request.
Values(name) == IF name \in {"bits", "inputBits"} THEN {0, 1} ELSE Uint16

\* A function on an interval from 1 is a sequence.
LEMMA FunctionIsSeq ==
  ASSUME NEW V, NEW n \in Nat, NEW f \in [1 .. n -> V]
  PROVE  f \in Seq(V) /\ Len(f) = n
OBVIOUS

\* Writing values into a block keeps its addresses and its kind of values.
LEMMA OverwrittenType ==
  ASSUME NEW D, NEW V, NEW block \in [D -> V], NEW addr \in Nat, NEW n \in Nat,
         NEW values \in [1 .. n -> V]
  PROVE  Overwritten(block, addr, values) \in [D -> V]
<1>1. Len(values) = n
  OBVIOUS
<1>2. ASSUME NEW a \in D, a \in addr .. addr + n - 1
      PROVE  values[a - addr + 1] \in V
  <2>1. a - addr + 1 \in 1 .. n
    BY <1>2
  <2> QED
    BY <2>1
<1>3. Overwritten(block, addr, values) =
        [a \in D |-> IF a \in addr .. addr + n - 1 THEN values[a - addr + 1] ELSE block[a]]
  BY <1>1 DEF Overwritten
<1> QED
  BY <1>2, <1>3

\* Reading inside a block yields as many values as are asked for.
LEMMA SliceType ==
  ASSUME NEW D, NEW V, NEW block \in [D -> V], NEW addr \in Nat, NEW nb \in Nat,
         Covers(block, addr, nb)
  PROVE  Slice(block, addr, nb) \in Seq(V) /\ Len(Slice(block, addr, nb)) = nb
<1>1. \A i \in 1 .. nb : addr + i - 1 \in D
  <2>1. addr .. addr + nb - 1 \subseteq D
    BY DEF Covers
  <2>2. \A i \in 1 .. nb : addr + i - 1 \in addr .. addr + nb - 1
    OBVIOUS
  <2> QED
    BY <2>1, <2>2
<1>2. Slice(block, addr, nb) \in [1 .. nb -> V]
  BY <1>1 DEF Slice
<1> QED
  BY <1>2, FunctionIsSeq

\* Registers read inside a message are 16-bit numbers.
LEMMA WordsAtType ==
  ASSUME NEW msg \in Seq(Byte), NEW i \in Nat, NEW nb \in Nat,
         i >= 1, i + 2 * nb - 1 <= Len(msg)
  PROVE  WordsAt(msg, i, nb) \in [1 .. nb -> Uint16]
<1>1. ASSUME NEW k \in 1 .. nb
      PROVE  WordAt(msg, i + 2 * (k - 1)) \in Uint16
  <2>1. i + 2 * (k - 1) \in 1 .. Len(msg) - 1
    OBVIOUS
  <2> QED
    BY <2>1, WordAtType
<1> QED
  BY <1>1 DEF WordsAt

\* A masked register is a 16-bit number.
LEMMA MaskedType ==
  ASSUME NEW old \in Uint16, NEW mask \in Uint16, NEW other \in Uint16
  PROVE  Masked(old, mask, other) \in Uint16
<1> DEFINE Bits(w) == Unpacked(<<w % 256, w \div 256>>, 16)
           bits == [i \in 1 .. 16 |-> IF Bits(mask)[i] = 1 THEN Bits(old)[i] ELSE Bits(other)[i]]
           bytes == Packed(bits)
<1>1. ASSUME NEW w \in Uint16 PROVE Bits(w) \in [1 .. 16 -> {0, 1}]
  <2> DEFINE both == <<w % 256, w \div 256>>
  <2>1. w % 256 \in Int /\ w \div 256 \in Int
    BY WordType, ByteIs
  <2>2. \A i \in 1 .. 16 : (i + 7) \div 8 \in {1, 2}
    OBVIOUS
  <2>3. both[1] \in Int /\ both[2] \in Int
    BY <2>1
  <2> HIDE DEF both
  <2>4. \A i \in 1 .. 16 : both[(i + 7) \div 8] \in Int
    BY <2>2, <2>3
  <2> QED
    BY <2>4, UnpackedType DEF both
<1>2. bits \in [1 .. 16 -> {0, 1}]
  <2>1. Bits(mask) \in [1 .. 16 -> {0, 1}] /\ Bits(old) \in [1 .. 16 -> {0, 1}]
        /\ Bits(other) \in [1 .. 16 -> {0, 1}]
    BY <1>1
  <2> HIDE DEF Bits
  <2> QED
    BY <2>1
<1> HIDE DEF bits
<1>3. bits \in Seq({0, 1}) /\ Len(bits) = 16
  BY <1>2, FunctionIsSeq
<1>4. BytesFor(16) = 2
  BY DEF BytesFor
<1>5. bytes \in Seq(Byte) /\ Len(bytes) = 2
  BY <1>3, <1>4, PackedType
<1> HIDE DEF bytes
<1>6. bytes[1] \in Byte /\ bytes[2] \in Byte
  <2>1. 1 \in 1 .. Len(bytes) /\ 2 \in 1 .. Len(bytes)
    BY <1>5
  <2> QED
    BY <1>5, <2>1, ElementOfSeq, Zenon
<1>7. 256 * bytes[2] + bytes[1] \in Uint16
  BY <1>6, BytesMakeWord
<1> QED
  BY <1>7, Zenon DEF Masked, Bits, bits, bytes

\* The length of a request by its function code.
LEMMA RequestShape ==
  ASSUME NEW b \in Backends, NEW req, IsMessage("indication", b, req),
         NEW h, h = HeaderLength[b], NEW c, c = ChecksumLength[b]
  PROVE  /\ h \in {1, 7} /\ c \in {0, 2} /\ req \in Seq(Byte) /\ req[h + 1] \in Byte /\ req[h + 1] \in Int
         /\ Len(req) \in Nat /\ Len(req) >= h + 1 /\ Len(req) <= 260
         /\ req[h + 1] <= 6 => Len(req) = h + 5 + c
         /\ req[h + 1] \in {15, 16} => Len(req) = h + 6 + req[h + 6] + c /\ req[h + 6] \in Nat
         /\ req[h + 1] = 22 => Len(req) = h + 7 + c
         /\ req[h + 1] = 23 => Len(req) = h + 10 + req[h + 10] + c /\ req[h + 10] \in Nat
         /\ req[h + 1] > 6 /\ req[h + 1] \notin {15, 16, 22, 23} => Len(req) = h + 1 + c
<1> DEFINE fn == req[h + 1]
           meta == MetaLength("indication", fn)
           data == DataLength("indication", req, h)
<1>1. h \in {1, 7} /\ c \in {0, 2} /\ MaxAdu[b] \in Nat /\ MaxAdu[b] <= 260
  BY LengthsAre
<1>2. /\ req \in Seq(Byte) /\ Len(req) > h /\ Len(req) <= MaxAdu[b]
      /\ Len(req) >= h + 1 + meta /\ Len(req) = h + 1 + meta + data + c
  BY DEF IsMessage
<1>3. fn \in Byte /\ fn \in Int /\ 0 <= fn
  <2>1. req[h + 1] \in Byte
    BY <1>1, <1>2
  <2> QED
    BY <2>1, ByteIs
<1>4. Len(req) \in Nat
  BY <1>2
<1>5. /\ fn <= 6 => meta = 4
      /\ fn \in {15, 16} => meta = 5
      /\ fn = 22 => meta = 6
      /\ fn = 23 => meta = 9
      /\ fn > 6 /\ fn \notin {15, 16, 22, 23} => meta = 0
  BY <1>3, MetaLengthIs
<1>6. /\ fn \in {15, 16} => data = req[h + 6]
      /\ fn = 23 => data = req[h + 10]
      /\ fn \notin {15, 16, 23} => data = 0
  BY <1>3, DataLengthIs
<1> HIDE DEF meta, data
<1>7. /\ fn \in {15, 16} => req[h + 6] \in Nat
      /\ fn = 23 => req[h + 10] \in Nat
  <2>1. ASSUME NEW i \in 1 .. Len(req) PROVE req[i] \in Nat
    <3>1. req[i] \in Byte
      BY <1>2, <2>1
    <3> QED
      BY <3>1, ByteIs
  <2>2. fn \in {15, 16} => h + 6 \in 1 .. Len(req)
    BY <1>1, <1>2, <1>4, <1>5
  <2>3. fn = 23 => h + 10 \in 1 .. Len(req)
    BY <1>1, <1>2, <1>4, <1>5
  <2> QED
    BY <2>1, <2>2, <2>3
<1>8. Len(req) >= h + 1 /\ Len(req) <= 260
  BY <1>1, <1>2, <1>4
<1>9. fn <= 6 => Len(req) = h + 5 + c
  BY <1>1, <1>2, <1>3, <1>5, <1>6
<1>10. fn \in {15, 16} => Len(req) = h + 6 + req[h + 6] + c
  BY <1>1, <1>2, <1>5, <1>6, <1>7
<1>11. fn = 22 => Len(req) = h + 7 + c
  BY <1>1, <1>2, <1>5, <1>6
<1>12. fn = 23 => Len(req) = h + 10 + req[h + 10] + c
  BY <1>1, <1>2, <1>5, <1>6, <1>7
<1>13. fn > 6 /\ fn \notin {15, 16, 22, 23} => Len(req) = h + 1 + c
  BY <1>1, <1>2, <1>5, <1>6
<1> QED
  BY <1>1, <1>2, <1>3, <1>4, <1>7, <1>8, <1>9, <1>10, <1>11, <1>12, <1>13

\* The addresses and numbers in a request, where it has them.
LEMMA ArgumentsType ==
  ASSUME NEW b \in Backends, NEW req, IsMessage("indication", b, req),
         NEW h, h = HeaderLength[b]
  PROVE  /\ req[h + 1] \in {1, 2, 3, 4, 5, 6, 15, 16, 22, 23} =>
              Address(req, h) \in Uint16 /\ Number(req, h) \in Uint16
         /\ req[h + 1] = 22 => WordAt(req, h + 4) \in Uint16 /\ WordAt(req, h + 6) \in Uint16
         /\ req[h + 1] = 23 => WriteAddress(req, h) \in Uint16 /\ WriteNumber(req, h) \in Uint16
<1> DEFINE c == ChecksumLength[b]
           n == Len(req)
           fn == req[h + 1]
<1>1. h \in Nat /\ h >= 1 /\ c \in Nat /\ req \in Seq(Byte) /\ n \in Nat
  BY RequestShape
<1>2. ASSUME NEW i \in Nat, i >= 2, h + i + 1 <= n PROVE WordAt(req, h + i) \in Uint16
  <2>1. h + i \in 1 .. Len(req) - 1
    BY <1>1, <1>2
  <2> QED
    BY <1>1, <2>1, WordAtType
<1>3. ASSUME fn <= 6 PROVE n >= h + 5
  <2>1. n = h + 5 + c
    BY <1>3, RequestShape
  <2> HIDE DEF c, n
  <2> QED
    BY <1>1, <2>1
<1>4. ASSUME fn \in {15, 16} PROVE n >= h + 6
  <2> DEFINE size == req[h + 6]
  <2>1. n = h + 6 + size + c /\ size \in Nat
    BY <1>4, RequestShape
  <2> HIDE DEF c, n, size
  <2> QED
    BY <1>1, <2>1
<1>5. ASSUME fn = 22 PROVE n >= h + 7
  <2>1. n = h + 7 + c
    BY <1>5, RequestShape
  <2> HIDE DEF c, n
  <2> QED
    BY <1>1, <2>1
<1>6. ASSUME fn = 23 PROVE n >= h + 10
  <2> DEFINE size == req[h + 10]
  <2>1. n = h + 10 + size + c /\ size \in Nat
    BY <1>6, RequestShape
  <2> HIDE DEF c, n, size
  <2> QED
    BY <1>1, <2>1
<1>7. ASSUME fn \in {1, 2, 3, 4, 5, 6, 15, 16, 22, 23}
      PROVE  WordAt(req, h + 2) \in Uint16 /\ WordAt(req, h + 4) \in Uint16
  <2> HIDE DEF fn, n, c
  <2>1. n >= h + 5
    BY <1>1, <1>3, <1>4, <1>5, <1>6, <1>7
  <2> QED
    BY <1>1, <1>2, <2>1
<1>8. ASSUME fn \in {22, 23} PROVE WordAt(req, h + 6) \in Uint16
  <2> HIDE DEF fn, n, c
  <2>1. n >= h + 7
    BY <1>1, <1>5, <1>6, <1>8
  <2> QED
    BY <1>1, <1>2, <2>1
<1>9. ASSUME fn = 23 PROVE WordAt(req, h + 8) \in Uint16
  <2> HIDE DEF fn, n, c
  <2>1. n >= h + 10
    BY <1>1, <1>6, <1>9
  <2> QED
    BY <1>1, <1>2, <2>1
<1> QED
  BY <1>7, <1>8, <1>9 DEF Address, Number, WriteAddress, WriteNumber

\* Replacing one value of a block keeps its addresses and its kind of values.
LEMMA ReplacedType ==
  ASSUME NEW D, NEW V, NEW block \in [D -> V], NEW a, NEW v \in V
  PROVE  [block EXCEPT ![a] = v] \in [D -> V]
OBVIOUS

\* What lies inside the end of a message is a byte.
LEMMA TailByte ==
  ASSUME NEW s \in Seq(Byte), NEW i \in Nat, i >= 1, NEW k \in Nat, k >= 1, i + k - 1 <= Len(s)
  PROVE  SubSeq(s, i, Len(s))[k] \in Byte
<1>1. i + k - 1 \in 1 .. Len(s) /\ k \in 1 .. Len(s) - i + 1
  OBVIOUS
<1>2. s[i + k - 1] \in Byte
  BY <1>1, ElementOfSeq, Zenon
<1>3. SubSeq(s, i, Len(s))[k] = s[i + k - 1]
  BY <1>1
<1> QED
  BY <1>2, <1>3

\* Writing one coil keeps the block a block of bits.
LEMMA CoilWritten ==
  ASSUME NEW req, NEW h, req[h + 1] = 5, NEW D, NEW block \in [D -> {0, 1}]
  PROVE  Written(req, h, block) \in [D -> {0, 1}]
<1>1. Written(req, h, block) = [block EXCEPT ![Address(req, h)] = IF Number(req, h) = 0 THEN 0 ELSE 1]
  BY WrittenIs
<1> QED
  BY <1>1

\* Writing one register keeps the block a block of registers.
LEMMA RegisterWritten ==
  ASSUME NEW req, NEW h, req[h + 1] = 6, NEW D, NEW block \in [D -> Uint16],
         Number(req, h) \in Uint16
  PROVE  Written(req, h, block) \in [D -> Uint16]
<1>1. Written(req, h, block) = [block EXCEPT ![Address(req, h)] = Number(req, h)]
  BY WrittenIs
<1> QED
  BY <1>1, ReplacedType

\* So does masking one.
LEMMA MaskWritten ==
  ASSUME NEW req, NEW h, req[h + 1] = 22, NEW D, NEW block \in [D -> Uint16],
         Address(req, h) \in D, WordAt(req, h + 4) \in Uint16, WordAt(req, h + 6) \in Uint16
  PROVE  Written(req, h, block) \in [D -> Uint16]
<1> DEFINE value == Masked(block[Address(req, h)], WordAt(req, h + 4), WordAt(req, h + 6))
<1>1. Written(req, h, block) = [block EXCEPT ![Address(req, h)] = value]
  BY WrittenIs
<1>2. value \in Uint16
  BY MaskedType
<1> HIDE DEF value
<1> QED
  BY <1>1, <1>2, ReplacedType

\* Whatever a request writes, its block keeps its addresses and its kind of values.
LEMMA WrittenType ==
  ASSUME NEW b \in Backends, NEW req, IsMessage("indication", b, req),
         NEW h, h = HeaderLength[b], LegalNumber(req, h),
         NEW D, NEW block \in [D -> Values(BlockOf(req[h + 1]))], LegalAddress(req, h, block)
  PROVE  Written(req, h, block) \in [D -> Values(BlockOf(req[h + 1]))]
<1> DEFINE c == ChecksumLength[b]
           n == Len(req)
           addr == Address(req, h)
           nb == Number(req, h)
           new == Written(req, h, block)
           V == Values(BlockOf(req[h + 1]))
<1>1. h \in Nat /\ h >= 1 /\ c \in Nat /\ req \in Seq(Byte) /\ n \in Nat
  BY RequestShape
<1>2. req[h + 1] \in {5, 6, 15, 16, 22} => addr \in Nat /\ nb \in Uint16
  BY ArgumentsType, Uint16Is
<1>3. CASE req[h + 1] = 5
  <2>1. V = {0, 1}
    BY <1>3, BlockOfIs DEF Values
  <2> QED
    BY <1>3, <2>1, CoilWritten
<1>4. CASE req[h + 1] = 6
  <2>1. V = Uint16
    BY <1>4, BlockOfIs DEF Values
  <2> QED
    BY <1>2, <1>4, <2>1, RegisterWritten
<1>5. CASE req[h + 1] = 15
  <2> DEFINE bytes == SubSeq(req, h + 7, Len(req))
             size == req[h + 6]
             values == Unpacked(bytes, nb)
  <2>1. V = {0, 1}
    BY <1>5, BlockOfIs DEF Values
  <2>2. nb \in Nat /\ 8 * size >= nb
    <3>1. nb \in 1 .. 1968 /\ 8 * size >= nb
      BY <1>5, LegalNumberIs
    <3> HIDE DEF nb, size
    <3> QED
      BY <3>1
  <2>3. n = h + 6 + size + c /\ size \in Nat
    BY <1>5, RequestShape
  <2>4. new = Overwritten(block, addr, values)
    BY <1>5, WrittenIs
  <2>5. addr \in Nat
    BY <1>2, <1>5
  <2> HIDE DEF c, n, size, nb, addr, bytes, new
  <2>6. size >= BytesFor(nb) /\ BytesFor(nb) \in Nat
    BY <2>2, <2>3, BytesForBounds
  <2>7. ASSUME NEW k \in 1 .. BytesFor(nb) PROVE bytes[k] \in Int
    <3> DEFINE most == BytesFor(nb)
    <3>1. most \in Nat /\ k \in 1 .. most /\ size >= most
      BY <2>6
    <3> HIDE DEF most
    <3>2. k \in Nat /\ k >= 1 /\ k <= size
      BY <2>3, <3>1
    <3>3. h + 7 \in Nat /\ h + 7 >= 1
      BY <1>1
    <3>5. h + 7 + k - 1 <= n
      <4>1. h \in Nat /\ c \in Nat
        BY <1>1
      <4>2. n = h + 6 + size + c /\ size \in Nat
        BY <2>3
      <4> QED
        BY <3>2, <4>1, <4>2
    <3>4. bytes[k] \in Byte
      BY <1>1, <3>2, <3>3, <3>5, TailByte DEF bytes, n
    <3> QED
      BY <3>4, ByteIs
  <2>8. \A i \in 1 .. nb : bytes[(i + 7) \div 8] \in Int
    <3>1. \A i \in 1 .. nb : (i + 7) \div 8 \in 1 .. BytesFor(nb)
      BY <2>2, BytesForBounds
    <3> QED
      BY <2>7, <3>1
  <2>9. values \in [1 .. nb -> {0, 1}]
    BY <2>2, <2>8, UnpackedType
  <2> HIDE DEF values
  <2>10. new \in [D -> V]
    <3> HIDE DEF V
    <3>1. block \in [D -> V]
      BY DEF V
    <3> QED
      BY <2>1, <2>2, <2>4, <2>5, <2>9, <3>1, OverwrittenType
  <2> QED
    BY <2>10 DEF new
<1>6. CASE req[h + 1] = 16
  <2> DEFINE values == WordsAt(req, h + 7, nb)
             size == req[h + 6]
  <2>1. V = Uint16
    BY <1>6, BlockOfIs DEF Values
  <2>2. nb \in Nat /\ size = 2 * nb
    <3>1. nb \in 1 .. 123 /\ size = 2 * nb
      BY <1>6, LegalNumberIs
    <3> HIDE DEF nb, size
    <3> QED
      BY <3>1
  <2>3. n = h + 6 + size + c /\ size \in Nat
    BY <1>6, RequestShape
  <2>4. new = Overwritten(block, addr, values)
    BY <1>6, WrittenIs
  <2>5. addr \in Nat
    BY <1>2, <1>6
  <2> HIDE DEF c, size, nb, addr, new
  <2>6. h + 7 \in Nat /\ h + 7 >= 1 /\ h + 7 + 2 * nb - 1 <= Len(req)
    BY <1>1, <2>2, <2>3
  <2>7. values \in [1 .. nb -> Uint16]
    BY <1>1, <2>2, <2>6, WordsAtType
  <2> HIDE DEF values
  <2>8. new \in [D -> V]
    <3> HIDE DEF V
    <3>1. block \in [D -> V]
      BY DEF V
    <3> QED
      BY <2>1, <2>2, <2>4, <2>5, <2>7, <3>1, OverwrittenType
  <2> QED
    BY <2>8 DEF new
<1>7. CASE req[h + 1] = 22
  <2>1. V = Uint16
    BY <1>7, BlockOfIs DEF Values
  <2>2. Address(req, h) \in D
    BY <1>7, LegalAddressIs
  <2>3. WordAt(req, h + 4) \in Uint16 /\ WordAt(req, h + 6) \in Uint16
    BY <1>7, ArgumentsType
  <2> QED
    BY <1>7, <2>1, <2>2, <2>3, MaskWritten
<1>8. CASE req[h + 1] = 23
  <2> DEFINE wn == WriteNumber(req, h)
             values == WordsAt(req, h + 11, wn)
             size == req[h + 10]
             at == WriteAddress(req, h)
  <2>1. V = Uint16
    BY <1>8, BlockOfIs DEF Values
  <2>2. wn \in Nat /\ size = 2 * wn
    <3>1. wn \in 1 .. 121
      BY <1>8, LegalNumberIs
    <3>2. size = 2 * wn
      BY <1>8, LegalNumberIs
    <3> HIDE DEF wn, size
    <3> QED
      BY <3>1, <3>2
  <2>3. n = h + 10 + size + c /\ size \in Nat
    BY <1>8, RequestShape
  <2>4. new = Overwritten(block, at, values)
    BY <1>8, WrittenIs
  <2>5. at \in Nat
    BY <1>8, ArgumentsType, Uint16Is
  <2> HIDE DEF c, size, wn, at, new
  <2>6. h + 11 \in Nat /\ h + 11 >= 1 /\ h + 11 + 2 * wn - 1 <= Len(req)
    BY <1>1, <2>2, <2>3
  <2>7. values \in [1 .. wn -> Uint16]
    BY <1>1, <2>2, <2>6, WordsAtType
  <2> HIDE DEF values
  <2>8. new \in [D -> V]
    <3> HIDE DEF V
    <3>1. block \in [D -> V]
      BY DEF V
    <3> QED
      BY <2>1, <2>2, <2>4, <2>5, <2>7, <3>1, OverwrittenType
  <2> QED
    BY <2>8 DEF new
<1>9. CASE req[h + 1] \notin {5, 6, 15, 16, 22, 23}
  <2>1. new = block
    BY <1>9, WrittenIs
  <2> QED
    BY <2>1
<1> QED
  BY <1>3, <1>4, <1>5, <1>6, <1>7, <1>8, <1>9

\* The answers: those that say how many bytes follow, and those of a fixed length.
LEMMA AnnouncedPdu ==
  ASSUME NEW fn \in {1, 2, 3, 4, 23}, NEW size \in Nat, size <= 250,
         NEW data \in Seq(Byte), Len(data) = size
  PROVE  IsPdu("confirmation", <<fn, size>> \o data) /\ (<<fn, size>> \o data)[1] = fn
<1> DEFINE head == <<fn, size>>
           pdu == head \o data
<1>1. head \in Seq(Byte) /\ Len(head) = 2 /\ head[1] = fn /\ head[2] = size
  <2>1. fn \in Byte /\ size \in Byte
    BY ByteIs
  <2> QED
    BY <2>1
<1> HIDE DEF head
<1>2. pdu \in Seq(Byte) /\ Len(pdu) = Len(head) + Len(data)
  BY <1>1, Together, Zenon
<1>3. pdu[1] = head[1] /\ pdu[2] = head[2]
  <2>1. 1 \in 1 .. Len(head) /\ 2 \in 1 .. Len(head)
    BY <1>1
  <2> QED
    BY <1>1, <2>1, TogetherLeft, Zenon
<1> HIDE DEF pdu
<1>4. MetaLength("confirmation", pdu[1]) = 1
  BY <1>1, <1>3, MetaLengthIs
<1>5. DataLength("confirmation", pdu, 0) = size
  <2>1. fn \in Int /\ fn = pdu[0 + 1] /\ pdu[0 + 2] = size
    BY <1>1, <1>3
  <2> QED
    BY <2>1, DataLengthIs
<1>6. IsPdu("confirmation", pdu)
  BY <1>1, <1>2, <1>4, <1>5 DEF IsPdu
<1> QED
  BY <1>1, <1>3, <1>6 DEF pdu, head

\* A response of a fixed length is whole.
LEMMA ShortPdu ==
  ASSUME NEW pdu \in Seq(Byte), NEW fn \in Int, fn > 4, fn \notin {17, 23}, Len(pdu) >= 1,
         fn = pdu[1], Len(pdu) = 1 + MetaLength("confirmation", fn)
  PROVE  IsPdu("confirmation", pdu)
<1>1. MetaLength("confirmation", fn) \in Nat /\ MetaLength("confirmation", fn) <= 6
  BY MetaLengthIs
<1>2. DataLength("confirmation", pdu, 0) = 0
  <2>1. fn = pdu[0 + 1]
    OBVIOUS
  <2> QED
    BY <2>1, DataLengthIs
<1> QED
  BY <1>1, <1>2 DEF IsPdu

\* A response that reads bits is whole: its count names the bytes that follow.
LEMMA BitsPdu ==
  ASSUME NEW fn \in {1, 2}, NEW D, NEW block \in [D -> {0, 1}], NEW addr \in Nat, NEW nb \in Nat,
         nb <= 2000, Covers(block, addr, nb)
  PROVE  /\ IsPdu("confirmation", <<fn, BytesFor(nb)>> \o Packed(Slice(block, addr, nb)))
         /\ (<<fn, BytesFor(nb)>> \o Packed(Slice(block, addr, nb)))[1] = fn
<1> DEFINE values == Slice(block, addr, nb)
<1>1. values \in Seq({0, 1}) /\ Len(values) = nb
  BY SliceType
<1> HIDE DEF values
<1>2. Packed(values) \in Seq(Byte) /\ Len(Packed(values)) = BytesFor(nb)
  BY <1>1, PackedType
<1>3. BytesFor(nb) \in Nat /\ BytesFor(nb) <= 250
  BY BytesForBounds
<1> QED
  BY <1>2, <1>3, AnnouncedPdu DEF values

\* A response that reads registers is whole: its count names the bytes that follow.
LEMMA RegistersPdu ==
  ASSUME NEW fn \in {3, 4, 23}, NEW D, NEW block \in [D -> Uint16], NEW addr \in Nat,
         NEW nb \in Nat, nb <= 125, Covers(block, addr, nb)
  PROVE  /\ IsPdu("confirmation", <<fn, 2 * nb>> \o Words(Slice(block, addr, nb)))
         /\ (<<fn, 2 * nb>> \o Words(Slice(block, addr, nb)))[1] = fn
<1> DEFINE values == Slice(block, addr, nb)
<1>1. values \in Seq(Uint16) /\ Len(values) = nb
  BY SliceType
<1> HIDE DEF values
<1>2. Words(values) \in Seq(Byte) /\ Len(Words(values)) = 2 * nb
  BY <1>1, WordsType
<1>3. 2 * nb \in Nat /\ 2 * nb <= 250
  OBVIOUS
<1> QED
  BY <1>2, <1>3, AnnouncedPdu DEF values

\* The response of report slave id is whole.
LEMMA NamePdu ==
  /\ IsPdu("confirmation", <<17, 2 + Len(SlaveName), 180, 255>> \o SlaveName)
  /\ (<<17, 2 + Len(SlaveName), 180, 255>> \o SlaveName)[1] = 17
<1> DEFINE head == <<17, 2 + Len(SlaveName), 180, 255>>
           pdu == head \o SlaveName
<1>1. SlaveName \in Seq(Byte) /\ Len(SlaveName) = 9
  BY DEF SlaveName, Byte
<1>2. head \in Seq(Byte) /\ Len(head) = 4 /\ head[1] = 17 /\ head[2] = 11
  BY <1>1 DEF Byte
<1> HIDE DEF head
<1>3. pdu \in Seq(Byte) /\ Len(pdu) = Len(head) + Len(SlaveName)
  BY <1>1, <1>2, Together, Zenon
<1>4. pdu[1] = head[1] /\ pdu[2] = head[2]
  <2>1. 1 \in 1 .. Len(head) /\ 2 \in 1 .. Len(head)
    BY <1>2
  <2> QED
    BY <1>1, <1>2, <2>1, TogetherLeft, Zenon
<1> HIDE DEF pdu
<1>5. MetaLength("confirmation", pdu[1]) = 1
  BY <1>2, <1>4, MetaLengthIs
<1>6. DataLength("confirmation", pdu, 0) = 11
  <2>1. 17 \in Int /\ 17 = pdu[0 + 1] /\ pdu[0 + 2] = 11
    BY <1>2, <1>4
  <2> QED
    BY <2>1, DataLengthIs
<1>7. IsPdu("confirmation", pdu)
  BY <1>1, <1>2, <1>3, <1>5, <1>6 DEF IsPdu
<1> QED
  BY <1>2, <1>4, <1>7 DEF pdu, head

\* A write is answered by a part of its request.
LEMMA PartOfRequest ==
  ASSUME NEW s \in Seq(Byte), NEW i \in Nat, i >= 1, NEW j \in Nat, i <= j, j <= Len(s)
  PROVE  SubSeq(s, i, j) \in Seq(Byte) /\ Len(SubSeq(s, i, j)) = j - i + 1 /\ SubSeq(s, i, j)[1] = s[i]
OBVIOUS

\* The response of a write, cut out of the request, is whole.
LEMMA WritePdu ==
  ASSUME NEW req \in Seq(Byte), NEW i \in Nat, i >= 1, NEW j \in Nat, j <= Len(req),
         (req[i] \in {5, 6, 15, 16} /\ j = i + 4) \/ (req[i] = 22 /\ j = i + 6)
  PROVE  /\ IsPdu("confirmation", SubSeq(req, i, j))
         /\ SubSeq(req, i, j)[1] = req[i]
<1> DEFINE fn == req[i]
           pdu == SubSeq(req, i, j)
<1>1. fn \in Int /\ fn > 4 /\ fn \notin {17, 23}
  OBVIOUS
<1>2. j - i = MetaLength("confirmation", fn)
  BY MetaLengthIs
<1>3. pdu \in Seq(Byte) /\ Len(pdu) = j - i + 1 /\ pdu[1] = fn
  BY PartOfRequest
<1> HIDE DEF fn, pdu
<1>4. Len(pdu) = 1 + MetaLength("confirmation", fn) /\ Len(pdu) >= 1
  BY <1>2, <1>3
<1>5. IsPdu("confirmation", pdu)
  BY <1>1, <1>3, <1>4, ShortPdu
<1> QED
  BY <1>3, <1>5 DEF fn, pdu

\* The server answers no read of more bits than fit.
LEMMA NumberOfBits ==
  ASSUME NEW req, NEW h, LegalNumber(req, h), req[h + 1] \in {1, 2}
  PROVE  Number(req, h) \in Nat /\ Number(req, h) <= 2000
<1> DEFINE most == 2000
<1>1. Number(req, h) \in 1 .. most
  BY LegalNumberIs
<1>2. \A m \in Int : \A x \in 1 .. m : x \in Nat /\ x <= m
  OBVIOUS
<1>3. most \in Int
  OBVIOUS
<1> HIDE DEF most
<1>4. Number(req, h) \in Nat /\ Number(req, h) <= most
  BY <1>1, <1>2, <1>3, Zenon
<1> QED
  BY <1>4, Zenon DEF most

\* The server answers no read of more registers than fit.
LEMMA NumberOfRegisters ==
  ASSUME NEW req, NEW h, LegalNumber(req, h), req[h + 1] \in {3, 4, 23}
  PROVE  Number(req, h) \in Nat /\ Number(req, h) <= 125
<1>1. ASSUME req[h + 1] \in {3, 4} PROVE Number(req, h) \in 1 .. 125
  BY <1>1, LegalNumberIs
<1>2. ASSUME req[h + 1] = 23 PROVE Number(req, h) \in 1 .. 125
  BY <1>2, LegalNumberIs
<1>3. Number(req, h) \in 1 .. 125
  BY <1>1, <1>2
<1> QED
  BY <1>3

\* The response to a legal request is whole, whatever it asks.
LEMMA ResponsePduType ==
  \A b \in Backends : \A req, D, block, h, c, n :
    /\ h = HeaderLength[b] /\ c = ChecksumLength[b] /\ n = Len(req)
    /\ IsMessage("indication", b, req) /\ req[h + 1] \in Functions
    /\ LegalNumber(req, h) /\ LegalAddress(req, h, block)
    /\ block \in [D -> Values(BlockOf(req[h + 1]))]
    => /\ IsPdu("confirmation", ResponsePdu(req, h, n - c, block))
       /\ ResponsePdu(req, h, n - c, block)[1] = req[h + 1]
<1>1. ASSUME NEW b \in Backends, NEW req, NEW D, NEW block, NEW h, NEW c, NEW n,
             h = HeaderLength[b], c = ChecksumLength[b], n = Len(req),
             IsMessage("indication", b, req), req[h + 1] \in Functions,
             LegalNumber(req, h), LegalAddress(req, h, block),
             block \in [D -> Values(BlockOf(req[h + 1]))]
      PROVE  /\ IsPdu("confirmation", ResponsePdu(req, h, n - c, block))
             /\ ResponsePdu(req, h, n - c, block)[1] = req[h + 1]
  <2> DEFINE fn == req[h + 1]
             bits == fn \in BitReads
             registers == fn \in RegisterReads \cup {WriteAndReadRegisters}
             echo == fn \in Singles \cup {MaskWriteRegister}
             multiple == fn \in Multiples
             name == fn = ReportSlaveId
             addr == Address(req, h)
             nb == Number(req, h)
             pdu == ResponsePdu(req, h, n - c, block)
             pdu1 == <<fn, BytesFor(nb)>> \o Packed(Slice(block, addr, nb))
             pdu3 == <<fn, 2 * nb>> \o Words(Slice(block, addr, nb))
             pdu5 == SubSeq(req, h + 1, n - c)
             pdu15 == SubSeq(req, h + 1, h + 5)
             pdu17 == <<fn, 2 + Len(SlaveName), 180, 255>> \o SlaveName
             Right(p) == IsPdu("confirmation", p) /\ p[1] = fn
  <2>1. /\ bits <=> fn \in {1, 2}
        /\ registers <=> fn \in {3, 4, 23}
        /\ echo <=> fn \in {5, 6, 22}
        /\ multiple <=> fn \in {15, 16}
        /\ name <=> fn = 17
        /\ bits \/ registers \/ echo \/ multiple \/ name
    BY <1>1, CodesAre
  <2>2. /\ bits => ~registers /\ ~echo /\ ~multiple /\ ~name
        /\ registers => ~echo /\ ~multiple /\ ~name
        /\ echo => ~multiple /\ ~name
        /\ multiple => ~name
    BY <2>1
  <2>3. pdu = CASE bits -> pdu1 [] registers -> pdu3 [] echo -> pdu5 [] multiple -> pdu15
                [] name -> pdu17
    BY <1>1, Zenon DEF ResponsePdu, Function
  <2>4. /\ h \in Nat /\ h >= 1 /\ c \in Nat /\ req \in Seq(Byte) /\ n \in Nat
        /\ n >= h + 1 /\ fn \in Int
    BY <1>1, RequestShape
  <2>40. LegalNumber(req, h) /\ n = Len(req)
    BY <1>1
  <2> HIDE DEF bits, registers, echo, multiple, name, pdu, pdu1, pdu3, pdu5, pdu15, pdu17
  <2>5. /\ bits => pdu = pdu1
        /\ registers => pdu = pdu3
        /\ echo => pdu = pdu5
    BY <2>2, <2>3, Zenon
  <2>6. /\ multiple => pdu = pdu15
        /\ name => pdu = pdu17
    BY <2>2, <2>3, Zenon
  <2>7. ASSUME bits \/ registers PROVE addr \in Nat
    BY <1>1, <2>1, <2>7, ArgumentsType, Uint16Is
  <2>8. ASSUME bits PROVE Right(pdu1)
    <3>1. fn \in {1, 2}
      BY <2>1, <2>8
    <3>2. block \in [D -> {0, 1}]
      BY <1>1, <3>1, BlockOfIs DEF Values
    <3>4. Covers(block, addr, nb)
      BY <1>1, <3>1, LegalAddressIs
    <3> HIDE DEF nb, addr
    <3>5. nb \in Nat /\ nb <= 2000
      BY <2>40, <3>1, NumberOfBits DEF nb
    <3> QED
      BY <2>7, <2>8, <3>1, <3>2, <3>4, <3>5, BitsPdu DEF pdu1
  <2>9. ASSUME registers PROVE Right(pdu3)
    <3>1. fn \in {3, 4, 23}
      BY <2>1, <2>9
    <3>2. block \in [D -> Uint16]
      BY <1>1, <3>1, BlockOfIs DEF Values
    <3>4. Covers(block, addr, nb)
      BY <1>1, <3>1, LegalAddressIs
    <3> HIDE DEF nb, addr
    <3>5. nb \in Nat /\ nb <= 125
      BY <2>40, <3>1, NumberOfRegisters DEF nb
    <3> QED
      BY <2>7, <2>9, <3>1, <3>2, <3>4, <3>5, RegistersPdu DEF pdu3
  <2>10. ASSUME echo PROVE Right(pdu5)
    <3>1. (n = h + 5 + c /\ fn \in {5, 6}) \/ (n = h + 7 + c /\ fn = 22)
      <4>1. fn \in {5, 6, 22}
        BY <2>1, <2>10
      <4>2. ASSUME fn \in {5, 6} PROVE n = h + 5 + c
        BY <1>1, <4>2, RequestShape
      <4>3. ASSUME fn = 22 PROVE n = h + 7 + c
        BY <1>1, <4>3, RequestShape
      <4> HIDE DEF fn
      <4>4. fn \in {5, 6} \/ fn = 22
        BY <4>1
      <4> QED
        BY <4>2, <4>3, <4>4, Zenon
    <3>2. \/ n - c = (h + 1) + 4 /\ fn \in {5, 6, 15, 16}
          \/ n - c = (h + 1) + 6 /\ fn = 22
      BY <2>4, <3>1
    <3>3. n - c \in Nat /\ n - c <= n /\ h + 1 \in Nat /\ h + 1 >= 1
      BY <2>4, <3>1
    <3> DEFINE end == n - c
               i == h + 1
    <3> HIDE DEF end, i
    <3>4. i \in Nat /\ i >= 1 /\ end \in Nat /\ end <= n
      BY <3>3 DEF i, end
    <3>5. (req[i] \in {5, 6, 15, 16} /\ end = i + 4) \/ (req[i] = 22 /\ end = i + 6)
      BY <3>2 DEF i, end
    <3>6. IsPdu("confirmation", SubSeq(req, i, end)) /\ SubSeq(req, i, end)[1] = req[i]
      BY <2>4, <2>40, <3>4, <3>5, WritePdu
    <3> QED
      BY <3>6 DEF pdu5, i, end
  <2>11. ASSUME multiple PROVE Right(pdu15)
    <3> DEFINE size == req[h + 6]
    <3>1. n = h + 6 + size + c /\ size \in Nat
      <4>1. fn \in {15, 16}
        BY <2>1, <2>11
      <4> QED
        BY <1>1, <4>1, RequestShape
    <3> HIDE DEF size
    <3>2. /\ h + 5 = (h + 1) + 4 /\ h + 5 \in Nat /\ h + 1 \in Nat /\ h + 1 >= 1
          /\ h + 5 <= n
      BY <2>4, <3>1
    <3>3. fn \in {5, 6, 15, 16}
      BY <2>1, <2>11
    <3> DEFINE end == h + 5
               i == h + 1
    <3> HIDE DEF end, i
    <3>4. i \in Nat /\ i >= 1 /\ end \in Nat /\ end <= n /\ end = i + 4
      BY <3>2 DEF i, end
    <3>5. req[i] \in {5, 6, 15, 16}
      BY <3>3 DEF i
    <3>6. IsPdu("confirmation", SubSeq(req, i, end)) /\ SubSeq(req, i, end)[1] = req[i]
      BY <2>4, <2>40, <3>4, <3>5, WritePdu
    <3> QED
      BY <3>6 DEF pdu15, i, end
  <2>12. ASSUME name PROVE Right(pdu17)
    <3>1. fn = 17
      BY <2>1, <2>12
    <3> QED
      BY <3>1, NamePdu DEF pdu17
  <2>13. Right(pdu)
    BY <2>1, <2>5, <2>6, <2>8, <2>9, <2>10, <2>11, <2>12, Zenon
  <2> QED
    BY <2>13 DEF pdu
<1> QED
  BY <1>1

\* An exception to a function code below 128.
LEMMA ExceptionPduType ==
  ASSUME NEW fn \in Byte, NEW code \in Byte
  PROVE  /\ <<(fn + 128) % 256, code>> \in Seq(Byte) /\ Len(<<(fn + 128) % 256, code>>) = 2
         /\ fn < 128 => IsPdu("confirmation", <<(fn + 128) % 256, code>>)
<1> DEFINE first == (fn + 128) % 256
           pdu == <<first, code>>
<1>1. fn \in Int /\ 0 <= fn /\ fn <= 255
  BY ByteIs
<1>2. first \in Int /\ 0 <= first /\ first <= 255 /\ (fn < 128 => first = fn + 128)
  BY <1>1
<1> HIDE DEF first
<1>3. pdu \in Seq(Byte) /\ Len(pdu) = 2 /\ pdu[1] = first
  <2>1. first \in Byte
    BY <1>2, ByteIs
  <2> QED
    BY <2>1
<1> HIDE DEF pdu
<1>4. ASSUME fn < 128 PROVE IsPdu("confirmation", pdu)
  <2>1. first > 4 /\ first \notin {5, 6, 15, 16, 17, 22, 23}
    BY <1>1, <1>2, <1>4
  <2>2. MetaLength("confirmation", first) = 1
    BY <1>2, <2>1, MetaLengthIs
  <2>3. /\ first > 4 /\ first \notin {17, 23} /\ Len(pdu) >= 1
        /\ Len(pdu) = 1 + MetaLength("confirmation", first)
    BY <1>2, <1>3, <2>1, <2>2
  <2> QED
    BY <1>2, <1>3, <2>3, ShortPdu
<1> QED
  BY <1>3, <1>4 DEF pdu, first

\* A mapping with one block replaced is a mapping.
LEMMA MappingReplaced ==
  ASSUME NEW map, IsMapping(map), NEW name \in BlockNames,
         NEW block \in [DOMAIN map[name] -> Values(name)]
  PROVE  /\ IsMapping([map EXCEPT ![name] = block])
         /\ \A n \in BlockNames : DOMAIN [map EXCEPT ![name] = block][n] = DOMAIN map[n]
<1> DEFINE new == [map EXCEPT ![name] = block]
<1>1. /\ DOMAIN map = BlockNames
      /\ \A n \in BlockNames : DOMAIN map[n] \subseteq Uint16 /\ map[n] \in [DOMAIN map[n] -> Values(n)]
  BY DEF IsMapping, Values
<1>2. /\ DOMAIN new = BlockNames /\ new[name] = block
      /\ \A n \in BlockNames : n # name => new[n] = map[n]
      /\ new = [n \in BlockNames |-> new[n]]
  BY <1>1
<1> HIDE DEF new
<1>3. DOMAIN block = DOMAIN map[name]
  OBVIOUS
<1>4. ASSUME NEW n \in BlockNames
      PROVE  DOMAIN new[n] = DOMAIN map[n] /\ new[n] \in [DOMAIN new[n] -> Values(n)]
  <2>1. CASE n = name
    BY <1>2, <1>3, <2>1
  <2>2. CASE n # name
    BY <1>1, <1>2, <2>2
  <2> QED
    BY <2>1, <2>2
<1>5. ASSUME NEW n \in BlockNames
      PROVE  DOMAIN new[n] \subseteq Uint16
  BY <1>1, <1>4
<1>6. IsMapping(new)
  BY <1>2, <1>4, <1>5, Zenon DEF IsMapping, Values
<1> QED
  BY <1>4, <1>6 DEF new

\* Every function code names a block of the mapping.
LEMMA BlockNamed ==
  ASSUME NEW fn
  PROVE  BlockOf(fn) \in BlockNames
BY BlockOfIs DEF BlockNames

\* Only its domain says whether an address is legal.
LEMMA SameLegal ==
  ASSUME NEW req, NEW h, NEW block, NEW new, DOMAIN new = DOMAIN block
  PROVE  LegalAddress(req, h, new) = LegalAddress(req, h, block)
BY Zenon DEF LegalAddress, Covers

\* What a reply is, with the names of its parts.
IsReply(fn, map, reply) ==
  /\ IsMapping(reply.mapping)
  /\ \A name \in BlockNames : DOMAIN reply.mapping[name] = DOMAIN map[name]
  /\ reply.flush \in BOOLEAN
  /\ fn = 7 <=> reply.pdu = <<>>
  /\ reply.pdu \in Seq(Byte) /\ Len(reply.pdu) <= 253
  /\ fn # 7 /\ fn < 128 => IsPdu("confirmation", reply.pdu)
  /\ fn \notin Functions /\ fn # 7 => reply.flush

ExceptionReply(fn, map, code, flush) ==
  [pdu |-> <<(fn + 128) % 256, code>>, mapping |-> map, flush |-> flush]

\* An exception is a reply that leaves the mapping alone.
LEMMA ExceptionIsReply ==
  \A fn \in Byte : \A code \in {1, 2, 3} : \A flush \in BOOLEAN : \A map :
    IsMapping(map) /\ fn # 7 /\ (fn \in Functions \/ flush)
    => IsReply(fn, map, ExceptionReply(fn, map, code, flush))
<1> SUFFICES ASSUME NEW fn \in Byte, NEW code \in {1, 2, 3}, NEW flush \in BOOLEAN, NEW map,
                    IsMapping(map), fn # 7, fn \in Functions \/ flush
             PROVE  IsReply(fn, map, ExceptionReply(fn, map, code, flush))
  OBVIOUS
<1> DEFINE pdu == <<(fn + 128) % 256, code>>
           reply == [pdu |-> pdu, mapping |-> map, flush |-> flush]
<1>1. code \in Byte
  BY ByteIs
<1>2. pdu \in Seq(Byte) /\ Len(pdu) = 2 /\ (fn < 128 => IsPdu("confirmation", pdu))
  BY <1>1, ExceptionPduType
<1> HIDE DEF pdu
<1>3. reply.pdu = pdu /\ reply.mapping = map /\ reply.flush = flush
  OBVIOUS
<1>4. pdu # <<>> /\ Len(pdu) <= 253
  <2>1. Len(<<>>) # Len(pdu) /\ Len(pdu) <= 253
    BY <1>2
  <2> QED
    BY <2>1, Zenon
<1> HIDE DEF reply
<1>5. IsReply(fn, map, reply)
  BY <1>2, <1>3, <1>4, Zenon DEF IsReply
<1> QED
  BY <1>5 DEF reply, pdu, ExceptionReply

\* A response with the mapping it leaves is a reply.
LEMMA AnswerIsReply ==
  ASSUME NEW fn \in Byte, NEW pdu, IsPdu("confirmation", pdu), NEW map, NEW new, IsMapping(new),
         \A name \in BlockNames : DOMAIN new[name] = DOMAIN map[name], fn \in Functions
  PROVE  IsReply(fn, map, [pdu |-> pdu, mapping |-> new, flush |-> FALSE])
<1> DEFINE reply == [pdu |-> pdu, mapping |-> new, flush |-> FALSE]
<1>1. pdu \in Seq(Byte) /\ Len(pdu) <= 253 /\ pdu # <<>>
  BY DEF IsPdu
<1>2. fn # 7
  BY CodesAre
<1>3. reply.pdu = pdu /\ reply.mapping = new /\ reply.flush = FALSE
  OBVIOUS
<1> HIDE DEF reply
<1>4. IsReply(fn, map, reply)
  BY <1>1, <1>2, <1>3, Zenon DEF IsReply
<1> QED
  BY <1>4 DEF reply

\* modbus_reply answers every message, well-formed or not, by a whole PDU, and keeps the shape
\* of the mapping.
LEMMA ReplyType ==
  \A b \in Backends : \A req, map, h :
    h = HeaderLength[b] /\ IsMessage("indication", b, req) /\ IsMapping(map)
    => IsReply(req[h + 1], map, Reply(req, b, map))
<1>1. ASSUME NEW b \in Backends, NEW req, NEW map, NEW h, h = HeaderLength[b],
             IsMessage("indication", b, req), IsMapping(map)
      PROVE  IsReply(req[h + 1], map, Reply(req, b, map))
  <2> DEFINE fn == req[h + 1]
             name == BlockOf(fn)
             block == map[name]
             written == Written(req, h, block)
             new == [map EXCEPT ![name] = written]
             pdu == ResponsePdu(req, h, Len(req) - ChecksumLength[b], new[name])
             nothing == [pdu |-> <<>>, mapping |-> map, flush |-> FALSE]
             answer == [pdu |-> pdu, mapping |-> new, flush |-> FALSE]
             Exception(code, flush) == ExceptionReply(fn, map, code, flush)
             reply == Reply(req, b, map)
             silent == fn = ReadExceptionStatus
             known == fn \in Functions
             number == LegalNumber(req, h)
             address == LegalAddress(req, h, block)
             value == LegalValue(req, h)
             wrongFunction == Exception(1, TRUE)
             wrongNumber == Exception(3, TRUE)
             wrongAddress == Exception(2, FALSE)
             wrongValue == Exception(3, FALSE)
  <2>1. reply = IF silent THEN nothing ELSE IF ~known THEN wrongFunction
                ELSE IF ~number THEN wrongNumber ELSE IF ~address THEN wrongAddress
                ELSE IF ~value THEN wrongValue ELSE answer
    BY <1>1, Zenon DEF Reply, Function, ExceptionReply
  <2>2. fn \in Byte
    BY <1>1, RequestShape
  <2>3. (silent <=> fn = 7) /\ (known => fn # 7)
    BY CodesAre
  <2>30. /\ IsMapping(map) /\ 1 \in {1, 2, 3} /\ 2 \in {1, 2, 3} /\ 3 \in {1, 2, 3}
         /\ TRUE \in BOOLEAN /\ FALSE \in BOOLEAN
    BY <1>1
  <2>4. ASSUME silent PROVE IsReply(fn, map, nothing)
    <3>1. nothing.pdu = <<>> /\ nothing.mapping = map /\ nothing.flush = FALSE
      OBVIOUS
    <3>2. fn = 7
      BY <2>3, <2>4
    <3>3. <<>> \in Seq(Byte) /\ Len(<<>>) <= 253
      OBVIOUS
    <3> HIDE DEF nothing, fn
    <3> QED
      BY <1>1, <3>1, <3>2, <3>3, Zenon DEF IsReply
  <2>5. ASSUME ~silent, ~known PROVE IsReply(fn, map, wrongFunction)
    <3>1. fn # 7
      BY <2>3, <2>5
    <3> HIDE DEF fn
    <3> QED
      BY <2>2, <2>30, <3>1, ExceptionIsReply, Zenon
  <2>6. ASSUME known PROVE IsReply(fn, map, wrongNumber)
    <3>1. fn # 7 /\ fn \in Functions
      BY <2>3, <2>6
    <3> HIDE DEF fn
    <3> QED
      BY <2>2, <2>30, <3>1, ExceptionIsReply, Zenon
  <2>7. ASSUME known PROVE IsReply(fn, map, wrongAddress)
    <3>1. fn # 7 /\ fn \in Functions
      BY <2>3, <2>7
    <3> HIDE DEF fn
    <3> QED
      BY <2>2, <2>30, <3>1, ExceptionIsReply, Zenon
  <2>8. ASSUME known PROVE IsReply(fn, map, wrongValue)
    <3>1. fn # 7 /\ fn \in Functions
      BY <2>3, <2>8
    <3> HIDE DEF fn
    <3> QED
      BY <2>2, <2>30, <3>1, ExceptionIsReply, Zenon
  <2>9. ASSUME known, number, address PROVE IsReply(fn, map, answer)
    <3> DEFINE D == DOMAIN block
    <3>1. name \in BlockNames
      BY BlockNamed
    <3>2. block \in [D -> Values(name)]
      BY <1>1, <3>1 DEF IsMapping, Values
    <3>3. written \in [D -> Values(name)]
      BY <1>1, <2>9, <3>2, WrittenType
    <3>4. /\ IsMapping(new)
          /\ \A n \in BlockNames : DOMAIN new[n] = DOMAIN map[n]
      BY <1>1, <3>1, <3>3, MappingReplaced
    <3>5. new[name] = written
      BY <1>1, <3>1 DEF IsMapping
    <3>6. DOMAIN written = DOMAIN block
      BY <3>3
    <3>7. LegalAddress(req, h, written)
      BY <2>9, <3>6, SameLegal
    <3>8. IsPdu("confirmation", ResponsePdu(req, h, Len(req) - ChecksumLength[b], written))
      BY <1>1, <2>9, <3>3, <3>7, ResponsePduType
    <3> QED
      BY <2>2, <2>9, <3>4, <3>5, <3>8, AnswerIsReply
  <2> HIDE DEF silent, known, number, address, value, nothing, answer, wrongFunction,
               wrongNumber, wrongAddress, wrongValue, reply, fn
  <2>10. IsReply(fn, map, reply)
    BY <2>1, <2>3, <2>4, <2>5, <2>6, <2>7, <2>8, <2>9, Zenon
  <2> QED
    BY <2>10 DEF reply, fn
<1> QED
  BY <1>1

-----------------------------------------------------------------------------
\* The number of arguments that a function code of a known length asks for.
Arranged(fn, args) ==
  /\ fn <= 6 => Len(args) = 4
  /\ fn \in {15, 16} => Len(args) >= 5 /\ Len(args) = 5 + args[5]
  /\ fn \in {7, 17} => Len(args) = 0
  /\ fn = 22 => Len(args) = 6
  /\ fn = 23 => Len(args) >= 9 /\ Len(args) = 9 + args[9]

\* Arguments that fit, behind a function code, make a whole PDU.
LEMMA PduOfArguments ==
  ASSUME NEW fn \in Byte, NEW args \in Seq(Byte), Len(args) <= 252
  PROVE  /\ <<fn>> \o args \in Seq(Byte) /\ Len(<<fn>> \o args) = 1 + Len(args)
         /\ (<<fn>> \o args)[1] = fn
         /\ Arranged(fn, args) /\ (fn <= 7 \/ fn \in {15, 16, 17, 22, 23})
            => IsPdu("indication", <<fn>> \o args)
<1> DEFINE head == <<fn>>
           pdu == head \o args
           size == Len(args)
           meta == MetaLength("indication", fn)
           data == DataLength("indication", pdu, 0)
<1>1. head \in Seq(Byte) /\ Len(head) = 1 /\ head[1] = fn
  OBVIOUS
<1> HIDE DEF head
<1>2. pdu \in Seq(Byte) /\ Len(pdu) = Len(head) + Len(args)
  BY <1>1, Together, Zenon
<1>3. pdu[1] = fn
  <2>1. 1 \in 1 .. Len(head)
    BY <1>1
  <2> QED
    BY <1>1, <2>1, TogetherLeft, Zenon
<1>4. \A i \in 1 .. size : pdu[i + 1] = args[i]
  <2>1. \A i \in 1 .. size : pdu[Len(head) + i] = args[i]
    BY <1>1, TogetherRight, Zenon
  <2>2. \A i \in 1 .. size : Len(head) + i = i + 1
    BY <1>1
  <2> QED
    BY <2>1, <2>2
<1>5. size \in Nat
  OBVIOUS
<1>6. \A i \in 1 .. size : args[i] \in Int /\ args[i] >= 0
  BY ByteIs
<1>7. fn \in Int
  BY ByteIs
<1> HIDE DEF pdu
<1>8. ASSUME Arranged(fn, args), fn <= 7 \/ fn \in {15, 16, 17, 22, 23}
      PROVE  IsPdu("indication", pdu)
  <2>1. fn = pdu[0 + 1]
    BY <1>3
  <2>2. /\ fn \in {15, 16} => data = pdu[0 + 6]
        /\ fn = 23 => data = pdu[0 + 10]
        /\ fn \notin {15, 16, 23} => data = 0
    BY <1>7, <2>1, DataLengthIs
  <2>3. /\ fn <= 6 => meta = 4
        /\ fn \in {15, 16} => meta = 5
        /\ fn = 22 => meta = 6
        /\ fn = 23 => meta = 9
        /\ fn \in {7, 17} => meta = 0
    BY <1>7, MetaLengthIs
  <2> HIDE DEF data, meta, size
  <2> DEFINE Adds == size = meta + data /\ meta \in Int /\ data \in Int /\ data >= 0
  <2>4. ASSUME fn <= 6 PROVE Adds
    <3>1. size = 4
      BY <1>8, <2>4 DEF Arranged, size
    <3> QED
      BY <1>7, <2>2, <2>3, <2>4, <3>1
  <2>5. ASSUME fn \in {15, 16} PROVE Adds
    <3>1. size >= 5 /\ size = 5 + args[5]
      BY <1>8, <2>5 DEF Arranged, size
    <3>2. 5 \in 1 .. size
      BY <1>5, <3>1
    <3>3. pdu[5 + 1] = args[5] /\ args[5] \in Int /\ args[5] >= 0
      BY <1>4, <1>6, <3>2
    <3>4. meta = 5 /\ data = args[5]
      BY <2>2, <2>3, <2>5, <3>3
    <3> QED
      BY <3>1, <3>3, <3>4
  <2>6. ASSUME fn = 23 PROVE Adds
    <3>1. size >= 9 /\ size = 9 + args[9]
      BY <1>8, <2>6 DEF Arranged, size
    <3>2. 9 \in 1 .. size
      BY <1>5, <3>1
    <3>3. pdu[9 + 1] = args[9] /\ args[9] \in Int /\ args[9] >= 0
      BY <1>4, <1>6, <3>2
    <3>4. meta = 9 /\ data = args[9]
      BY <2>2, <2>3, <2>6, <3>3
    <3> QED
      BY <3>1, <3>3, <3>4
  <2>7. ASSUME fn = 22 PROVE Adds
    <3>1. size = 6
      BY <1>8, <2>7 DEF Arranged, size
    <3> QED
      BY <2>2, <2>3, <2>7, <3>1
  <2>8. ASSUME fn \in {7, 17} PROVE Adds
    <3>1. size = 0
      BY <1>8, <2>8 DEF Arranged, size
    <3> QED
      BY <2>2, <2>3, <2>8, <3>1
  <2>9. Adds
    <3>1. fn <= 6 \/ fn = 7 \/ fn \in {15, 16, 17, 22, 23}
      BY <1>7, <1>8
    <3> QED
      BY <2>4, <2>5, <2>6, <2>7, <2>8, <3>1
  <2>10. size <= 252 /\ Len(pdu) = 1 + size
    BY <1>1, <1>2 DEF size
  <2>11. /\ Len(pdu) >= 1 /\ Len(pdu) <= 253 /\ Len(pdu) >= 1 + meta
         /\ Len(pdu) = 1 + meta + data
    BY <1>5, <2>9, <2>10
  <2> QED
    BY <1>2, <1>3, <2>11 DEF IsPdu, meta, data
<1> QED
  BY <1>1, <1>2, <1>3, <1>8 DEF pdu, head

\* Bytes that tell how many follow them.
LEMMA Announced ==
  \A head, data \in Seq(Byte) : \A size \in Byte :
    /\ head \o (<<size>> \o data) = (head \o <<size>>) \o data
    /\ (head \o <<size>>) \o data \in Seq(Byte)
    /\ Len((head \o <<size>>) \o data) = Len(head) + 1 + Len(data)
    /\ ((head \o <<size>>) \o data)[Len(head) + 1] = size
<1>1. ASSUME NEW head \in Seq(Byte), NEW data \in Seq(Byte), NEW size \in Byte
      PROVE  /\ (head \o <<size>>) \o data \in Seq(Byte)
             /\ Len((head \o <<size>>) \o data) = Len(head) + 1 + Len(data)
             /\ ((head \o <<size>>) \o data)[Len(head) + 1] = size
  <2> DEFINE one == <<size>>
             front == head \o one
             all == front \o data
  <2>1. one \in Seq(Byte) /\ Len(one) = 1 /\ one[1] = size
    OBVIOUS
  <2> HIDE DEF one
  <2>2. front \in Seq(Byte) /\ Len(front) = Len(head) + Len(one)
    BY <2>1, Together, Zenon
  <2>3. front[Len(head) + 1] = one[1]
    <3>1. 1 \in 1 .. Len(one)
      BY <2>1
    <3> QED
      BY <2>1, <3>1, TogetherRight, Zenon
  <2> HIDE DEF front
  <2>4. all \in Seq(Byte) /\ Len(all) = Len(front) + Len(data)
    BY <2>2, Together, Zenon
  <2>5. all[Len(head) + 1] = front[Len(head) + 1]
    <3>1. Len(head) + 1 \in 1 .. Len(front)
      BY <2>1, <2>2
    <3> QED
      BY <2>2, <3>1, TogetherLeft, Zenon
  <2> HIDE DEF all
  <2>6. Len(all) = Len(head) + 1 + Len(data)
    BY <2>1, <2>2, <2>4
  <2> QED
    BY <2>1, <2>3, <2>4, <2>5, <2>6 DEF all, front, one
<1>2. \A size \in Byte : <<size>> \in Seq(Byte)
  OBVIOUS
<1>3. \A s, t, u \in Seq(Byte) : s \o (t \o u) = (s \o t) \o u
  BY Regrouped
<1> QED
  BY <1>1, <1>2, <1>3, Zenon

\* Two registers take four bytes.
LEMMA TwoWords ==
  \A v, w \in Uint16 : Word(v) \o Word(w) \in Seq(Byte) /\ Len(Word(v) \o Word(w)) = 4
<1>1. \A w \in Uint16 : Word(w) \in Seq(Byte) /\ Len(Word(w)) = 2
  BY WordType
<1>2. 2 + 2 = 4
  OBVIOUS
<1> QED
  BY <1>1, <1>2, Together, Zenon

\* What a request that is sent asks for.
LEMMA NotRefused ==
  ASSUME NEW q, ~Refused(q)
  PROVE  /\ q.raw => ~(Len(q.values) > 252)
         /\ ~q.raw /\ q.fn \in {1, 2} => ~(q.nb > 2000)
         /\ ~q.raw /\ q.fn \in {3, 4, 23} => ~(q.nb > 125)
         /\ ~q.raw /\ q.fn = 15 => ~(Len(q.values) > 1968)
         /\ ~q.raw /\ q.fn = 16 => ~(Len(q.values) > 123)
         /\ ~q.raw /\ q.fn = 23 => ~(Len(q.values) > 121)
<1> DEFINE n == Len(q.values)
           fn == q.fn
<1>1. q.raw => ~(n > 252)
  BY DEF Refused
<1>2. ~q.raw /\ fn \in BitReads \cup RegisterReads \cup {WriteAndReadRegisters} => ~(q.nb > MaxRead(fn))
  BY Zenon DEF Refused
<1>3. ~q.raw /\ fn \in Multiples \cup {WriteAndReadRegisters} => ~(n > MaxWrite(fn))
  BY Zenon DEF Refused
<1> HIDE DEF n, fn
<1>4. /\ ~q.raw /\ fn \in {1, 2, 3, 4, 23} => ~(q.nb > MaxRead(fn))
      /\ ~q.raw /\ fn \in {15, 16, 23} => ~(n > MaxWrite(fn))
  BY <1>2, <1>3, CodesAre
<1>5. /\ ~q.raw /\ fn \in {1, 2} => ~(q.nb > 2000)
      /\ ~q.raw /\ fn \in {3, 4, 23} => ~(q.nb > 125)
  BY <1>4, MaxesAre
<1>6. /\ ~q.raw /\ fn = 15 => ~(n > 1968)
      /\ ~q.raw /\ fn = 16 => ~(n > 123)
      /\ ~q.raw /\ fn = 23 => ~(n > 121)
  BY <1>4, MaxesAre
<1> QED
  BY <1>1, <1>5, <1>6 DEF n, fn

\* What follows the function code, by function code.
LEMMA ArgumentsAre ==
  ASSUME NEW q
  PROVE  /\ q.raw => Arguments(q) = q.values
         /\ ~q.raw /\ q.fn \in {1, 2, 3, 4} => Arguments(q) = ReadArguments(q)
         /\ ~q.raw /\ q.fn \in {5, 6} => Arguments(q) = SingleArguments(q)
         /\ ~q.raw /\ q.fn \in {15, 16} => Arguments(q) = MultipleArguments(q)
         /\ ~q.raw /\ q.fn = 22 => Arguments(q) = MaskArguments(q)
         /\ ~q.raw /\ q.fn = 23 => Arguments(q) = WriteAndReadArguments(q)
         /\ ~q.raw /\ q.fn = 17 => Arguments(q) = <<>>
<1> DEFINE fn == q.fn
           raw == q.raw
           reads == ~q.raw /\ q.fn \in BitReads \cup RegisterReads
           singles == ~q.raw /\ q.fn \in Singles
           multiples == ~q.raw /\ q.fn \in Multiples
           mask == ~q.raw /\ q.fn = MaskWriteRegister
           both == ~q.raw /\ q.fn = WriteAndReadRegisters
           name == ~q.raw /\ q.fn = ReportSlaveId
           args == Arguments(q)
           a0 == q.values
           a1 == ReadArguments(q)
           a2 == SingleArguments(q)
           a3 == MultipleArguments(q)
           a4 == MaskArguments(q)
           a5 == WriteAndReadArguments(q)
           a6 == <<>>
<1>1. /\ reads <=> ~raw /\ fn \in {1, 2, 3, 4}
      /\ singles <=> ~raw /\ fn \in {5, 6}
      /\ multiples <=> ~raw /\ fn \in {15, 16}
      /\ mask <=> ~raw /\ fn = 22
      /\ both <=> ~raw /\ fn = 23
      /\ name <=> ~raw /\ fn = 17
  BY CodesAre
<1>2. args = CASE raw -> a0 [] reads -> a1 [] singles -> a2 [] multiples -> a3 [] mask -> a4
               [] both -> a5 [] name -> a6
  BY Zenon DEF Arguments
<1>3. /\ raw => ~reads /\ ~singles /\ ~multiples /\ ~mask /\ ~both /\ ~name
      /\ reads => ~singles /\ ~multiples /\ ~mask /\ ~both /\ ~name
      /\ singles => ~multiples /\ ~mask /\ ~both /\ ~name
      /\ multiples => ~mask /\ ~both /\ ~name
      /\ mask => ~both /\ ~name
      /\ both => ~name
  BY <1>1
<1> HIDE DEF raw, reads, singles, multiples, mask, both, name, args, a0, a1, a2, a3, a4, a5, a6, fn
<1>4. (raw => args = a0) /\ (reads => args = a1) /\ (singles => args = a2)
  BY <1>2, <1>3, Zenon
<1>5. (multiples => args = a3) /\ (mask => args = a4)
  BY <1>2, <1>3, Zenon
<1>6. (both => args = a5) /\ (name => args = a6)
  BY <1>2, <1>3, Zenon
<1> QED
  BY <1>1, <1>4, <1>5, <1>6 DEF raw, args, a0, a1, a2, a3, a4, a5, a6, fn

\* An address and a number take four bytes.
LEMMA ReadArgumentsType ==
  ASSUME NEW q, q.addr \in Uint16, q.nb \in Uint16
  PROVE  ReadArguments(q) \in Seq(Byte) /\ Len(ReadArguments(q)) = 4
BY TwoWords, Zenon DEF ReadArguments

\* An address and a value take four bytes.
LEMMA SingleArgumentsType ==
  ASSUME NEW q, q.addr \in Uint16, q.values[1] \in Uint16
  PROVE  SingleArguments(q) \in Seq(Byte) /\ Len(SingleArguments(q)) = 4
<1> DEFINE value == IF q.fn = WriteSingleRegister THEN q.values[1]
                    ELSE IF q.values[1] # 0 THEN 65280 ELSE 0
<1>1. value \in Uint16
  BY Uint16Is
<1> HIDE DEF value
<1>2. Word(q.addr) \o Word(value) \in Seq(Byte) /\ Len(Word(q.addr) \o Word(value)) = 4
  BY <1>1, TwoWords, Zenon
<1> QED
  BY <1>2 DEF SingleArguments, value

\* An address and two masks take six bytes.
LEMMA MaskArgumentsType ==
  ASSUME NEW q, q.addr \in Uint16, q.values[1] \in Uint16, q.values[2] \in Uint16
  PROVE  MaskArguments(q) \in Seq(Byte) /\ Len(MaskArguments(q)) = 6
<1> DEFINE head == Word(q.addr) \o Word(q.values[1])
           last == Word(q.values[2])
<1>1. head \in Seq(Byte) /\ Len(head) = 4
  BY TwoWords, Zenon
<1>2. last \in Seq(Byte) /\ Len(last) = 2
  BY WordType
<1> HIDE DEF head, last
<1>3. head \o last \in Seq(Byte) /\ Len(head \o last) = Len(head) + Len(last)
  BY <1>1, <1>2, Together, Zenon
<1> DEFINE args == head \o last
<1> HIDE DEF args
<1>4. Len(args) = 6
  BY <1>1, <1>2, <1>3 DEF args
<1> QED
  BY <1>3, <1>4, Zenon DEF MaskArguments, args, head, last

\* A write of several is an address, a number, a count and as many bytes as the count says.
LEMMA MultipleArgumentsType ==
  ASSUME NEW q, q.addr \in Uint16, q.values \in Seq(Uint16),
         \/ q.fn = 15 /\ q.values \in Seq({0, 1}) /\ Len(q.values) <= 1968
         \/ q.fn = 16 /\ Len(q.values) <= 123
  PROVE  /\ MultipleArguments(q) \in Seq(Byte) /\ Len(MultipleArguments(q)) <= 251
         /\ Len(MultipleArguments(q)) >= 5
         /\ Len(MultipleArguments(q)) = 5 + MultipleArguments(q)[5]
<1> DEFINE nb == Len(q.values)
           head == Word(q.addr) \o Word(nb)
           size == IF q.fn = 15 THEN BytesFor(nb) ELSE 2 * nb
           data == IF q.fn = 15 THEN Packed(q.values) ELSE Words(q.values)
           args == (head \o <<size>>) \o data
<1>10. q.fn = 15 \/ q.fn = 16
  OBVIOUS
<1>1. nb \in Nat /\ nb <= 1968
  OBVIOUS
<1>2. nb \in Uint16
  BY <1>1, Uint16Is
<1>3. head \in Seq(Byte) /\ Len(head) = 4
  BY <1>2, TwoWords, Zenon
<1>4. /\ size \in Nat /\ size <= 246
      /\ data \in Seq(Byte) /\ Len(data) = size
  <2> DEFINE Right == size \in Nat /\ size <= 246 /\ data \in Seq(Byte) /\ Len(data) = size
  <2>1. ASSUME q.fn = 15 PROVE Right
    <3>1. size = BytesFor(nb) /\ data = Packed(q.values) /\ q.values \in Seq({0, 1})
      BY <2>1
    <3>2. Packed(q.values) \in Seq(Byte) /\ Len(Packed(q.values)) = BytesFor(nb)
      BY <3>1, PackedType
    <3> HIDE DEF size, data
    <3>3. BytesFor(nb) \in Nat /\ BytesFor(nb) <= 246
      <4> HIDE DEF nb
      <4> QED
        BY <1>1, BytesForBounds
    <3> QED
      BY <3>1, <3>2, <3>3
  <2>2. ASSUME q.fn = 16 PROVE Right
    BY <1>1, <2>2, WordsType
  <2> HIDE DEF Right
  <2>3. Right
    BY <1>10, <2>1, <2>2
  <2> QED
    BY <2>3 DEF Right
<1>5. MultipleArguments(q) = head \o (<<size>> \o data)
  <2> DEFINE Right == MultipleArguments(q) = head \o (<<size>> \o data)
  <2>1. ASSUME q.fn = 15 PROVE Right
    BY <2>1, CodesAre, Zenon DEF MultipleArguments
  <2>2. ASSUME q.fn = 16 PROVE Right
    BY <2>2, CodesAre, Zenon DEF MultipleArguments
  <2> HIDE DEF Right
  <2>3. Right
    BY <1>10, <2>1, <2>2
  <2> QED
    BY <2>3 DEF Right
<1>6. size \in Byte
  BY <1>4, ByteIs
<1> HIDE DEF head, size, data
<1>7. /\ head \o (<<size>> \o data) = args
      /\ args \in Seq(Byte) /\ Len(args) = Len(head) + 1 + Len(data)
      /\ args[Len(head) + 1] = size
  BY <1>3, <1>4, <1>6, Announced, Zenon
<1> HIDE DEF args
<1>8. args[5] = size /\ Len(args) = 5 + size
  BY <1>3, <1>4, <1>7
<1>9. Len(args) <= 251 /\ Len(args) >= 5 /\ Len(args) = 5 + args[5]
  BY <1>4, <1>8
<1>11. MultipleArguments(q) = args
  BY <1>5, <1>7, Zenon
<1> QED
  BY <1>7, <1>9, <1>11, Zenon

\* A write and read is two addresses, two numbers, a count and as many bytes as it says.
LEMMA WriteAndReadArgumentsType ==
  ASSUME NEW q, q.addr \in Uint16, q.writeAddr \in Uint16, q.nb \in Uint16,
         q.values \in Seq(Uint16), Len(q.values) <= 121
  PROVE  /\ WriteAndReadArguments(q) \in Seq(Byte) /\ Len(WriteAndReadArguments(q)) <= 251
         /\ Len(WriteAndReadArguments(q)) >= 9
         /\ Len(WriteAndReadArguments(q)) = 9 + WriteAndReadArguments(q)[9]
<1> DEFINE nb == Len(q.values)
           read == Word(q.addr) \o Word(q.nb)
           more == read \o Word(q.writeAddr)
           head == more \o Word(nb)
           size == 2 * nb
           data == Words(q.values)
           args == (head \o <<size>>) \o data
<1>1. nb \in Nat /\ nb <= 121
  OBVIOUS
<1>2. nb \in Uint16
  BY <1>1, Uint16Is
<1>3. read \in Seq(Byte) /\ Len(read) = 4
  BY TwoWords, Zenon
<1>4. /\ Word(q.writeAddr) \in Seq(Byte) /\ Len(Word(q.writeAddr)) = 2
      /\ Word(nb) \in Seq(Byte) /\ Len(Word(nb)) = 2
  BY <1>2, WordType
<1> HIDE DEF read
<1>5. more \in Seq(Byte) /\ Len(more) = Len(read) + Len(Word(q.writeAddr))
  BY <1>3, <1>4, Together, Zenon
<1> HIDE DEF more
<1>6. head \in Seq(Byte) /\ Len(head) = Len(more) + Len(Word(nb))
  BY <1>4, <1>5, Together, Zenon
<1> HIDE DEF head
<1>7. Len(head) = 8
  BY <1>3, <1>4, <1>5, <1>6
<1>8. data \in Seq(Byte) /\ Len(data) = 2 * nb
  BY WordsType
<1>9. size \in Nat /\ size <= 242 /\ Len(data) = size
  BY <1>1, <1>8
<1>10. size \in Byte
  BY <1>9, ByteIs
<1>11. WriteAndReadArguments(q) = args
  BY Zenon DEF WriteAndReadArguments, head, more, read
<1> HIDE DEF size, data
<1>12. /\ args \in Seq(Byte) /\ Len(args) = Len(head) + 1 + Len(data)
       /\ args[Len(head) + 1] = size
  BY <1>6, <1>8, <1>10, Announced, Zenon
<1> HIDE DEF args
<1>13. args[9] = size /\ Len(args) = 9 + size
  BY <1>7, <1>9, <1>12
<1> QED
  BY <1>9, <1>11, <1>12, <1>13

\* What a request is made of, by its parts.
LEMMA RequestIs ==
  ASSUME NEW q, IsRequest(q)
  PROVE  /\ q.fn \in Byte /\ q.unit \in Byte /\ q.addr \in Uint16 /\ q.writeAddr \in Uint16
         /\ q.nb \in Nat /\ q.raw \in BOOLEAN /\ q.values \in Seq(Uint16)
         /\ q.raw => q.values \in Seq(Byte)
         /\ ~q.raw => q.fn \in {1, 2, 3, 4, 5, 6, 15, 16, 17, 22, 23}
         /\ ~q.raw /\ q.fn \in {5, 6} => Len(q.values) = 1
         /\ ~q.raw /\ q.fn = 22 => Len(q.values) = 2
         /\ ~q.raw /\ q.fn = 15 => q.values \in Seq({0, 1})
<1>1. q \in [raw : BOOLEAN, fn : Byte, unit : Byte, addr : Uint16, nb : Nat,
             values : Seq(Uint16), writeAddr : Uint16]
  BY DEF IsRequest
<1>2. /\ q.fn \in Byte /\ q.unit \in Byte /\ q.addr \in Uint16 /\ q.writeAddr \in Uint16
      /\ q.nb \in Nat /\ q.raw \in BOOLEAN /\ q.values \in Seq(Uint16)
  BY <1>1
<1>3. /\ q.raw => q.values \in Seq(Byte)
      /\ ~q.raw => q.fn \in Functions
      /\ ~q.raw /\ q.fn \in Singles => Len(q.values) = 1
      /\ ~q.raw /\ q.fn = MaskWriteRegister => Len(q.values) = 2
      /\ ~q.raw /\ q.fn = WriteMultipleCoils => q.values \in Seq({0, 1})
  BY Zenon DEF IsRequest
<1> QED
  BY <1>2, <1>3, CodesAre

\* Arguments of a client function are complete.
LEMMA ArgumentsArranged ==
  \A q : IsRequest(q) /\ ~q.raw /\ ~Refused(q) =>
           /\ Arguments(q) \in Seq(Byte) /\ Len(Arguments(q)) <= 252
           /\ Arranged(q.fn, Arguments(q))
<1>1. ASSUME NEW q, IsRequest(q), ~q.raw, ~Refused(q)
      PROVE  /\ Arguments(q) \in Seq(Byte) /\ Len(Arguments(q)) <= 252
             /\ Arranged(q.fn, Arguments(q))
  <2> DEFINE fn == q.fn
             args == Arguments(q)
             Right == args \in Seq(Byte) /\ Len(args) <= 252 /\ Arranged(fn, args)
  <2>1. /\ fn \in Byte /\ q.addr \in Uint16 /\ q.writeAddr \in Uint16 /\ q.nb \in Nat
        /\ q.values \in Seq(Uint16) /\ ~q.raw
        /\ fn \in {1, 2, 3, 4, 5, 6, 15, 16, 17, 22, 23}
    BY <1>1, RequestIs
  <2>2. /\ fn \in {5, 6} => Len(q.values) = 1
        /\ fn = 22 => Len(q.values) = 2
        /\ fn = 15 => q.values \in Seq({0, 1})
    BY <1>1, RequestIs
  <2>3. /\ fn \in {1, 2} => ~(q.nb > 2000)
        /\ fn \in {3, 4, 23} => ~(q.nb > 125)
        /\ fn = 15 => ~(Len(q.values) > 1968)
        /\ fn = 16 => ~(Len(q.values) > 123)
        /\ fn = 23 => ~(Len(q.values) > 121)
    BY <1>1, NotRefused
  <2>4. ASSUME fn \in {1, 2, 3, 4, 23} PROVE q.nb \in Uint16
    BY <2>1, <2>3, <2>4, Uint16Is
  <2>5. ASSUME fn \in {5, 6, 22} PROVE q.values[1] \in Uint16
    BY <2>1, <2>2, <2>5
  <2>6. ASSUME fn \in {1, 2, 3, 4} PROVE Right
    <3>1. args \in Seq(Byte) /\ Len(args) = 4
      BY <2>1, <2>4, <2>6, ArgumentsAre, ReadArgumentsType
    <3> HIDE DEF args, fn
    <3> QED
      BY <2>6, <3>1 DEF Arranged
  <2>7. ASSUME fn \in {5, 6} PROVE Right
    <3>1. args \in Seq(Byte) /\ Len(args) = 4
      BY <2>1, <2>5, <2>7, ArgumentsAre, SingleArgumentsType
    <3> HIDE DEF args, fn
    <3> QED
      BY <2>7, <3>1 DEF Arranged
  <2>8. ASSUME fn \in {15, 16} PROVE Right
    <3>1. \/ q.fn = 15 /\ q.values \in Seq({0, 1}) /\ Len(q.values) <= 1968
          \/ q.fn = 16 /\ Len(q.values) <= 123
      BY <2>1, <2>2, <2>3, <2>8
    <3>2. args = MultipleArguments(q)
      BY <2>1, <2>8, ArgumentsAre
    <3>3. /\ args \in Seq(Byte) /\ Len(args) <= 251
          /\ Len(args) >= 5 /\ Len(args) = 5 + args[5]
      BY <2>1, <3>1, <3>2, MultipleArgumentsType
    <3> HIDE DEF args, fn
    <3> QED
      BY <2>8, <3>3 DEF Arranged
  <2>9. ASSUME fn = 22 PROVE Right
    <3>1. q.values[2] \in Uint16
      BY <2>1, <2>2, <2>9
    <3>2. args \in Seq(Byte) /\ Len(args) = 6
      BY <2>1, <2>5, <2>9, <3>1, ArgumentsAre, MaskArgumentsType
    <3> HIDE DEF args, fn
    <3> QED
      BY <2>9, <3>2 DEF Arranged
  <2>10. ASSUME fn = 23 PROVE Right
    <3>1. Len(q.values) <= 121
      BY <2>1, <2>3, <2>10
    <3>2. args = WriteAndReadArguments(q)
      BY <2>1, <2>10, ArgumentsAre
    <3>3. /\ args \in Seq(Byte) /\ Len(args) <= 251
          /\ Len(args) >= 9 /\ Len(args) = 9 + args[9]
      BY <2>1, <2>4, <2>10, <3>1, <3>2, WriteAndReadArgumentsType
    <3> HIDE DEF args, fn
    <3> QED
      BY <2>10, <3>3 DEF Arranged
  <2>11. ASSUME fn = 17 PROVE Right
    <3>1. args = <<>>
      BY <2>1, <2>11, ArgumentsAre
    <3>2. args \in Seq(Byte) /\ Len(args) = 0
      BY <3>1
    <3> HIDE DEF args, fn
    <3> QED
      BY <2>11, <3>2 DEF Arranged
  <2> HIDE DEF Right
  <2>12. Right
    BY <2>1, <2>6, <2>7, <2>8, <2>9, <2>10, <2>11
  <2> QED
    BY <2>12 DEF Right
<1> QED
  BY <1>1

\* What the client functions send, and a raw request: a function code with its data.
LEMMA RequestPduType ==
  \A q : IsRequest(q) /\ ~Refused(q) =>
           /\ RequestPdu(q) \in Seq(Byte) /\ Len(RequestPdu(q)) >= 1 /\ Len(RequestPdu(q)) <= 253
           /\ RequestPdu(q)[1] = q.fn
           /\ Complete(q) /\ (q.fn <= 7 \/ q.fn \in Functions) => IsPdu("indication", RequestPdu(q))
<1>1. ASSUME NEW q, IsRequest(q), ~Refused(q)
      PROVE  /\ RequestPdu(q) \in Seq(Byte) /\ Len(RequestPdu(q)) >= 1 /\ Len(RequestPdu(q)) <= 253
             /\ RequestPdu(q)[1] = q.fn
             /\ Complete(q) /\ (q.fn <= 7 \/ q.fn \in Functions) => IsPdu("indication", RequestPdu(q))
  <2> DEFINE fn == q.fn
             args == Arguments(q)
             pdu == <<fn>> \o args
  <2>1. fn \in Byte
    BY <1>1, RequestIs
  <2>2. args \in Seq(Byte) /\ Len(args) <= 252
    <3>1. CASE q.raw
      <4>1. q.values \in Seq(Byte) /\ ~(Len(q.values) > 252) /\ args = q.values
        BY <1>1, <3>1, RequestIs, NotRefused, ArgumentsAre
      <4> QED
        BY <4>1
    <3>2. CASE ~q.raw
      BY <1>1, <3>2, ArgumentsArranged
    <3> QED
      BY <3>1, <3>2
  <2>3. ASSUME Complete(q) PROVE Arranged(fn, args)
    <3>1. CASE q.raw
      <4>1. args = q.values
        BY <3>1, ArgumentsAre
      <4>2. /\ fn <= WriteSingleRegister => Len(args) = 4
            /\ fn \in Multiples => Len(args) >= 5 /\ Len(args) = 5 + args[5]
            /\ fn \in {ReadExceptionStatus, ReportSlaveId} => args = <<>>
            /\ fn = MaskWriteRegister => Len(args) = 6
            /\ fn = WriteAndReadRegisters => Len(args) >= 9 /\ Len(args) = 9 + args[9]
        BY <2>3, <3>1, <4>1, Zenon DEF Complete
      <4>3. Len(<<>>) = 0
        OBVIOUS
      <4> HIDE DEF args, fn
      <4> QED
        BY <4>2, <4>3, CodesAre DEF Arranged
    <3>2. CASE ~q.raw
      BY <1>1, <3>2, ArgumentsArranged
    <3> QED
      BY <3>1, <3>2
  <2>4. fn \in Functions => fn <= 7 \/ fn \in {15, 16, 17, 22, 23}
    BY CodesAre
  <2> HIDE DEF fn, args
  <2>5. /\ pdu \in Seq(Byte) /\ Len(pdu) = 1 + Len(args) /\ pdu[1] = fn
        /\ Arranged(fn, args) /\ (fn <= 7 \/ fn \in {15, 16, 17, 22, 23})
           => IsPdu("indication", pdu)
    BY <2>1, <2>2, PduOfArguments
  <2>6. RequestPdu(q) = pdu
    BY Zenon DEF RequestPdu, fn, args
  <2> HIDE DEF pdu
  <2>7. Len(args) \in Nat /\ Len(pdu) >= 1 /\ Len(pdu) <= 253
    BY <2>2, <2>5
  <2>8. ASSUME Complete(q), fn <= 7 \/ fn \in Functions PROVE IsPdu("indication", pdu)
    BY <2>3, <2>4, <2>5, <2>8
  <2> QED
    BY <2>5, <2>6, <2>7, <2>8 DEF fn
<1> QED
  BY <1>1

-----------------------------------------------------------------------------
\* What the actions do to the bytes under way.
LEMMA DropType == \A buf \in Seq(Byte) : \A n \in Nat : Drop(buf, n) \in Seq(Byte)
<1>1. ASSUME NEW buf \in Seq(Byte), NEW n \in Nat PROVE SubSeq(buf, n + 1, Len(buf)) \in Seq(Byte)
  OBVIOUS
<1> QED
  BY <1>1 DEF Drop

\* A damaged frame is a sequence of bytes.
LEMMA DamagedType == \A buf \in Seq(Byte) : Damaged(buf) \subseteq Seq(Byte)
<1>1. ASSUME NEW buf \in Seq(Byte), NEW i \in DOMAIN buf
      PROVE  [buf EXCEPT ![i] = (@ + 1) % 256] \in Seq(Byte)
  <2> DEFINE new == (buf[i] + 1) % 256
  <2>1. buf[i] \in Byte
    OBVIOUS
  <2>2. buf[i] \in Int
    BY <2>1, ByteIs
  <2>3. new \in Int /\ 0 <= new /\ new <= 255
    BY <2>2
  <2>4. new \in Byte
    BY <2>3, ByteIs
  <2> HIDE DEF new
  <2>5. [buf EXCEPT ![i] = new] \in Seq(Byte)
    BY <2>4
  <2> QED
    BY <2>5 DEF new
<1>2. ASSUME NEW buf \in Seq(Byte), NEW i \in DOMAIN buf
      PROVE  RemoveAt(buf, i) \in Seq(Byte)
  <2>1. i \in Int /\ 1 <= i /\ i <= Len(buf)
    OBVIOUS
  <2>2. SubSeq(buf, 1, i - 1) \in Seq(Byte) /\ SubSeq(buf, i + 1, Len(buf)) \in Seq(Byte)
    BY <2>1
  <2> QED
    BY <2>2, Together, Zenon DEF RemoveAt
<1> QED
  BY <1>1, <1>2 DEF Damaged

\* What the client puts on the line is a sequence of bytes.
LEMMA FrameType ==
  ASSUME backend \in Backends, NEW q, IsRequest(q), ~Refused(q), NEW id \in Uint16
  PROVE  Frame(q, id) \in Seq(Byte)
<1> DEFINE number == IF q.raw THEN 0 ELSE id
<1>1. number \in Uint16
  BY Uint16Is
<1>2. q.unit \in Byte
  BY RequestIs
<1>3. RequestPdu(q) \in Seq(Byte) /\ Len(RequestPdu(q)) <= 253
  BY RequestPduType
<1> HIDE DEF number
<1>4. Adu(backend, number, q.unit, RequestPdu(q)) \in Seq(Byte)
  BY <1>1, <1>2, <1>3, AduType
<1> QED
  BY <1>4, Zenon DEF Frame, number

\* The identifier wraps around at 16 bits.
LEMMA NextTidType == \A q : tid \in Uint16 => NextTid(q) \in Uint16
<1>1. ASSUME tid \in Uint16 PROVE (tid + 1) % 65536 \in Uint16
  <2>1. tid \in Int /\ 0 <= tid /\ tid <= 65535
    BY <1>1, Uint16Is
  <2>2. (tid + 1) % 65536 \in Int /\ 0 <= (tid + 1) % 65536 /\ (tid + 1) % 65536 <= 65535
    BY <2>1
  <2> QED
    BY <2>2, Uint16Is
<1> QED
  BY <1>1 DEF NextTid

\* The frame around an answer.
LEMMA AnswerType ==
  ASSUME backend \in Backends, NEW req, IsMessage("indication", backend, req),
         NEW pdu \in Seq(Byte), Len(pdu) <= 253
  PROVE  /\ WordAt(req, 1) \in Uint16 /\ req[HeaderLength[backend]] \in Byte
         /\ Adu(backend, WordAt(req, 1), req[HeaderLength[backend]], pdu) \in Seq(Byte)
<1> DEFINE h == HeaderLength[backend]
<1>1. h \in {1, 7} /\ req \in Seq(Byte) /\ Len(req) \in Nat /\ Len(req) >= h + 1
  BY RequestShape
<1> HIDE DEF h
<1>2. WordAt(req, 1) \in Uint16
  <2>1. 1 \in 1 .. Len(req) - 1
    BY <1>1
  <2> QED
    BY <1>1, <2>1, WordAtType
<1>3. req[h] \in Byte
  <2>1. h \in 1 .. Len(req)
    BY <1>1
  <2> QED
    BY <1>1, <2>1
<1>4. Adu(backend, WordAt(req, 1), req[h], pdu) \in Seq(Byte)
  BY <1>2, <1>3, AduType
<1> QED
  BY <1>2, <1>3, <1>4 DEF h

\* A message refused for its length announces some length.
LEMMA ReadTooMuch ==
  ASSUME NEW type \in Types, NEW b \in Backends, NEW buf \in Seq(Byte), TooLong(type, b, buf)
  PROVE  HeaderLength[b] + 1 + MetaLength(type, buf[HeaderLength[b] + 1]) \in Nat
<1> DEFINE h == HeaderLength[b]
           most == MaxAdu[b]
<1>1. h \in {1, 7} /\ most \in Nat /\ most > 8
  BY LengthsAre
<1>2. Len(buf) > h
  <2>1. SUFFICES ASSUME Len(buf) <= h PROVE FALSE
    BY <1>1
  <2>2. Wanted(type, b, buf) = h + 1
    BY <2>1 DEF Wanted
  <2>3. Wanted(type, b, buf) > most
    BY DEF TooLong
  <2> HIDE DEF h, most
  <2> QED
    BY <1>1, <2>2, <2>3
<1> DEFINE more == MetaLength(type, buf[h + 1])
<1>3. more \in 0 .. 9
  BY <1>1, <1>2, LengthsType
<1> HIDE DEF more, h
<1>4. h + 1 + more \in Nat
  BY <1>1, <1>3
<1> QED
  BY <1>4 DEF h, more
-----------------------------------------------------------------------------
\* The messages that the other slave has to answer are whole.
OthersWhole ==
  /\ backend = "tcp" => otherAsked = <<>>
  /\ \A i \in 1 .. Len(otherAsked) : IsMessage("indication", backend, otherAsked[i])
TypeInv == TypeOK /\ OthersWhole

\* The parts of the state that the actions leave to each other.
SameOthers == otherAsked' = otherAsked /\ backend' = backend

\* What is sent to another slave stays whole while nothing of it changes.
LEMMA OthersKept == OthersWhole /\ SameOthers => OthersWhole'
BY DEF OthersWhole, SameOthers

\* The type invariant holds at the start,
LEMMA InitTyped == Init => TypeInv
<1> SUFFICES ASSUME Init PROVE TypeInv
  OBVIOUS
<1> USE DEF Init
<1>1. \A name \in BlockNames : DOMAIN mapping[name] = DOMAIN InitialMapping[name]
  OBVIOUS
<1>2. IsMapping(mapping)
  BY MappingsAssumption
<1>3. tid \in Uint16 /\ calls \in 0 .. MaxCalls
  BY Uint16Is, BoundsAssumption
<1>4. toServer \in Seq(Byte) /\ toClient \in Seq(Byte) /\ otherAsked \in Seq(Seq(Byte))
  OBVIOUS
<1>5. result.outcome = "none"
  BY DEF Pending
<1>6. TypeOK
  BY <1>1, <1>2, <1>3, <1>4, <1>5 DEF TypeOK
<1>7. OthersWhole
  BY DEF OthersWhole
<1> QED
  BY <1>6, <1>7 DEF TypeInv

\* What a call that begins keeps.
LEMMA BeginTyped ==
  ASSUME TypeOK, NEW q \in Requests, Begin(q)
  PROVE  calls' \in 0 .. MaxCalls /\ request' \in Requests
BY BoundsAssumption DEF TypeOK, Begin

\* through a request that is refused,
LEMMA RefuseTyped == ASSUME TypeInv, NEW q \in Requests, Refuse(q) PROVE TypeInv'
<1>1. calls' \in 0 .. MaxCalls /\ request' \in Requests
  BY BeginTyped DEF TypeInv, Refuse
<1>2. OthersWhole'
  BY OthersKept DEF TypeInv, Refuse, SameOthers, context
<1>3. result'.outcome = "error"
  BY DEF Refuse, Return
<1>4. TypeOK'
  BY <1>1, <1>3 DEF TypeInv, TypeOK, Refuse, context, server
<1> QED
  BY <1>2, <1>4 DEF TypeInv

\* one that is sent,
LEMMA AskTyped == ASSUME TypeInv, NEW q \in Requests, Ask(q) PROVE TypeInv'
<1> DEFINE adu == Frame(q, tid')
<1>1. /\ backend \in Backends /\ tid \in Uint16 /\ toServer \in Seq(Byte)
      /\ otherAsked \in Seq(Seq(Byte))
  BY DEF TypeInv, TypeOK
<1>2. IsRequest(q) /\ ~Refused(q) /\ tid' = NextTid(q)
  BY RequestsAssumption DEF Ask
<1>3. tid' \in Uint16
  BY <1>1, <1>2, NextTidType
<1>4. adu \in Seq(Byte)
  BY <1>1, <1>2, <1>3, FrameType
<1>5. calls' \in 0 .. MaxCalls /\ request' \in Requests
  BY BeginTyped DEF TypeInv, Ask
<1> HIDE DEF adu
<1>6. /\ toServer' = IF conn = "up" THEN toServer \o adu ELSE toServer
      /\ otherAsked' = IF /\ backend = "rtu" /\ q.unit \in {OtherUnit, BroadcastAddress}
                           /\ Whole("indication", adu)
                       THEN Append(otherAsked, NextMessage("indication", adu)) ELSE otherAsked
  BY DEF Ask, adu
<1>7. toServer' \in Seq(Byte)
  <2>1. toServer \o adu \in Seq(Byte)
    BY <1>1, <1>4, Together, Zenon
  <2> QED
    BY <1>1, <1>6, <2>1, Zenon
<1>8. ASSUME Whole("indication", adu)
      PROVE  IsMessage("indication", backend, NextMessage("indication", adu))
  BY <1>1, <1>4, <1>8, MessageTaken DEF Types
<1>9. \A m : IsMessage("indication", backend, m) => m \in Seq(Byte)
  BY DEF IsMessage
<1>10. otherAsked' \in Seq(Seq(Byte)) /\ OthersWhole'
  <2>1. CASE otherAsked' = otherAsked
    BY <1>1, <2>1, OthersKept DEF TypeInv, SameOthers, Ask, context
  <2>2. CASE /\ backend = "rtu" /\ Whole("indication", adu)
             /\ otherAsked' = Append(otherAsked, NextMessage("indication", adu))
    <3> DEFINE new == NextMessage("indication", adu)
    <3>1. IsMessage("indication", backend, new) /\ new \in Seq(Byte)
      BY <1>8, <1>9, <2>2
    <3>2. backend' = backend /\ backend # "tcp"
      BY <2>2 DEF Ask, context
    <3>3. \A i \in 1 .. Len(otherAsked) : IsMessage("indication", backend, otherAsked[i])
      BY DEF TypeInv, OthersWhole
    <3> HIDE DEF new
    <3>4. /\ otherAsked' \in Seq(Seq(Byte)) /\ Len(otherAsked') = Len(otherAsked) + 1
          /\ \A i \in 1 .. Len(otherAsked) : otherAsked'[i] = otherAsked[i]
          /\ otherAsked'[Len(otherAsked) + 1] = new
      BY <1>1, <2>2, <3>1 DEF new
    <3>5. \A i \in 1 .. Len(otherAsked') : i \in 1 .. Len(otherAsked) \/ i = Len(otherAsked) + 1
      BY <1>1, <3>4
    <3>6. \A i \in 1 .. Len(otherAsked') : IsMessage("indication", backend, otherAsked'[i])
      BY <3>1, <3>3, <3>4, <3>5, Zenon
    <3> QED
      BY <3>2, <3>4, <3>6 DEF OthersWhole
  <2> QED
    BY <1>6, <2>1, <2>2, Zenon
<1>11. TypeOK'
  BY <1>3, <1>5, <1>7, <1>10 DEF TypeInv, TypeOK, Ask, context, server
<1> QED
  BY <1>10, <1>11 DEF TypeInv

\* one that finds the connection broken,
LEMMA AskFailsTyped == ASSUME TypeInv, NEW q \in Requests, AskFails(q) PROVE TypeInv'
<1>1. backend \in Backends /\ tid \in Uint16
  BY DEF TypeInv, TypeOK
<1>2. IsRequest(q) /\ ~Refused(q) /\ tid' = NextTid(q)
  BY RequestsAssumption DEF AskFails
<1>3. tid' \in Uint16
  BY <1>1, <1>2, NextTidType
<1>4. Frame(q, tid') \in Seq(Byte)
  BY <1>1, <1>2, <1>3, FrameType
<1>5. calls' \in 0 .. MaxCalls /\ request' \in Requests
  BY BeginTyped DEF TypeInv, AskFails
<1>6. OthersWhole'
  BY OthersKept DEF TypeInv, AskFails, SameOthers, context
<1>7. <<>> \in Seq(Byte)
  OBVIOUS
<1>8. /\ \/ toServer' = Frame(q, tid') /\ toClient' = <<>> /\ conn' = "up" /\ pc' = "waiting"
            /\ result' = result
         \/ /\ toServer' = toServer /\ toClient' = toClient /\ conn' = conn /\ pc' = pc
            /\ result' = [outcome |-> "error", values |-> <<>>]
      /\ asked' = asked \cup {q}
  BY DEF AskFails, Return
<1>9. toServer' \in Seq(Byte) /\ toClient' \in Seq(Byte)
  BY <1>4, <1>7, <1>8 DEF TypeInv, TypeOK
<1>10. /\ conn' \in {"up", "closed"} /\ pc' \in {"idle", "waiting", "flushing"}
       /\ result'.outcome \in {"none", "ok", "raw", "error"}
  BY <1>8 DEF TypeInv, TypeOK
<1>11. TypeOK'
  BY <1>3, <1>5, <1>8, <1>9, <1>10 DEF TypeInv, TypeOK, AskFails, context, server
<1> QED
  BY <1>6, <1>11 DEF TypeInv

\* A call that ends changes the caller's side alone.
LEMMA ReturnTyped ==
  ASSUME TypeInv, pc' \in {"idle", "flushing"}, toClient' \in Seq(Byte),
         result'.outcome \in {"ok", "raw", "error"},
         UNCHANGED <<context, call, conn, toServer, server, otherAsked>>
  PROVE  TypeInv'
<1>1. OthersWhole'
  BY OthersKept DEF TypeInv, SameOthers, context
<1>2. TypeOK'
  BY DEF TypeInv, TypeOK, context, call, server
<1> QED
  BY <1>1, <1>2 DEF TypeInv

\* a call that fails,
LEMMA FailsTyped ==
  ASSUME TypeInv, NEW n \in Nat, NEW flushes, Fails(n, flushes)
  PROVE  /\ pc' \in {"idle", "flushing"} /\ toClient' \in Seq(Byte)
         /\ result'.outcome \in {"ok", "raw", "error"}
<1>1. toClient \in Seq(Byte)
  BY DEF TypeInv, TypeOK
<1>2. toClient' = Drop(toClient, n)
  BY DEF Fails
<1> QED
  BY <1>1, <1>2, DropType DEF Fails, Return

\* an answer received,
LEMMA ClientReceivesTyped == ASSUME TypeInv, ClientReceives PROVE TypeInv'
<1> DEFINE rsp == NextMessage("confirmation", toClient)
           length == Integrity(rsp, request.unit)
           verdict == IF request.raw THEN "raw"
                      ELSE Confirmation(Frame(request, tid), rsp, length, backend)
           values == IF request.raw THEN <<>> ELSE ValuesOf(request, rsp, backend)
           damaged == length = -1
           good == length >= 0 /\ verdict \in {"ok", "raw"}
           A == /\ pc' = "idle"
                /\ toClient' = IF recovery THEN <<>> ELSE Drop(toClient, Len(rsp))
                /\ Return("error", <<>>)
           B == /\ pc' = "idle"
                /\ toClient' = Drop(toClient, Len(rsp))
                /\ Return(verdict, values)
           C == Fails(Len(rsp), verdict = "bad")
           Right == /\ pc' \in {"idle", "flushing"} /\ toClient' \in Seq(Byte)
                    /\ result'.outcome \in {"ok", "raw", "error"}
<1>1. backend \in Backends /\ toClient \in Seq(Byte) /\ Whole("confirmation", toClient)
  BY DEF TypeInv, TypeOK, ClientReceives
<1>2. rsp \in Seq(Byte) /\ Len(rsp) \in Nat
  <2>1. IsMessage("confirmation", backend, rsp)
    BY <1>1, MessageTaken DEF Types
  <2> QED
    BY <2>1 DEF IsMessage
<1>3. (CASE damaged -> A [] good -> B [] OTHER -> C)
  BY Zenon DEF ClientReceives
<1> HIDE DEF rsp
<1>4. Drop(toClient, Len(rsp)) \in Seq(Byte) /\ <<>> \in Seq(Byte)
  BY <1>1, <1>2, DropType
<1>5. A => Right
  BY <1>4 DEF Return
<1>6. B /\ good => Right
  <2> HIDE DEF verdict, values
  <2> QED
    BY <1>4 DEF Return
<1>7. C => Right
  BY <1>2, FailsTyped
<1> HIDE DEF A, B, C, damaged, good, Right
<1>8. Right
  BY <1>3, <1>5, <1>6, <1>7, Zenon
<1> QED
  BY <1>8, ReturnTyped DEF Right, ClientReceives

\* any way a call returns,
LEMMA ReturnsTyped == ASSUME TypeInv, Returns PROVE TypeInv'
<1>1. backend \in Backends /\ toClient \in Seq(Byte)
  BY DEF TypeInv, TypeOK
<1>2. CASE ClientReceives
  BY <1>2, ClientReceivesTyped
<1>3. CASE ClientReceivesTooLong
  <2> DEFINE n == HeaderLength[backend] + 1
                  + MetaLength("confirmation", toClient[HeaderLength[backend] + 1])
  <2>1. TooLong("confirmation", backend, toClient) /\ Fails(n, FALSE)
    BY <1>3 DEF ClientReceivesTooLong
  <2>2. n \in Nat
    BY <1>1, <2>1, ReadTooMuch DEF Types
  <2> HIDE DEF n
  <2> QED
    BY <1>3, <2>1, <2>2, FailsTyped, ReturnTyped DEF ClientReceivesTooLong
<1>4. CASE ClientFindsEnd
  <2>1. pc' = "idle" /\ toClient' = <<>> /\ result'.outcome = "error"
    BY <1>4 DEF ClientFindsEnd, Return
  <2>2. \/ conn' = "up" /\ toServer' = <<>>
        \/ conn' = conn /\ toServer' = toServer
    BY <1>4 DEF ClientFindsEnd
  <2>3. OthersWhole'
    BY <1>4, OthersKept DEF TypeInv, SameOthers, ClientFindsEnd, context
  <2>4. <<>> \in Seq(Byte)
    OBVIOUS
  <2>5. TypeOK'
    BY <1>4, <2>1, <2>2, <2>4 DEF TypeInv, TypeOK, ClientFindsEnd, context, call, server
  <2> QED
    BY <2>3, <2>5 DEF TypeInv
<1>5. CASE Flush
  <2>1. OthersWhole'
    BY <1>5, OthersKept DEF TypeInv, SameOthers, Flush, context
  <2>2. <<>> \in Seq(Byte)
    OBVIOUS
  <2>3. TypeOK'
    BY <1>5, <2>2 DEF TypeInv, TypeOK, Flush, context, call, server
  <2> QED
    BY <2>1, <2>3 DEF TypeInv
<1>6. ASSUME NEW n \in 0 .. Len(toClient), ClientTimesOut(n) PROVE TypeInv'
  <2>1. n \in Nat
    BY <1>1
  <2>2. Fails(n, TRUE)
    BY <1>6 DEF ClientTimesOut
  <2> QED
    BY <1>6, <2>1, <2>2, FailsTyped, ReturnTyped DEF ClientTimesOut
<1> QED
  BY <1>2, <1>3, <1>4, <1>5, <1>6 DEF Returns

\* A message that the server takes changes neither the client nor the other slave.
LEMMA ServedTyped ==
  ASSUME TypeInv, conn' \in {"up", "closed"}, toServer' \in Seq(Byte), toClient' \in Seq(Byte),
         IsMapping(mapping'),
         \A name \in BlockNames : DOMAIN mapping'[name] = DOMAIN mapping[name],
         ignoring' \in BOOLEAN, UNCHANGED <<context, pc, call, otherAsked, result>>
  PROVE  TypeInv'
<1>1. OthersWhole'
  BY OthersKept DEF TypeInv, SameOthers, context
<1>2. \A name \in BlockNames : DOMAIN mapping'[name] = DOMAIN InitialMapping[name]
  BY DEF TypeInv, TypeOK
<1>3. TypeOK'
  BY <1>2 DEF TypeInv, TypeOK, context, call
<1> QED
  BY <1>1, <1>3 DEF TypeInv

\* a message taken by the server,
LEMMA TakenTyped ==
  ASSUME TypeInv, NEW type \in Types, Whole(type, toServer)
  PROVE  /\ IsMessage(type, backend, NextMessage(type, toServer))
         /\ Drop(toServer, Len(NextMessage(type, toServer))) \in Seq(Byte)
BY MessageTaken DEF TypeInv, TypeOK

\* an answer sent,
LEMMA ServerRepliesTyped == ASSUME TypeInv, ServerReplies PROVE TypeInv'
<1> DEFINE req == NextMessage("indication", toServer)
           h == HeaderLength[backend]
           reply == Reply(req, backend, mapping)
           adu == Adu(backend, WordAt(req, 1), req[h], reply.pdu)
<1>1. /\ backend \in Backends /\ toServer \in Seq(Byte) /\ toClient \in Seq(Byte)
      /\ IsMapping(mapping) /\ ignoring \in BOOLEAN /\ conn \in {"up", "closed"}
  BY DEF TypeInv, TypeOK
<1>2. IsMessage("indication", backend, req) /\ Drop(toServer, Len(req)) \in Seq(Byte)
  BY TakenTyped DEF ServerReplies, Types
<1>3. /\ mapping' = reply.mapping
      /\ toServer' = IF reply.flush THEN <<>> ELSE Drop(toServer, Len(req))
      /\ toClient' = IF reply.pdu = <<>> \/ (backend = "rtu" /\ req[h] = BroadcastAddress)
                     THEN toClient ELSE toClient \o adu
      /\ UNCHANGED <<context, pc, call, conn, ignoring, otherAsked, result>>
  BY DEF ServerReplies
<1> HIDE DEF req
<1>4. IsReply(req[h + 1], mapping, reply)
  BY <1>1, <1>2, ReplyType
<1> HIDE DEF reply
<1>5. reply.pdu \in Seq(Byte) /\ Len(reply.pdu) <= 253
  BY <1>4 DEF IsReply
<1>6. adu \in Seq(Byte)
  BY <1>1, <1>2, <1>5, AnswerType
<1> HIDE DEF adu
<1>7. toClient' \in Seq(Byte)
  <2>1. toClient \o adu \in Seq(Byte)
    BY <1>1, <1>6, Together, Zenon
  <2> QED
    BY <1>1, <1>3, <2>1, Zenon
<1>8. toServer' \in Seq(Byte)
  BY <1>2, <1>3
<1>9. IsMapping(mapping') /\ \A name \in BlockNames : DOMAIN mapping'[name] = DOMAIN mapping[name]
  BY <1>3, <1>4 DEF IsReply
<1> QED
  BY <1>1, <1>3, <1>7, <1>8, <1>9, ServedTyped

\* an answer sent by a server that is busy,
LEMMA ServerIsBusyTyped == ASSUME TypeInv, ServerIsBusy PROVE TypeInv'
<1> DEFINE req == NextMessage("indication", toServer)
           h == HeaderLength[backend]
           pdu == ReplyException(req, backend, 6)
           adu == Adu(backend, WordAt(req, 1), req[h], pdu)
<1>1. /\ backend \in Backends /\ toClient \in Seq(Byte) /\ IsMapping(mapping)
      /\ ignoring \in BOOLEAN /\ conn \in {"up", "closed"}
  BY DEF TypeInv, TypeOK
<1>2. IsMessage("indication", backend, req) /\ Drop(toServer, Len(req)) \in Seq(Byte)
  BY TakenTyped DEF ServerIsBusy, Types
<1>3. /\ toServer' = Drop(toServer, Len(req))
      /\ toClient' = toClient \o adu
      /\ UNCHANGED <<context, pc, call, conn, server, otherAsked, result>>
  BY DEF ServerIsBusy
<1> HIDE DEF req
<1>4. pdu \in Seq(Byte) /\ Len(pdu) <= 253
  <2>1. req[h + 1] \in Byte
    BY <1>1, <1>2, RequestShape
  <2>2. 6 \in Byte
    BY ByteIs
  <2>3. pdu \in Seq(Byte) /\ Len(pdu) = 2
    BY <2>1, <2>2, ExceptionPduType DEF ReplyException
  <2> HIDE DEF pdu
  <2> QED
    BY <2>3
<1> HIDE DEF pdu
<1>5. adu \in Seq(Byte)
  BY <1>1, <1>2, <1>4, AnswerType
<1> HIDE DEF adu
<1>6. toClient' \in Seq(Byte)
  BY <1>1, <1>3, <1>5, Together, Zenon
<1> QED
  BY <1>1, <1>2, <1>3, <1>6, ServedTyped DEF server

\* a message the server gives up on,
LEMMA ServerGivesUpTyped ==
  ASSUME TypeInv, NEW n \in 0 .. Len(toServer), ServerGivesUp(n) PROVE TypeInv'
<1>1. /\ toServer \in Seq(Byte) /\ toClient \in Seq(Byte) /\ IsMapping(mapping)
      /\ conn \in {"up", "closed"}
  BY DEF TypeInv, TypeOK
<1>2. n \in Nat
  BY <1>1
<1>3. Drop(toServer, n) \in Seq(Byte) /\ <<>> \in Seq(Byte)
  BY <1>1, <1>2, DropType
<1>4. /\ ignoring' = FALSE
      /\ \/ conn' = "closed" /\ toServer' = <<>>
         \/ toServer' = Drop(toServer, n) /\ conn' = conn
      /\ UNCHANGED <<context, pc, call, toClient, mapping, otherAsked, result>>
  BY DEF ServerGivesUp
<1>5. conn' \in {"up", "closed"} /\ toServer' \in Seq(Byte) /\ ignoring' \in BOOLEAN
  BY <1>1, <1>3, <1>4
<1> QED
  BY <1>1, <1>4, <1>5, ServedTyped

\* an answer of the other slave,
LEMMA OtherAnswersTyped == ASSUME TypeInv, OtherAnswers PROVE TypeInv'
<1> DEFINE req == Head(otherAsked)
           reply == Reply(req, backend, OtherMapping)
           adu == Adu(backend, 0, OtherUnit, reply.pdu)
<1>1. /\ backend \in Backends /\ toServer \in Seq(Byte) /\ toClient \in Seq(Byte)
      /\ otherAsked \in Seq(Seq(Byte)) /\ otherAsked # <<>>
  BY DEF TypeInv, TypeOK, OtherAnswers
<1>2. /\ otherAsked' = Tail(otherAsked)
      /\ \/ toServer' = toServer \o adu /\ toClient' = toClient \o adu
         \/ toServer' = toServer /\ toClient' = toClient
      /\ UNCHANGED <<context, pc, call, conn, server, result>>
  BY DEF OtherAnswers
<1>3. \A i \in 1 .. Len(otherAsked) : IsMessage("indication", backend, otherAsked[i])
  BY DEF TypeInv, OthersWhole
<1>4. IsMessage("indication", backend, req)
  <2>1. 1 \in 1 .. Len(otherAsked) /\ req = otherAsked[1]
    BY <1>1
  <2> QED
    BY <1>3, <2>1
<1>5. /\ otherAsked' \in Seq(Seq(Byte)) /\ Len(otherAsked') = Len(otherAsked) - 1
      /\ \A i \in 1 .. Len(otherAsked') : i + 1 \in 1 .. Len(otherAsked) /\ otherAsked'[i] = otherAsked[i + 1]
  BY <1>1, <1>2
<1>6. backend' = backend /\ backend # "tcp"
  BY <1>1, <1>2 DEF TypeInv, OthersWhole, context
<1>7. OthersWhole'
  BY <1>3, <1>5, <1>6 DEF OthersWhole
<1> HIDE DEF req
<1>8. IsReply(req[HeaderLength[backend] + 1], OtherMapping, reply)
  BY <1>1, <1>4, MappingsAssumption, ReplyType
<1> HIDE DEF reply
<1>9. reply.pdu \in Seq(Byte) /\ Len(reply.pdu) <= 253
  BY <1>8 DEF IsReply
<1>10. adu \in Seq(Byte)
  <2>1. 0 \in Uint16 /\ OtherUnit \in Byte
    BY UnitsAssumption, ByteIs, Uint16Is
  <2> QED
    BY <1>1, <1>9, <2>1, AduType
<1> HIDE DEF adu
<1>11. toServer' \in Seq(Byte) /\ toClient' \in Seq(Byte)
  <2>1. toServer \o adu \in Seq(Byte) /\ toClient \o adu \in Seq(Byte)
    BY <1>1, <1>10, Together, Zenon
  <2> QED
    BY <1>1, <1>2, <2>1, Zenon
<1>12. TypeOK'
  BY <1>2, <1>5, <1>11 DEF TypeInv, TypeOK, context, call, server
<1> QED
  BY <1>7, <1>12 DEF TypeInv

\* any step of the server,
LEMMA ServerTyped == ASSUME TypeInv, Server PROVE TypeInv'
<1>1. /\ toClient \in Seq(Byte) /\ IsMapping(mapping) /\ ignoring \in BOOLEAN
      /\ conn \in {"up", "closed"}
  BY DEF TypeInv, TypeOK
<1>2. CASE ServerIgnores
  <2>1. Drop(toServer, Len(NextMessage("confirmation", toServer))) \in Seq(Byte)
    BY <1>2, TakenTyped DEF ServerIgnores, Types
  <2>2. toServer' \in Seq(Byte) /\ ignoring' \in BOOLEAN
    BY <1>2, <2>1 DEF ServerIgnores
  <2> QED
    BY <1>1, <1>2, <2>2, ServedTyped DEF ServerIgnores
<1>3. CASE ServerPassesOver
  <2>1. Drop(toServer, Len(NextMessage("indication", toServer))) \in Seq(Byte)
    BY <1>3, TakenTyped DEF ServerPassesOver, Types
  <2>2. toServer' \in Seq(Byte) /\ ignoring' \in BOOLEAN
    BY <1>3, <2>1 DEF ServerPassesOver
  <2> QED
    BY <1>1, <1>3, <2>2, ServedTyped DEF ServerPassesOver
<1>4. CASE ServerReplies
  BY <1>4, ServerRepliesTyped
<1>5. CASE OtherAnswers
  BY <1>5, OtherAnswersTyped
<1>6. ASSUME NEW n \in 0 .. Len(toServer), ServerGivesUp(n) PROVE TypeInv'
  BY <1>6, ServerGivesUpTyped
<1> QED
  BY <1>2, <1>3, <1>4, <1>5, <1>6 DEF Server

\* any trouble,
LEMMA TroubleTyped == ASSUME TypeInv, Trouble PROVE TypeInv'
<1>1. /\ toServer \in Seq(Byte) /\ toClient \in Seq(Byte) /\ IsMapping(mapping)
      /\ ignoring \in BOOLEAN /\ conn \in {"up", "closed"}
  BY DEF TypeInv, TypeOK
<1>2. CASE ServerIsBusy
  BY <1>2, ServerIsBusyTyped
<1>3. CASE ServerCloses
  <2>1. toServer' \in Seq(Byte) /\ conn' \in {"up", "closed"}
    BY <1>3 DEF ServerCloses
  <2> QED
    BY <1>1, <1>3, <2>1, ServedTyped DEF ServerCloses, server
<1>4. CASE LineFails
  <2>1. toServer' \in Seq(Byte) /\ toClient' \in Seq(Byte)
    BY <1>1, <1>4, DamagedType DEF LineFails
  <2> QED
    BY <1>1, <1>4, <2>1, ServedTyped DEF LineFails, server
<1> QED
  BY <1>2, <1>3, <1>4 DEF Trouble

\* and so through every step.
LEMMA NextTyped == TypeInv /\ [Next]_vars => TypeInv'
<1> SUFFICES ASSUME TypeInv, [Next]_vars PROVE TypeInv'
  OBVIOUS
<1>1. ASSUME NEW q \in Requests, Refuse(q) \/ Ask(q) \/ AskFails(q) PROVE TypeInv'
  BY <1>1, RefuseTyped, AskTyped, AskFailsTyped
<1>2. CASE UNCHANGED vars
  <2>1. OthersWhole'
    BY <1>2, OthersKept DEF TypeInv, SameOthers, vars
  <2>2. TypeOK'
    BY <1>2 DEF TypeInv, TypeOK, vars
  <2> QED
    BY <2>1, <2>2 DEF TypeInv
<1> QED
  BY <1>1, <1>2, ReturnsTyped, ServerTyped, TroubleTyped DEF Next, Calls

\* Whatever is asked, lost or damaged, the state has its type: what is under way are bytes,
\* what modbus_reply writes fits the blocks of its mapping, and the other slave is only
\* asked whole messages.
THEOREM TypeCorrect == Spec => []TypeOK
<1>1. TypeInv => TypeOK
  BY DEF TypeInv
<1> QED
  BY <1>1, InitTyped, NextTyped, PTL DEF Spec

-----------------------------------------------------------------------------
\* What the server has heard of the client and the other slave: requests, each with its
\* answer.  It is the smallest set with <<>> to which an exchange can be added in front.
OthersRequest(m) == IsMessage("indication", "rtu", m) /\ m[1] = OtherUnit
Exchange(r, a) == OthersRequest(r) /\ IsMessage("confirmation", "rtu", a)
Closed(S) == <<>> \in S /\ \A s \in S : \A r, a : Exchange(r, a) => r \o (a \o s) \in S
Overheard == {s \in Seq(Byte) : \A S \in SUBSET Seq(Byte) : Closed(S) => s \in S}

\* What is overheard of another slave is bytes.
LEMMA ExchangeType ==
  ASSUME NEW r, NEW a, Exchange(r, a)
  PROVE  r \in Seq(Byte) /\ a \in Seq(Byte)
BY DEF Exchange, OthersRequest, IsMessage

\* An exchange in front of what may be overheard may be overheard.
LEMMA OverheardClosed == Closed(Overheard)
<1>1. <<>> \in Overheard
  <2>1. <<>> \in Seq(Byte)
    OBVIOUS
  <2> QED
    BY <2>1, Zenon DEF Overheard, Closed
<1>2. ASSUME NEW s \in Overheard, NEW r, NEW a, Exchange(r, a)
      PROVE  r \o (a \o s) \in Overheard
  <2>1. r \in Seq(Byte) /\ a \in Seq(Byte) /\ s \in Seq(Byte)
    BY <1>2, ExchangeType DEF Overheard
  <2>2. r \o (a \o s) \in Seq(Byte)
    BY <2>1, Together, Zenon
  <2>3. ASSUME NEW S \in SUBSET Seq(Byte), Closed(S) PROVE r \o (a \o s) \in S
    <3>1. s \in S
      BY <2>3 DEF Overheard
    <3> QED
      BY <1>2, <2>3, <3>1, Zenon DEF Closed
  <2> QED
    BY <2>2, <2>3, Zenon DEF Overheard
<1> QED
  BY <1>1, <1>2, Zenon DEF Closed

\* What has been heard is empty or begins with an exchange.
LEMMA OverheardFirst ==
  \A s \in Overheard : s # <<>> =>
     \E r, a : \E t \in Overheard : Exchange(r, a) /\ s = r \o (a \o t)
<1> DEFINE S == {s \in Seq(Byte) : s = <<>> \/ \E r, a : \E t \in Overheard :
                                                   Exchange(r, a) /\ s = r \o (a \o t)}
<1>1. S \in SUBSET Seq(Byte)
  OBVIOUS
<1>2. <<>> \in S
  OBVIOUS
<1>3. ASSUME NEW s \in S, NEW r, NEW a, Exchange(r, a) PROVE r \o (a \o s) \in S
  <2>1. s \in Overheard
    BY OverheardClosed, Zenon DEF Closed
  <2>2. r \in Seq(Byte) /\ a \in Seq(Byte) /\ s \in Seq(Byte)
    BY <1>3, ExchangeType
  <2>3. r \o (a \o s) \in Seq(Byte)
    BY <2>2, Together, Zenon
  <2> QED
    BY <1>3, <2>1, <2>3, Zenon
<1> HIDE DEF S
<1>4. Closed(S)
  BY <1>2, <1>3, Zenon DEF Closed
<1>5. \A s \in Overheard : s \in S
  BY <1>1, <1>4, Zenon DEF Overheard
<1> QED
  BY <1>5, Zenon DEF S

\* An exchange can be added behind, too.
LEMMA OverheardMore ==
  ASSUME NEW r, NEW a, Exchange(r, a)
  PROVE  \A s \in Overheard : s \o (r \o a) \in Overheard
<1> DEFINE S == {s \in Seq(Byte) : s \o (r \o a) \in Overheard}
<1>1. S \in SUBSET Seq(Byte)
  OBVIOUS
<1>2. r \in Seq(Byte) /\ a \in Seq(Byte)
  BY ExchangeType
<1>3. r \o a \in Seq(Byte)
  BY <1>2, Together, Zenon
<1>4. \A s \in Seq(Byte) : <<>> \o s = s /\ s \o <<>> = s /\ <<>> \in Seq(Byte)
  BY ConcatEmptySeq
<1>5. \A s, t, u \in Seq(Byte) : s \o (t \o u) = (s \o t) \o u
  BY Regrouped
<1>6. <<>> \in S
  <2>1. r \o (a \o <<>>) \in Overheard
    BY OverheardClosed, Zenon DEF Closed
  <2> QED
    BY <1>2, <1>3, <1>4, <2>1, Zenon
<1>7. ASSUME NEW s \in S, NEW p, NEW q, Exchange(p, q) PROVE p \o (q \o s) \in S
  <2>1. p \in Seq(Byte) /\ q \in Seq(Byte) /\ s \in Seq(Byte)
    BY <1>7, ExchangeType
  <2>2. q \o s \in Seq(Byte) /\ p \o (q \o s) \in Seq(Byte)
    BY <2>1, Together, Zenon
  <2>3. p \o (q \o (s \o (r \o a))) \in Overheard
    BY <1>7, OverheardClosed, Zenon DEF Closed
  <2> DEFINE qs == q \o s
             ra == r \o a
  <2>4. (p \o (q \o s)) \o (r \o a) = p \o ((q \o s) \o (r \o a))
    <3>1. qs \in Seq(Byte) /\ ra \in Seq(Byte)
      BY <1>3, <2>2
    <3>2. p \o (qs \o ra) = (p \o qs) \o ra
      <4> HIDE DEF qs, ra
      <4> QED
        BY <1>5, <2>1, <3>1, Zenon
    <3> QED
      BY <3>2
  <2>5. (q \o s) \o (r \o a) = q \o (s \o (r \o a))
    BY <1>3, <1>5, <2>1, Zenon
  <2> QED
    BY <2>2, <2>3, <2>4, <2>5, Zenon
<1> HIDE DEF S
<1>8. Closed(S)
  BY <1>6, <1>7, Zenon DEF Closed
<1>9. \A s \in Overheard : s \in S
  BY <1>1, <1>8, Zenon DEF Overheard
<1> QED
  BY <1>9, Zenon DEF S

\* The same on a connection `b', where nobody else is heard, and of what is left when the
\* server is to ignore the answer that comes first.
Heard(b, ignores, buf) ==
  IF ignores
  THEN b = "rtu" /\ \E a : \E s \in Overheard : IsMessage("confirmation", "rtu", a) /\ buf = a \o s
  ELSE buf \in Overheard /\ (b = "tcp" => buf = <<>>)

Kind(ignores) == IF ignores THEN "confirmation" ELSE "indication"

\* What the server may hear is bytes.
LEMMA HeardType ==
  ASSUME NEW b, NEW ignores \in BOOLEAN, NEW buf, Heard(b, ignores, buf)
  PROVE  buf \in Seq(Byte)
<1>1. CASE ignores
  <2>1. PICK a, s : s \in Overheard /\ IsMessage("confirmation", "rtu", a) /\ buf = a \o s
    BY <1>1, Zenon DEF Heard
  <2>2. a \in Seq(Byte) /\ s \in Seq(Byte)
    BY <2>1 DEF IsMessage, Overheard
  <2> QED
    BY <2>1, <2>2, Together, Zenon
<1>2. CASE ~ignores
  BY <1>2 DEF Heard, Overheard
<1> QED
  BY <1>1, <1>2

\* A server that expects a request may have heard nothing; one that expects an answer has not.
LEMMA NothingHeard ==
  \A b : Heard(b, FALSE, <<>>) /\ ~Heard(b, TRUE, <<>>)
<1>1. <<>> \in Overheard
  BY OverheardClosed, Zenon DEF Closed
<1>2. ASSUME NEW b, Heard(b, TRUE, <<>>) PROVE FALSE
  <2>1. PICK a, s : s \in Overheard /\ IsMessage("confirmation", "rtu", a) /\ <<>> = a \o s
    BY <1>2, Zenon DEF Heard
  <2>2. a \in Seq(Byte) /\ s \in Seq(Byte)
    BY <2>1 DEF IsMessage, Overheard
  <2>3. Len(a) > 1
    <3>1. HeaderLength["rtu"] = 1
      BY DEF HeaderLength
    <3> QED
      BY <2>1, <3>1 DEF IsMessage
  <2>30. Len(a) \in Nat /\ Len(s) \in Nat
    BY <2>2
  <2>4. Len(a \o s) = Len(a) + Len(s)
    BY <2>2, Together, Zenon
  <2>5. Len(a \o s) = 0
    <3>1. Len(<<>>) = 0
      OBVIOUS
    <3> QED
      BY <2>1, <3>1, Zenon
  <2> DEFINE all == a \o s
  <2> HIDE DEF all
  <2>6. Len(all) = Len(a) + Len(s) /\ Len(all) = 0
    BY <2>4, <2>5 DEF all
  <2> QED
    BY <2>3, <2>30, <2>6
<1> QED
  BY <1>1, <1>2, Zenon DEF Heard

\* The first message of what has been heard.
LEMMA HeardFirst ==
  ASSUME NEW b, NEW ignores \in BOOLEAN, NEW buf, Heard(b, ignores, buf), buf # <<>>,
         b \in Backends
  PROVE  /\ b = "rtu"
         /\ \E msg, rest \in Seq(Byte) :
              /\ buf = msg \o rest /\ IsMessage(Kind(ignores), "rtu", msg)
              /\ ~ignores => msg[1] = OtherUnit
              /\ Heard(b, ~ignores, rest)
<1>1. CASE ignores
  <2>1. PICK a, s : s \in Overheard /\ IsMessage("confirmation", "rtu", a) /\ buf = a \o s
    BY <1>1, Zenon DEF Heard
  <2>2. b = "rtu"
    BY <1>1, Zenon DEF Heard
  <2>3. a \in Seq(Byte) /\ s \in Seq(Byte)
    BY <2>1 DEF IsMessage, Overheard
  <2>4. Heard(b, FALSE, s)
    <3>1. b # "tcp"
      BY <2>2
    <3> QED
      BY <2>1, <3>1, Zenon DEF Heard
  <2>5. ~ignores = FALSE /\ Kind(ignores) = "confirmation"
    BY <1>1 DEF Kind
  <2> QED
    BY <1>1, <2>1, <2>2, <2>3, <2>4, <2>5, Zenon
<1>2. CASE ~ignores
  <2>1. buf \in Overheard /\ b # "tcp"
    BY <1>2 DEF Heard
  <2>2. PICK r, a : \E t \in Overheard : Exchange(r, a) /\ buf = r \o (a \o t)
    BY <2>1, OverheardFirst, Zenon
  <2>20. PICK t \in Overheard : Exchange(r, a) /\ buf = r \o (a \o t)
    BY <2>2, Zenon
  <2>3. b = "rtu"
    BY <2>1 DEF Backends
  <2>4. r \in Seq(Byte) /\ a \in Seq(Byte) /\ t \in Seq(Byte)
    BY <2>20, ExchangeType DEF Overheard
  <2>5. a \o t \in Seq(Byte)
    BY <2>4, Together, Zenon
  <2>6. Heard(b, TRUE, a \o t)
    BY <2>20, <2>3, Zenon DEF Heard, Exchange
  <2>7. ~ignores = TRUE /\ Kind(ignores) = "indication"
    BY <1>2 DEF Kind
  <2>8. IsMessage("indication", "rtu", r) /\ r[1] = OtherUnit
    BY <2>20, Zenon DEF Exchange, OthersRequest
  <2> QED
    BY <2>20, <2>3, <2>4, <2>5, <2>6, <2>7, <2>8, Zenon
<1> QED
  BY <1>1, <1>2

\* One exchange more, and the first answer when its request is gone already.
LEMMA HeardMore ==
  ASSUME NEW ignores \in BOOLEAN, NEW buf, Heard("rtu", ignores, buf),
         NEW r, NEW a, Exchange(r, a)
  PROVE  Heard("rtu", ignores, (buf \o r) \o a)
<1>1. r \in Seq(Byte) /\ a \in Seq(Byte) /\ buf \in Seq(Byte)
  BY ExchangeType, HeardType
<1>2. r \o a \in Seq(Byte)
  BY <1>1, Together, Zenon
<1>3. \A s, t, u \in Seq(Byte) : s \o (t \o u) = (s \o t) \o u
  BY Regrouped
<1>4. (buf \o r) \o a = buf \o (r \o a)
  BY <1>1, <1>3, Zenon
<1>5. CASE ignores
  <2>1. PICK p, s : s \in Overheard /\ IsMessage("confirmation", "rtu", p) /\ buf = p \o s
    BY <1>5, Zenon DEF Heard
  <2>2. p \in Seq(Byte) /\ s \in Seq(Byte)
    BY <2>1 DEF IsMessage, Overheard
  <2>3. s \o (r \o a) \in Overheard
    BY <2>1, OverheardMore, Zenon
  <2>4. buf \o (r \o a) = p \o (s \o (r \o a))
    BY <1>2, <1>3, <2>1, <2>2, Zenon
  <2> QED
    BY <1>4, <1>5, <2>1, <2>3, <2>4, Zenon DEF Heard
<1>6. CASE ~ignores
  <2>1. buf \in Overheard
    BY <1>6 DEF Heard
  <2>2. buf \o (r \o a) \in Overheard
    BY <2>1, OverheardMore, Zenon
  <2>3. "rtu" # "tcp"
    OBVIOUS
  <2> QED
    BY <1>4, <1>6, <2>2, <2>3, Zenon DEF Heard
<1> QED
  BY <1>5, <1>6

\* The answer of another slave is what a server that ignores it expects.
LEMMA AnswerHeard ==
  ASSUME NEW a, IsMessage("confirmation", "rtu", a)
  PROVE  Heard("rtu", TRUE, a)
<1>1. a \in Seq(Byte)
  BY DEF IsMessage
<1>2. a \o <<>> = a
  BY <1>1, ConcatEmptySeq
<1>3. <<>> \in Overheard
  BY OverheardClosed, Zenon DEF Closed
<1> QED
  BY <1>2, <1>3, Zenon DEF Heard

\* The frame of a request: for a function code of known length one message.
LEMMA FrameIs ==
  ASSUME backend \in Backends, NEW q, IsRequest(q), ~Refused(q), Complete(q), NEW id \in Uint16,
         NEW h, h = HeaderLength[backend]
  PROVE  /\ Frame(q, id) \in Seq(Byte) /\ Len(Frame(q, id)) >= h + 1
         /\ Frame(q, id)[h] = q.unit /\ Frame(q, id)[h + 1] = q.fn
         /\ q.fn <= 7 \/ q.fn \in Functions
            => IsMessage("indication", backend, Frame(q, id))
<1> DEFINE number == IF q.raw THEN 0 ELSE id
           pdu == RequestPdu(q)
           adu == Adu(backend, number, q.unit, pdu)
<1>1. number \in Uint16
  BY Uint16Is
<1>2. q.unit \in Byte
  BY RequestIs
<1>3. /\ pdu \in Seq(Byte) /\ Len(pdu) >= 1 /\ Len(pdu) <= 253 /\ pdu[1] = q.fn
      /\ q.fn <= 7 \/ q.fn \in Functions => IsPdu("indication", pdu)
  BY RequestPduType
<1>4. Frame(q, id) = adu
  BY Zenon DEF Frame
<1>5. h \in {1, 7} /\ ChecksumLength[backend] \in {0, 2} /\ Len(pdu) \in Nat
  BY <1>3, LengthsAre
<1> HIDE DEF number, pdu
<1>6. /\ adu \in Seq(Byte) /\ Len(adu) = HeaderLength[backend] + Len(pdu) + ChecksumLength[backend]
      /\ adu[HeaderLength[backend]] = q.unit
      /\ \A i \in 1 .. Len(pdu) : adu[HeaderLength[backend] + i] = pdu[i]
  BY <1>1, <1>2, <1>3, AduType
<1>7. ASSUME q.fn <= 7 \/ q.fn \in Functions PROVE IsMessage("indication", backend, adu)
  BY <1>1, <1>2, <1>3, <1>7, FrameIsMessage DEF Types
<1>8. 1 \in 1 .. Len(pdu)
  BY <1>3, <1>5
<1> HIDE DEF adu
<1>9. Len(adu) >= h + 1 /\ adu[h + 1] = q.fn
  BY <1>3, <1>5, <1>6, <1>8
<1> QED
  BY <1>4, <1>6, <1>7, <1>9

-----------------------------------------------------------------------------
\* One sequence inside another, behind its first p members.
Holds(s, p, t) ==
  /\ s \in Seq(Byte) /\ t \in Seq(Byte) /\ p \in Nat
  /\ Len(s) >= p + Len(t)
  /\ \A i \in 1 .. Len(t) : s[p + i] = t[i]

\* Whatever is inside the inner one is inside the outer one.
LEMMA HoldsWithin ==
  \A s, t, u, p, r : Holds(s, p, t) /\ Holds(t, r, u) => Holds(s, p + r, u)
<1>1. ASSUME NEW s, NEW t, NEW u, NEW p, NEW r, Holds(s, p, t), Holds(t, r, u)
      PROVE  Holds(s, p + r, u)
  <2>1. /\ s \in Seq(Byte) /\ t \in Seq(Byte) /\ u \in Seq(Byte) /\ p \in Nat /\ r \in Nat
        /\ Len(s) \in Nat /\ Len(t) \in Nat /\ Len(u) \in Nat
        /\ Len(s) >= p + Len(t) /\ Len(t) >= r + Len(u)
    BY <1>1 DEF Holds
  <2>2. \A i \in 1 .. Len(t) : s[p + i] = t[i]
    BY <1>1 DEF Holds
  <2>3. \A i \in 1 .. Len(u) : t[r + i] = u[i]
    BY <1>1 DEF Holds
  <2>4. ASSUME NEW i \in 1 .. Len(u) PROVE s[(p + r) + i] = u[i]
    <3>1. r + i \in 1 .. Len(t) /\ p + (r + i) = (p + r) + i
      BY <2>1
    <3> QED
      BY <2>2, <2>3, <3>1, Zenon
  <2> QED
    BY <2>1, <2>4 DEF Holds
<1> QED
  BY <1>1, Zenon

\* Of two sequences, one behind the other, the whole holds both.
LEMMA HoldsBoth ==
  \A s, t \in Seq(Byte) : Holds(s \o t, 0, s) /\ Holds(s \o t, Len(s), t)
<1>1. ASSUME NEW s \in Seq(Byte), NEW t \in Seq(Byte)
      PROVE  Holds(s \o t, 0, s) /\ Holds(s \o t, Len(s), t)
  <2> DEFINE all == s \o t
  <2>1. all \in Seq(Byte) /\ Len(all) = Len(s) + Len(t)
    BY Together, Zenon
  <2>2. \A i \in 1 .. Len(s) : all[i] = s[i]
    BY TogetherLeft, Zenon
  <2>3. \A i \in 1 .. Len(t) : all[Len(s) + i] = t[i]
    BY TogetherRight, Zenon
  <2>4. Len(s) \in Nat /\ Len(t) \in Nat
    OBVIOUS
  <2> HIDE DEF all
  <2>5. \A i \in 1 .. Len(s) : all[0 + i] = s[i]
    BY <2>2, <2>4
  <2> QED
    BY <2>1, <2>3, <2>4, <2>5 DEF Holds, all
<1> QED
  BY <1>1

\* A register is read where it was put.
LEMMA HoldsWord ==
  \A s, p : \A w \in Uint16 : Holds(s, p, Word(w)) => WordAt(s, p + 1) = w
<1>1. ASSUME NEW s, NEW p, NEW w \in Uint16, Holds(s, p, Word(w)) PROVE WordAt(s, p + 1) = w
  <2>1. /\ Len(Word(w)) = 2 /\ Word(w)[1] = w \div 256 /\ Word(w)[2] = w % 256
        /\ 256 * (w \div 256) + (w % 256) = w /\ w \div 256 \in Byte /\ w % 256 \in Byte
    BY WordType
  <2>2. p \in Nat /\ \A i \in 1 .. Len(Word(w)) : s[p + i] = Word(w)[i]
    BY <1>1 DEF Holds
  <2> DEFINE high == w \div 256
             low == w % 256
  <2>3. high \in Int /\ low \in Int /\ 256 * high + low = w
    BY <2>1, ByteIs
  <2>4. s[p + 1] = high /\ s[p + 2] = low
    <3>1. 1 \in 1 .. Len(Word(w)) /\ 2 \in 1 .. Len(Word(w))
      BY <2>1
    <3> QED
      BY <2>1, <2>2, <3>1, Zenon
  <2> HIDE DEF high, low
  <2>5. (p + 1) + 1 = p + 2 /\ high * 256 + low = w
    BY <2>2, <2>3
  <2> QED
    BY <2>4, <2>5, Zenon DEF WordAt
<1> QED
  BY <1>1

\* So are several of them.
LEMMA HoldsWords ==
  \A s, p : \A values \in Seq(Uint16) :
    Holds(s, p, Words(values)) => WordsAt(s, p + 1, Len(values)) = values
<1>1. ASSUME NEW s, NEW p, NEW values \in Seq(Uint16), Holds(s, p, Words(values))
      PROVE  WordsAt(s, p + 1, Len(values)) = values
  <2> DEFINE w == Words(values)
             n == Len(values)
  <2>1. /\ w \in Seq(Byte) /\ Len(w) = 2 * n /\ n \in Nat
        /\ \A k \in 1 .. n : WordAt(w, 2 * k - 1) = values[k]
    BY WordsType
  <2>2. p \in Nat /\ \A i \in 1 .. Len(w) : s[p + i] = w[i]
    BY <1>1 DEF Holds
  <2> HIDE DEF w
  <2>3. ASSUME NEW k \in 1 .. n PROVE WordAt(s, (p + 1) + 2 * (k - 1)) = values[k]
    <3> DEFINE i == 2 * k - 1
               j == 2 * k
    <3>1. i \in 1 .. Len(w) /\ j \in 1 .. Len(w) /\ i + 1 = j
          /\ (p + 1) + 2 * (k - 1) = p + i /\ (p + i) + 1 = p + j
      BY <2>1, <2>2
    <3> HIDE DEF j
    <3>2. WordAt(w, i) = values[k]
      BY <2>1, Zenon
    <3> HIDE DEF i
    <3>3. s[p + i] = w[i] /\ s[p + j] = w[j]
      BY <2>2, <3>1, Zenon
    <3> QED
      BY <3>1, <3>2, <3>3, Zenon DEF WordAt
  <2>4. WordsAt(s, p + 1, n) = [k \in 1 .. n |-> WordAt(s, (p + 1) + 2 * (k - 1))]
    BY Zenon DEF WordsAt
  <2>5. values = [k \in 1 .. n |-> values[k]]
    OBVIOUS
  <2> HIDE DEF n
  <2>6. WordsAt(s, p + 1, n) = [k \in 1 .. n |-> values[k]]
    BY <2>3, <2>4, Zenon
  <2> QED
    BY <2>5, <2>6, Zenon DEF n
<1> QED
  BY <1>1

\* The bits of a byte.
LEMMA OctetBack ==
  ASSUME NEW b \in [1 .. 8 -> {0, 1}], NEW j \in 1 .. 8
  PROVE  (Octet(b) \div Weight[j]) % 2 = b[j]
<1>1. /\ b[1] \in {0, 1} /\ b[2] \in {0, 1} /\ b[3] \in {0, 1} /\ b[4] \in {0, 1}
      /\ b[5] \in {0, 1} /\ b[6] \in {0, 1} /\ b[7] \in {0, 1} /\ b[8] \in {0, 1}
  OBVIOUS
<1>2. \A b1, b2, b3, b4, b5, b6, b7, b8 \in {0, 1} :
        LET o == b1 + 2 * b2 + 4 * b3 + 8 * b4 + 16 * b5 + 32 * b6 + 64 * b7 + 128 * b8
        IN /\ (o \div 1) % 2 = b1 /\ (o \div 2) % 2 = b2 /\ (o \div 4) % 2 = b3
           /\ (o \div 8) % 2 = b4 /\ (o \div 16) % 2 = b5 /\ (o \div 32) % 2 = b6
           /\ (o \div 64) % 2 = b7 /\ (o \div 128) % 2 = b8
  OBVIOUS
<1>3. /\ Weight[1] = 1 /\ Weight[2] = 2 /\ Weight[3] = 4 /\ Weight[4] = 8
      /\ Weight[5] = 16 /\ Weight[6] = 32 /\ Weight[7] = 64 /\ Weight[8] = 128
  BY DEF Weight
<1> DEFINE o == Octet(b)
<1>4. /\ (o \div 1) % 2 = b[1] /\ (o \div 2) % 2 = b[2] /\ (o \div 4) % 2 = b[3]
      /\ (o \div 8) % 2 = b[4] /\ (o \div 16) % 2 = b[5] /\ (o \div 32) % 2 = b[6]
      /\ (o \div 64) % 2 = b[7] /\ (o \div 128) % 2 = b[8]
  BY <1>1, <1>2 DEF Octet
<1>5. j = 1 \/ j = 2 \/ j = 3 \/ j = 4 \/ j = 5 \/ j = 6 \/ j = 7 \/ j = 8
  OBVIOUS
<1> HIDE DEF o
<1>6. (o \div Weight[j]) % 2 = b[j]
  BY <1>3, <1>4, <1>5
<1> QED
  BY <1>6 DEF o

\* Bits come out of their bytes as they went in.
LEMMA PackedBack ==
  ASSUME NEW bits \in Seq({0, 1}), NEW bytes,
         \A k \in 1 .. BytesFor(Len(bits)) : bytes[k] = Packed(bits)[k]
  PROVE  Unpacked(bytes, Len(bits)) = bits
<1> DEFINE n == Len(bits)
<1>1. n \in Nat /\ bits \in [1 .. n -> {0, 1}]
  OBVIOUS
<1>2. \A i \in 1 .. n : (i + 7) \div 8 \in 1 .. BytesFor(n)
  BY <1>1, BytesForBounds
<1>3. Packed(bits) = [k \in 1 .. BytesFor(n) |-> Octet(EightFrom(bits, 8 * (k - 1)))]
  BY Zenon DEF Packed
<1>4. ASSUME NEW i \in 1 .. n
      PROVE  (bytes[(i + 7) \div 8] \div Weight[((i - 1) % 8) + 1]) % 2 = bits[i]
  <2> DEFINE k == (i + 7) \div 8
             j == ((i - 1) % 8) + 1
             before == 8 * (k - 1)
             b == EightFrom(bits, before)
  <2>1. j \in 1 .. 8 /\ before + j = i /\ before \in Nat
    BY <1>1
  <2>2. bytes[k] = Octet(b)
    BY <1>2, <1>3, Zenon
  <2>3. b = [m \in 1 .. 8 |-> IF before + m <= n THEN bits[before + m] ELSE 0]
    BY Zenon DEF EightFrom
  <2> HIDE DEF k, j, b, before, n
  <2>4. b \in [1 .. 8 -> {0, 1}]
    BY <1>1, <2>1, <2>3
  <2>5. b[j] = bits[i]
    BY <1>1, <2>1, <2>3
  <2>6. (Octet(b) \div Weight[j]) % 2 = b[j]
    BY <2>1, <2>4, OctetBack
  <2>7. (bytes[k] \div Weight[j]) % 2 = bits[i]
    BY <2>2, <2>5, <2>6, Zenon
  <2> QED
    BY <2>7 DEF k, j
<1>5. Unpacked(bytes, n) = [i \in 1 .. n |-> (bytes[(i + 7) \div 8] \div Weight[((i - 1) % 8) + 1]) % 2]
  BY Zenon DEF Unpacked
<1>6. bits = [i \in 1 .. n |-> bits[i]]
  BY <1>1
<1> HIDE DEF n
<1>7. Unpacked(bytes, n) = [i \in 1 .. n |-> bits[i]]
  BY <1>4, <1>5, Zenon
<1> QED
  BY <1>6, <1>7, Zenon DEF n

\* So they do from behind something else, and before something else.
LEMMA HoldsBits ==
  \A s, p : \A bits \in Seq({0, 1}) :
    Holds(s, p, Packed(bits)) => Unpacked(SubSeq(s, p + 1, Len(s)), Len(bits)) = bits
<1>1. ASSUME NEW s, NEW p, NEW bits \in Seq({0, 1}), Holds(s, p, Packed(bits))
      PROVE  Unpacked(SubSeq(s, p + 1, Len(s)), Len(bits)) = bits
  <2> DEFINE packed == Packed(bits)
             part == SubSeq(s, p + 1, Len(s))
  <2>1. packed \in Seq(Byte) /\ Len(packed) = BytesFor(Len(bits))
    BY PackedType
  <2>2. /\ s \in Seq(Byte) /\ p \in Nat /\ Len(s) \in Nat /\ Len(packed) \in Nat
        /\ Len(s) >= p + Len(packed)
    BY <1>1 DEF Holds
  <2>3. \A i \in 1 .. Len(packed) : s[p + i] = packed[i]
    BY <1>1 DEF Holds
  <2>4. \A i \in 1 .. Len(s) - p : part[i] = s[p + i]
    BY <2>2
  <2> HIDE DEF packed, part
  <2>5. ASSUME NEW k \in 1 .. Len(packed) PROVE part[k] = packed[k]
    <3>1. k \in 1 .. Len(s) - p
      BY <2>2
    <3> QED
      BY <2>3, <2>4, <3>1, Zenon
  <2>6. \A k \in 1 .. BytesFor(Len(bits)) : part[k] = Packed(bits)[k]
    BY <2>1, <2>5, Zenon DEF packed
  <2> QED
    BY <2>6, PackedBack DEF part
<1> QED
  BY <1>1

\* What a sequence holds it holds with more behind it.
LEMMA HoldsFront ==
  \A s, t, u, p : Holds(s, p, t) /\ u \in Seq(Byte) => Holds(s \o u, p, t)
<1>1. ASSUME NEW s, NEW t, NEW u \in Seq(Byte), NEW p, Holds(s, p, t) PROVE Holds(s \o u, p, t)
  <2>1. s \in Seq(Byte) /\ p \in Nat
    BY <1>1 DEF Holds
  <2>2. Holds(s \o u, 0 + p, t)
    BY <1>1, <2>1, HoldsBoth, HoldsWithin, Zenon
  <2>3. 0 + p = p
    BY <2>1
  <2> QED
    BY <2>2, <2>3, Zenon
<1> QED
  BY <1>1

\* Two registers, and something behind them.
LEMMA HoldsTwoWords ==
  \A v, w \in Uint16 : Holds(Word(v) \o Word(w), 0, Word(v)) /\ Holds(Word(v) \o Word(w), 2, Word(w))
<1>1. \A w \in Uint16 : Word(w) \in Seq(Byte) /\ Len(Word(w)) = 2
  BY WordType
<1> QED
  BY <1>1, HoldsBoth, Zenon

\* Bytes that tell how many follow them, with what is before and after.
LEMMA HoldsAnnounced ==
  \A head, data \in Seq(Byte) : \A size \in Byte :
    /\ Holds((head \o <<size>>) \o data, 0, head)
    /\ Holds((head \o <<size>>) \o data, Len(head) + 1, data)
    /\ ((head \o <<size>>) \o data)[Len(head) + 1] = size
<1>1. ASSUME NEW head \in Seq(Byte), NEW data \in Seq(Byte), NEW size \in Byte
      PROVE  /\ Holds((head \o <<size>>) \o data, 0, head)
             /\ Holds((head \o <<size>>) \o data, Len(head) + 1, data)
  <2> DEFINE one == <<size>>
             front == head \o one
  <2>1. one \in Seq(Byte) /\ Len(one) = 1
    OBVIOUS
  <2> HIDE DEF one
  <2>2. front \in Seq(Byte) /\ Len(front) = Len(head) + Len(one)
    BY <2>1, Together, Zenon
  <2>3. Holds(front, 0, head)
    BY <2>1, HoldsBoth, Zenon
  <2> HIDE DEF front
  <2>4. Holds(front \o data, 0, head) /\ Holds(front \o data, Len(front), data)
    BY <2>2, <2>3, HoldsFront, HoldsBoth, Zenon
  <2>5. Len(front) = Len(head) + 1
    BY <2>1, <2>2
  <2> QED
    BY <2>4, <2>5 DEF front, one
<1> QED
  BY <1>1, Announced, Zenon

\* What the requests of the client hold behind their function codes.
HoldsArguments(q, args) ==
  /\ q.fn # 17 => Holds(args, 0, Word(q.addr))
  /\ q.fn \in {1, 2, 3, 4, 23} => Holds(args, 2, Word(q.nb))
  /\ q.fn = 5 => Holds(args, 2, Word(IF q.values[1] # 0 THEN 65280 ELSE 0))
  /\ q.fn \in {6, 22} => Holds(args, 2, Word(q.values[1]))
  /\ q.fn = 22 => Holds(args, 4, Word(q.values[2]))
  /\ q.fn \in {15, 16} => Holds(args, 2, Word(Len(q.values)))
  /\ q.fn = 15 => args[5] = BytesFor(Len(q.values)) /\ Holds(args, 5, Packed(q.values))
  /\ q.fn = 16 => args[5] = 2 * Len(q.values) /\ Holds(args, 5, Words(q.values))
  /\ q.fn = 23 => /\ Holds(args, 4, Word(q.writeAddr)) /\ Holds(args, 6, Word(Len(q.values)))
                  /\ args[9] = 2 * Len(q.values) /\ Holds(args, 9, Words(q.values))

\* What is sent to write several values.
LEMMA MultipleHolds ==
  ASSUME NEW q, q.addr \in Uint16, q.values \in Seq(Uint16),
         \/ q.fn = 15 /\ q.values \in Seq({0, 1}) /\ Len(q.values) <= 1968
         \/ q.fn = 16 /\ Len(q.values) <= 123
  PROVE  HoldsArguments(q, MultipleArguments(q))
<1> DEFINE nb == Len(q.values)
           head == Word(q.addr) \o Word(nb)
           size == IF q.fn = 15 THEN BytesFor(nb) ELSE 2 * nb
           data == IF q.fn = 15 THEN Packed(q.values) ELSE Words(q.values)
           args == (head \o <<size>>) \o data
<1>0. q.fn = 15 \/ q.fn = 16
  OBVIOUS
<1>1. nb \in Nat /\ nb <= 1968
  OBVIOUS
<1>2. nb \in Uint16
  BY <1>1, Uint16Is
<1>3. head \in Seq(Byte) /\ Len(head) = 4 /\ Holds(head, 0, Word(q.addr)) /\ Holds(head, 2, Word(nb))
  BY <1>2, TwoWords, HoldsTwoWords, Zenon
<1>4. size \in Nat /\ size <= 246 /\ data \in Seq(Byte)
  <2> DEFINE Right == size \in Nat /\ size <= 246 /\ data \in Seq(Byte)
  <2>1. ASSUME q.fn = 15 PROVE Right
    <3>1. size = BytesFor(nb) /\ data = Packed(q.values) /\ q.values \in Seq({0, 1})
      BY <2>1
    <3>2. Packed(q.values) \in Seq(Byte)
      BY <3>1, PackedType
    <3> HIDE DEF size, data
    <3>3. BytesFor(nb) \in Nat /\ BytesFor(nb) <= 246
      <4> HIDE DEF nb
      <4> QED
        BY <1>1, BytesForBounds
    <3> QED
      BY <3>1, <3>2, <3>3
  <2>2. ASSUME q.fn = 16 PROVE Right
    BY <1>1, <2>2, WordsType
  <2> HIDE DEF Right
  <2>3. Right
    BY <1>0, <2>1, <2>2
  <2> QED
    BY <2>3 DEF Right
<1>5. MultipleArguments(q) = head \o (<<size>> \o data)
  <2> DEFINE Right == MultipleArguments(q) = head \o (<<size>> \o data)
  <2>1. ASSUME q.fn = 15 PROVE Right
    BY <2>1, CodesAre, Zenon DEF MultipleArguments
  <2>2. ASSUME q.fn = 16 PROVE Right
    BY <2>2, CodesAre, Zenon DEF MultipleArguments
  <2> HIDE DEF Right
  <2>3. Right
    BY <1>0, <2>1, <2>2
  <2> QED
    BY <2>3 DEF Right
<1>6. size \in Byte
  BY <1>4, ByteIs
<1>7. /\ q.fn = 15 => size = BytesFor(nb) /\ data = Packed(q.values)
      /\ q.fn = 16 => size = 2 * nb /\ data = Words(q.values)
  OBVIOUS
<1> HIDE DEF head, size, data
<1>8. head \o (<<size>> \o data) = args
  BY <1>3, <1>4, <1>6, Announced, Zenon
<1>9. /\ Holds(args, 0, head) /\ Holds(args, Len(head) + 1, data)
      /\ args[Len(head) + 1] = size
  BY <1>3, <1>4, <1>6, HoldsAnnounced, Zenon
<1>10. Len(head) + 1 = 5 /\ 0 + 0 = 0 /\ 0 + 2 = 2
  BY <1>3
<1> HIDE DEF args
<1>11. Holds(args, 0 + 0, Word(q.addr)) /\ Holds(args, 0 + 2, Word(nb))
  BY <1>3, <1>9, HoldsWithin, Zenon
<1>12. /\ Holds(args, 0, Word(q.addr)) /\ Holds(args, 2, Word(nb)) /\ Holds(args, 5, data)
       /\ args[5] = size /\ MultipleArguments(q) = args
  BY <1>5, <1>8, <1>9, <1>10, <1>11, Zenon
<1>13. /\ q.fn \notin {1, 2, 3, 4, 23} /\ q.fn # 5 /\ q.fn \notin {6, 22} /\ q.fn # 22 /\ q.fn # 23
  BY <1>0
<1> HIDE DEF nb
<1>14. /\ q.fn = 15 => args[5] = BytesFor(nb) /\ Holds(args, 5, Packed(q.values))
       /\ q.fn = 16 => args[5] = 2 * nb /\ Holds(args, 5, Words(q.values))
  BY <1>7, <1>12
<1> QED
  BY <1>12, <1>13, <1>14, SMT DEF HoldsArguments, nb

\* What is sent to write and read.
LEMMA WriteAndReadHolds ==
  ASSUME NEW q, q.addr \in Uint16, q.writeAddr \in Uint16, q.nb \in Uint16,
         q.values \in Seq(Uint16), Len(q.values) <= 121, q.fn = 23
  PROVE  HoldsArguments(q, WriteAndReadArguments(q))
<1> DEFINE nb == Len(q.values)
           read == Word(q.addr) \o Word(q.nb)
           more == read \o Word(q.writeAddr)
           head == more \o Word(nb)
           size == 2 * nb
           data == Words(q.values)
           args == (head \o <<size>>) \o data
<1>1. nb \in Nat /\ nb <= 121
  OBVIOUS
<1>2. nb \in Uint16
  BY <1>1, Uint16Is
<1>3. /\ read \in Seq(Byte) /\ Len(read) = 4
      /\ Holds(read, 0, Word(q.addr)) /\ Holds(read, 2, Word(q.nb))
  BY TwoWords, HoldsTwoWords, Zenon
<1>4. /\ Word(q.writeAddr) \in Seq(Byte) /\ Len(Word(q.writeAddr)) = 2
      /\ Word(nb) \in Seq(Byte) /\ Len(Word(nb)) = 2
  BY <1>2, WordType
<1> HIDE DEF read
<1>5. /\ more \in Seq(Byte) /\ Len(more) = Len(read) + Len(Word(q.writeAddr))
      /\ Holds(more, 0, Word(q.addr)) /\ Holds(more, 2, Word(q.nb))
      /\ Holds(more, Len(read), Word(q.writeAddr))
  BY <1>3, <1>4, Together, HoldsFront, HoldsBoth, Zenon
<1> HIDE DEF more
<1>6. /\ head \in Seq(Byte) /\ Len(head) = Len(more) + Len(Word(nb))
      /\ Holds(head, 0, Word(q.addr)) /\ Holds(head, 2, Word(q.nb))
      /\ Holds(head, Len(read), Word(q.writeAddr)) /\ Holds(head, Len(more), Word(nb))
  BY <1>4, <1>5, Together, HoldsFront, HoldsBoth, Zenon
<1> HIDE DEF head
<1>7. Len(read) = 4 /\ Len(more) = 6 /\ Len(head) = 8 /\ Len(head) + 1 = 9
  BY <1>3, <1>4, <1>5, <1>6
<1>8. data \in Seq(Byte)
  BY WordsType
<1>9. size \in Byte
  BY <1>1, ByteIs
<1>10. WriteAndReadArguments(q) = args
  BY Zenon DEF WriteAndReadArguments, head, more, read
<1> HIDE DEF size, data
<1>11. /\ Holds(args, 0, head) /\ Holds(args, Len(head) + 1, data)
       /\ args[Len(head) + 1] = size
  BY <1>6, <1>8, <1>9, HoldsAnnounced, Zenon
<1> HIDE DEF args
<1>12. 0 + 0 = 0 /\ 0 + 2 = 2 /\ 0 + 4 = 4 /\ 0 + 6 = 6
  OBVIOUS
<1>13. /\ Holds(args, 0 + 0, Word(q.addr)) /\ Holds(args, 0 + 2, Word(q.nb))
       /\ Holds(args, 0 + 4, Word(q.writeAddr)) /\ Holds(args, 0 + 6, Word(nb))
  BY <1>6, <1>7, <1>11, HoldsWithin, Zenon
<1>14. /\ Holds(args, 0, Word(q.addr)) /\ Holds(args, 2, Word(q.nb))
       /\ Holds(args, 4, Word(q.writeAddr)) /\ Holds(args, 6, Word(nb))
       /\ args[9] = size /\ Holds(args, 9, data)
  BY <1>7, <1>11, <1>12, <1>13, Zenon
<1>15. /\ q.fn # 5 /\ q.fn \notin {6, 22} /\ q.fn # 22 /\ q.fn \notin {15, 16} /\ q.fn # 15 /\ q.fn # 16
  OBVIOUS
<1> QED
  BY <1>10, <1>14, <1>15, SMT DEF HoldsArguments, nb, size, data

\* What every request holds that the client functions send.
LEMMA ArgumentsHold ==
  ASSUME NEW q, IsRequest(q), ~q.raw, ~Refused(q)
  PROVE  HoldsArguments(q, Arguments(q))
<1> DEFINE fn == q.fn
           args == Arguments(q)
           Right == HoldsArguments(q, args)
<1>1. /\ fn \in Byte /\ q.addr \in Uint16 /\ q.writeAddr \in Uint16 /\ q.nb \in Nat
      /\ q.values \in Seq(Uint16) /\ ~q.raw
      /\ fn \in {1, 2, 3, 4, 5, 6, 15, 16, 17, 22, 23}
  BY RequestIs
<1>2. /\ fn \in {5, 6} => Len(q.values) = 1
      /\ fn = 22 => Len(q.values) = 2
      /\ fn = 15 => q.values \in Seq({0, 1})
  BY RequestIs
<1>3. /\ fn \in {1, 2} => ~(q.nb > 2000)
      /\ fn \in {3, 4, 23} => ~(q.nb > 125)
      /\ fn = 15 => ~(Len(q.values) > 1968)
      /\ fn = 16 => ~(Len(q.values) > 123)
      /\ fn = 23 => ~(Len(q.values) > 121)
  BY NotRefused
<1>4. ASSUME fn \in {1, 2, 3, 4, 23} PROVE q.nb \in Uint16
  BY <1>1, <1>3, <1>4, Uint16Is
<1>5. ASSUME fn \in {5, 6, 22} PROVE q.values[1] \in Uint16
  BY <1>1, <1>2, <1>5
<1>6. ASSUME fn \in {1, 2, 3, 4} PROVE Right
  <2>1. args = Word(q.addr) \o Word(q.nb)
    BY <1>1, <1>6, ArgumentsAre DEF ReadArguments
  <2>2. Holds(args, 0, Word(q.addr)) /\ Holds(args, 2, Word(q.nb))
    BY <1>1, <1>4, <1>6, <2>1, HoldsTwoWords
  <2>3. q.fn # 5 /\ q.fn \notin {6, 22} /\ q.fn # 22 /\ q.fn \notin {15, 16} /\ q.fn # 15
        /\ q.fn # 16 /\ q.fn # 23
    BY <1>6
  <2> HIDE DEF args
  <2> QED
    BY <2>2, <2>3, SMT DEF HoldsArguments
<1>7. ASSUME fn \in {5, 6} PROVE Right
  <2> DEFINE value == IF q.fn = WriteSingleRegister THEN q.values[1] ELSE IF q.values[1] # 0 THEN 65280 ELSE 0
  <2>1. args = SingleArguments(q) /\ (fn = 6 <=> fn = WriteSingleRegister)
    BY <1>1, <1>7, ArgumentsAre, CodesAre
  <2>2. SingleArguments(q) = Word(q.addr) \o Word(value)
    BY DEF SingleArguments
  <2>3. value \in Uint16
    BY <1>5, <1>7, Uint16Is
  <2>4. /\ fn = 5 => value = IF q.values[1] # 0 THEN 65280 ELSE 0
        /\ fn = 6 => value = q.values[1]
    BY <2>1
  <2> HIDE DEF value
  <2>5. Holds(args, 0, Word(q.addr)) /\ Holds(args, 2, Word(value))
    BY <1>1, <2>1, <2>2, <2>3, HoldsTwoWords
  <2>6. /\ q.fn = 5 => value = IF q.values[1] # 0 THEN 65280 ELSE 0
        /\ q.fn \in {6, 22} => value = q.values[1]
    BY <1>7, <2>4
  <2>7. q.fn \notin {1, 2, 3, 4, 23} /\ q.fn # 22 /\ q.fn \notin {15, 16} /\ q.fn # 15
        /\ q.fn # 16 /\ q.fn # 23
    BY <1>7
  <2> HIDE DEF args
  <2> QED
    BY <2>5, <2>6, <2>7, SMT DEF HoldsArguments
<1>8. ASSUME fn \in {15, 16} PROVE Right
  <2>1. \/ q.fn = 15 /\ q.values \in Seq({0, 1}) /\ Len(q.values) <= 1968
        \/ q.fn = 16 /\ Len(q.values) <= 123
    BY <1>1, <1>2, <1>3, <1>8
  <2>2. args = MultipleArguments(q)
    BY <1>1, <1>8, ArgumentsAre
  <2> QED
    BY <1>1, <2>1, <2>2, MultipleHolds
<1>9. ASSUME fn = 22 PROVE Right
  <2> DEFINE v == q.values[1]
             w == q.values[2]
             head == Word(q.addr) \o Word(v)
  <2>1. v \in Uint16 /\ w \in Uint16
    BY <1>1, <1>2, <1>9
  <2>2. args = head \o Word(w)
    BY <1>1, <1>9, ArgumentsAre DEF MaskArguments
  <2>3. head \in Seq(Byte) /\ Len(head) = 4 /\ Holds(head, 0, Word(q.addr)) /\ Holds(head, 2, Word(v))
    BY <1>1, <2>1, TwoWords, HoldsTwoWords, Zenon
  <2>4. Word(w) \in Seq(Byte)
    BY <2>1, WordType
  <2> HIDE DEF v, w, head
  <2>5. Holds(args, 0, Word(q.addr)) /\ Holds(args, 2, Word(v)) /\ Holds(args, 4, Word(w))
    BY <2>2, <2>3, <2>4, HoldsFront, HoldsBoth, Zenon
  <2>6. q.fn \notin {1, 2, 3, 4, 23} /\ q.fn # 5 /\ q.fn \notin {15, 16} /\ q.fn # 15
        /\ q.fn # 16 /\ q.fn # 23
    BY <1>9
  <2> HIDE DEF args
  <2> QED
    BY <2>5, <2>6, SMT DEF HoldsArguments, v, w
<1>10. ASSUME fn = 23 PROVE Right
  <2>1. Len(q.values) <= 121
    BY <1>1, <1>3, <1>10
  <2>2. args = WriteAndReadArguments(q)
    BY <1>1, <1>10, ArgumentsAre
  <2> QED
    BY <1>1, <1>4, <1>10, <2>1, <2>2, WriteAndReadHolds
<1>11. ASSUME fn = 17 PROVE Right
  <2>1. q.fn \notin {1, 2, 3, 4, 23} /\ q.fn # 5 /\ q.fn \notin {6, 22} /\ q.fn # 22
        /\ q.fn \notin {15, 16} /\ q.fn # 15 /\ q.fn # 16 /\ q.fn # 23
    BY <1>11
  <2> HIDE DEF args
  <2> QED
    BY <1>11, <2>1, SMT DEF HoldsArguments
<1> HIDE DEF Right
<1>12. Right
  BY <1>1, <1>6, <1>7, <1>8, <1>9, <1>10, <1>11
<1> QED
  BY <1>12 DEF Right

\* The server finds in a message what a request asks.
Says(q, req, h) ==
  /\ Function(req, h) = q.fn
  /\ q.fn # 17 => Address(req, h) = q.addr
  /\ q.fn \in {1, 2, 3, 4, 23} => Number(req, h) = q.nb
  /\ q.fn = 5 => Number(req, h) = IF q.values[1] # 0 THEN 65280 ELSE 0
  /\ q.fn \in {6, 22} => Number(req, h) = q.values[1]
  /\ q.fn = 22 => WordAt(req, h + 6) = q.values[2]
  /\ q.fn \in {15, 16} => Number(req, h) = Len(q.values)
  /\ q.fn = 15 => /\ req[h + 6] = BytesFor(Len(q.values))
                  /\ Unpacked(SubSeq(req, h + 7, Len(req)), Len(q.values)) = q.values
  /\ q.fn = 16 => /\ req[h + 6] = 2 * Len(q.values)
                  /\ WordsAt(req, h + 7, Len(q.values)) = q.values
  /\ q.fn = 23 => /\ WriteAddress(req, h) = q.writeAddr
                  /\ WriteNumber(req, h) = Len(q.values)
                  /\ req[h + 10] = 2 * Len(q.values)
                  /\ WordsAt(req, h + 11, Len(q.values)) = q.values

\* A register is read out of what is held.
LEMMA HeldWord ==
  \A s, p, t, r : \A w \in Uint16 :
    Holds(s, p, t) /\ Holds(t, r, Word(w)) => WordAt(s, (p + r) + 1) = w
BY HoldsWithin, HoldsWord, Zenon

\* The numbers of a request that is sent are numbers of 16 bits.
LEMMA RequestWords ==
  ASSUME NEW q, IsRequest(q), ~q.raw, ~Refused(q)
  PROVE  /\ q.addr \in Uint16 /\ q.writeAddr \in Uint16
         /\ q.fn \in {1, 2, 3, 4, 23} => q.nb \in Uint16
         /\ q.fn \in {5, 6, 22} => q.values[1] \in Uint16
         /\ q.fn = 22 => q.values[2] \in Uint16
         /\ q.fn \in {15, 16, 23} => Len(q.values) \in Uint16
         /\ q.fn = 15 => q.values \in Seq({0, 1})
         /\ q.values \in Seq(Uint16)
<1> DEFINE fn == q.fn
           n == Len(q.values)
<1>1. /\ q.addr \in Uint16 /\ q.writeAddr \in Uint16 /\ q.nb \in Nat
      /\ q.values \in Seq(Uint16)
  BY RequestIs
<1>2. /\ fn \in {5, 6} => n = 1
      /\ fn = 22 => n = 2
      /\ fn = 15 => q.values \in Seq({0, 1})
  BY RequestIs
<1>3. /\ fn \in {1, 2} => ~(q.nb > 2000)
      /\ fn \in {3, 4, 23} => ~(q.nb > 125)
      /\ fn = 15 => ~(n > 1968)
      /\ fn = 16 => ~(n > 123)
      /\ fn = 23 => ~(n > 121)
  BY NotRefused
<1>4. ASSUME fn \in {1, 2, 3, 4, 23} PROVE q.nb \in Uint16
  BY <1>1, <1>3, <1>4, Uint16Is
<1>5. ASSUME fn \in {5, 6, 22} PROVE q.values[1] \in Uint16
  BY <1>1, <1>2, <1>5
<1>6. ASSUME fn = 22 PROVE q.values[2] \in Uint16
  BY <1>1, <1>2, <1>6
<1>7. n \in Nat
  BY <1>1
<1> HIDE DEF n, fn
<1>8. ASSUME fn \in {15, 16, 23} PROVE n \in Uint16
  BY <1>3, <1>7, <1>8, Uint16Is
<1> QED
  BY <1>1, <1>2, <1>4, <1>5, <1>6, <1>8 DEF fn, n

\* What holds the arguments of a request says what it asks.
LEMMA HeldSays ==
  ASSUME NEW q, IsRequest(q), ~q.raw, ~Refused(q), NEW args, HoldsArguments(q, args),
         NEW req, NEW h \in Nat, Holds(req, h + 1, args), req[h + 1] = q.fn
  PROVE  Says(q, req, h)
<1> DEFINE fn == q.fn
           values == q.values
           n == Len(values)
<1>1. /\ q.addr \in Uint16 /\ q.writeAddr \in Uint16
      /\ fn \in {1, 2, 3, 4, 23} => q.nb \in Uint16
      /\ fn \in {5, 6, 22} => values[1] \in Uint16
      /\ fn = 22 => values[2] \in Uint16
      /\ fn \in {15, 16, 23} => n \in Uint16
      /\ fn = 15 => values \in Seq({0, 1})
      /\ values \in Seq(Uint16)
  BY RequestWords
<1>2. /\ fn # 17 => Holds(args, 0, Word(q.addr))
      /\ fn \in {1, 2, 3, 4, 23} => Holds(args, 2, Word(q.nb))
      /\ fn = 5 => Holds(args, 2, Word(IF values[1] # 0 THEN 65280 ELSE 0))
      /\ fn \in {6, 22} => Holds(args, 2, Word(values[1]))
      /\ fn = 22 => Holds(args, 4, Word(values[2]))
      /\ fn \in {15, 16} => Holds(args, 2, Word(n))
  BY DEF HoldsArguments
<1>3. /\ fn = 15 => args[5] = BytesFor(n) /\ Holds(args, 5, Packed(values))
      /\ fn = 16 => args[5] = 2 * n /\ Holds(args, 5, Words(values))
      /\ fn = 23 => /\ Holds(args, 4, Word(q.writeAddr)) /\ Holds(args, 6, Word(n))
                    /\ args[9] = 2 * n /\ Holds(args, 9, Words(values))
  BY DEF HoldsArguments
<1>4. /\ ((h + 1) + 0) + 1 = h + 2 /\ ((h + 1) + 2) + 1 = h + 4 /\ ((h + 1) + 4) + 1 = h + 6
      /\ ((h + 1) + 6) + 1 = h + 8 /\ ((h + 1) + 5) + 1 = h + 7 /\ ((h + 1) + 9) + 1 = h + 11
  OBVIOUS
<1>5. /\ \A w \in Uint16 : Holds(args, 0, Word(w)) => WordAt(req, h + 2) = w
      /\ \A w \in Uint16 : Holds(args, 2, Word(w)) => WordAt(req, h + 4) = w
      /\ \A w \in Uint16 : Holds(args, 4, Word(w)) => WordAt(req, h + 6) = w
      /\ \A w \in Uint16 : Holds(args, 6, Word(w)) => WordAt(req, h + 8) = w
  <2>1. \A r : \A w \in Uint16 : Holds(args, r, Word(w)) => WordAt(req, ((h + 1) + r) + 1) = w
    BY HeldWord, Zenon
  <2> QED
    BY <1>4, <2>1, Zenon
<1>6. \A i : i \in 1 .. Len(args) => req[(h + 1) + i] = args[i]
  BY DEF Holds
<1>7. ASSUME NEW t, Holds(args, 5, t) PROVE req[h + 6] = args[5] /\ Holds(req, (h + 1) + 5, t)
  <2>1. 5 \in 1 .. Len(args) /\ (h + 1) + 5 = h + 6
    BY <1>7 DEF Holds
  <2>2. req[h + 6] = args[5]
    BY <1>6, <2>1, Zenon
  <2>3. Holds(req, h + 1, args) /\ Holds(args, 5, t)
    BY <1>7
  <2>4. \A r, u : Holds(args, r, u) => Holds(req, (h + 1) + r, u)
    BY HoldsWithin, Zenon
  <2>5. Holds(req, (h + 1) + 5, t)
    BY <2>3, <2>4, Zenon
  <2> QED
    BY <2>2, <2>5, Zenon
<1>8. ASSUME NEW t, Holds(args, 9, t) PROVE req[h + 10] = args[9] /\ Holds(req, (h + 1) + 9, t)
  <2>1. 9 \in 1 .. Len(args) /\ (h + 1) + 9 = h + 10
    BY <1>8 DEF Holds
  <2>2. req[h + 10] = args[9]
    BY <1>6, <2>1, Zenon
  <2>3. Holds(req, h + 1, args) /\ Holds(args, 9, t)
    BY <1>8
  <2>4. \A r, u : Holds(args, r, u) => Holds(req, (h + 1) + r, u)
    BY HoldsWithin, Zenon
  <2>5. Holds(req, (h + 1) + 9, t)
    BY <2>3, <2>4, Zenon
  <2> QED
    BY <2>2, <2>5, Zenon
<1> HIDE DEF fn, values, n
<1>9. ASSUME fn = 15
      PROVE  req[h + 6] = BytesFor(n) /\ Unpacked(SubSeq(req, h + 7, Len(req)), n) = values
  <2>1. req[h + 6] = args[5] /\ Holds(req, (h + 1) + 5, Packed(values))
    BY <1>3, <1>7, <1>9, Zenon
  <2>2. values \in Seq({0, 1})
    BY <1>1, <1>9, Zenon
  <2>3. Unpacked(SubSeq(req, ((h + 1) + 5) + 1, Len(req)), Len(values)) = values
    BY <2>1, <2>2, HoldsBits, Zenon
  <2>4. args[5] = BytesFor(n)
    BY <1>3, <1>9, Zenon
  <2> QED
    BY <1>4, <2>1, <2>3, <2>4, Zenon DEF n
<1>10. ASSUME fn = 16
       PROVE  req[h + 6] = 2 * n /\ WordsAt(req, h + 7, n) = values
  <2>1. Holds(args, 5, Words(values)) /\ args[5] = 2 * n
    BY <1>3, <1>10
  <2>2. req[h + 6] = args[5] /\ Holds(req, (h + 1) + 5, Words(values))
    BY <1>7, <2>1, Zenon
  <2>3. WordsAt(req, ((h + 1) + 5) + 1, Len(values)) = values
    BY <1>1, <2>2, HoldsWords, Zenon
  <2> QED
    BY <1>4, <2>1, <2>2, <2>3, Zenon DEF n
<1>11. ASSUME fn = 23
       PROVE  req[h + 10] = 2 * n /\ WordsAt(req, h + 11, n) = values
  <2>1. Holds(args, 9, Words(values)) /\ args[9] = 2 * n
    BY <1>3, <1>11
  <2>2. req[h + 10] = args[9] /\ Holds(req, (h + 1) + 9, Words(values))
    BY <1>8, <2>1, Zenon
  <2>3. WordsAt(req, ((h + 1) + 9) + 1, Len(values)) = values
    BY <1>1, <2>2, HoldsWords, Zenon
  <2> QED
    BY <1>4, <2>1, <2>2, <2>3, Zenon DEF n
<1>12. ASSUME fn = 5 PROVE WordAt(req, h + 4) = IF values[1] # 0 THEN 65280 ELSE 0
  <2> DEFINE value == IF values[1] # 0 THEN 65280 ELSE 0
  <2>1. value \in Uint16
    BY Uint16Is
  <2>2. Holds(args, 2, Word(value))
    BY <1>2, <1>12
  <2> HIDE DEF value
  <2>3. WordAt(req, h + 4) = value
    BY <1>5, <2>1, <2>2, Zenon
  <2> QED
    BY <2>3 DEF value
<1>13. /\ fn # 17 => WordAt(req, h + 2) = q.addr
       /\ fn = 22 => WordAt(req, h + 6) = values[2]
  BY <1>1, <1>2, <1>5
<1>14. ASSUME fn \in {1, 2, 3, 4, 23} PROVE WordAt(req, h + 4) = q.nb
  <2>1. q.nb \in Uint16 /\ Holds(args, 2, Word(q.nb))
    BY <1>1, <1>2, <1>14
  <2> QED
    BY <1>5, <2>1, Zenon
<1>15. ASSUME fn \in {6, 22} PROVE WordAt(req, h + 4) = values[1]
  <2>1. values[1] \in Uint16 /\ Holds(args, 2, Word(values[1]))
    BY <1>1, <1>2, <1>15
  <2> QED
    BY <1>5, <2>1, Zenon
<1>16. ASSUME fn \in {15, 16} PROVE WordAt(req, h + 4) = n
  <2>1. n \in Uint16 /\ Holds(args, 2, Word(n))
    BY <1>1, <1>2, <1>16
  <2> QED
    BY <1>5, <2>1, Zenon
<1>17. ASSUME fn = 23 PROVE WordAt(req, h + 6) = q.writeAddr /\ WordAt(req, h + 8) = n
  <2>1. n \in Uint16 /\ Holds(args, 4, Word(q.writeAddr)) /\ Holds(args, 6, Word(n))
    BY <1>1, <1>3, <1>17
  <2> QED
    BY <1>1, <1>5, <2>1, Zenon
<1>18. /\ Function(req, h) = fn /\ Address(req, h) = WordAt(req, h + 2)
       /\ Number(req, h) = WordAt(req, h + 4) /\ WriteAddress(req, h) = WordAt(req, h + 6)
       /\ WriteNumber(req, h) = WordAt(req, h + 8)
  BY DEF Function, Address, Number, WriteAddress, WriteNumber, fn
<1> QED
  BY <1>9, <1>10, <1>11, <1>12, <1>13, <1>14, <1>15, <1>16, <1>17, <1>18 DEF Says, fn, values, n

\* The frames of the client say what it asks.
LEMMA FrameSays ==
  \A b \in Backends : \A id \in Uint16 : \A q :
    IsRequest(q) /\ ~q.raw /\ ~Refused(q)
    => Says(q, Adu(b, id, q.unit, RequestPdu(q)), HeaderLength[b])
<1>1. ASSUME NEW b \in Backends, NEW id \in Uint16, NEW q, IsRequest(q), ~q.raw, ~Refused(q)
      PROVE  Says(q, Adu(b, id, q.unit, RequestPdu(q)), HeaderLength[b])
  <2> DEFINE pdu == RequestPdu(q)
             adu == Adu(b, id, q.unit, pdu)
             h == HeaderLength[b]
             args == Arguments(q)
             one == <<q.fn>>
  <2>1. h \in Nat /\ ChecksumLength[b] \in Nat
    BY LengthsAre
  <2>2. q.unit \in Byte /\ q.fn \in Byte
    BY <1>1, RequestIs
  <2>3. pdu \in Seq(Byte) /\ Len(pdu) >= 1 /\ Len(pdu) <= 253 /\ pdu[1] = q.fn
    BY <1>1, RequestPduType
  <2>4. args \in Seq(Byte) /\ HoldsArguments(q, args)
    BY <1>1, ArgumentsArranged, ArgumentsHold
  <2>5. pdu = one \o args
    BY Zenon DEF RequestPdu
  <2>6. one \in Seq(Byte) /\ Len(one) = 1
    BY <2>2
  <2> HIDE DEF one, args, pdu, h
  <2>7. Holds(pdu, 1, args)
    BY <2>4, <2>5, <2>6, HoldsBoth, Zenon
  <2>8. /\ adu \in Seq(Byte) /\ Len(adu) = h + Len(pdu) + ChecksumLength[b]
        /\ \A i \in 1 .. Len(pdu) : adu[h + i] = pdu[i]
    BY <2>2, <2>3, AduType DEF h
  <2> HIDE DEF adu
  <2>9. Holds(adu, h, pdu) /\ 1 \in 1 .. Len(pdu)
    BY <2>1, <2>3, <2>8 DEF Holds
  <2>10. Holds(adu, h + 1, args) /\ adu[h + 1] = q.fn
    BY <2>3, <2>7, <2>8, <2>9, HoldsWithin, Zenon
  <2>11. Says(q, adu, h)
    BY <1>1, <2>1, <2>4, <2>10, HeldSays
  <2> QED
    BY <2>11 DEF adu, pdu, h
<1> QED
  BY <1>1

\* The bit of a register that has a given weight.
Bit(w, place) == (w \div place) % 2

\* The bits of a register in its low byte ...
LEMMA LowBits ==
  ASSUME NEW w \in Int
  PROVE  /\ Bit(w % 256, 1) = Bit(w, 1) /\ Bit(w % 256, 2) = Bit(w, 2)
         /\ Bit(w % 256, 4) = Bit(w, 4) /\ Bit(w % 256, 8) = Bit(w, 8)
         /\ Bit(w % 256, 16) = Bit(w, 16) /\ Bit(w % 256, 32) = Bit(w, 32)
         /\ Bit(w % 256, 64) = Bit(w, 64) /\ Bit(w % 256, 128) = Bit(w, 128)
<1>1. Bit(w % 256, 1) = Bit(w, 1)
  BY DEF Bit
<1>2. Bit(w % 256, 2) = Bit(w, 2)
  BY DEF Bit
<1>3. Bit(w % 256, 4) = Bit(w, 4)
  BY DEF Bit
<1>4. Bit(w % 256, 8) = Bit(w, 8)
  BY DEF Bit
<1>5. Bit(w % 256, 16) = Bit(w, 16)
  BY DEF Bit
<1>6. Bit(w % 256, 32) = Bit(w, 32)
  BY DEF Bit
<1>7. Bit(w % 256, 64) = Bit(w, 64)
  BY DEF Bit
<1>8. Bit(w % 256, 128) = Bit(w, 128)
  BY DEF Bit
<1> QED
  BY <1>1, <1>2, <1>3, <1>4, <1>5, <1>6, <1>7, <1>8

\* ... and in its high byte.
LEMMA HighBits ==
  ASSUME NEW w \in Int
  PROVE  /\ Bit(w \div 256, 1) = Bit(w, 256) /\ Bit(w \div 256, 2) = Bit(w, 512)
         /\ Bit(w \div 256, 4) = Bit(w, 1024) /\ Bit(w \div 256, 8) = Bit(w, 2048)
         /\ Bit(w \div 256, 16) = Bit(w, 4096) /\ Bit(w \div 256, 32) = Bit(w, 8192)
         /\ Bit(w \div 256, 64) = Bit(w, 16384) /\ Bit(w \div 256, 128) = Bit(w, 32768)
<1>1. (w \div 256) \div 1 = w \div 256
  OBVIOUS
<1>2. (w \div 256) \div 2 = w \div 512
  OBVIOUS
<1>3. (w \div 256) \div 4 = w \div 1024
  OBVIOUS
<1>4. (w \div 256) \div 8 = w \div 2048
  OBVIOUS
<1>5. (w \div 256) \div 16 = w \div 4096
  OBVIOUS
<1>6. (w \div 256) \div 32 = w \div 8192
  OBVIOUS
<1>7. (w \div 256) \div 64 = w \div 16384
  OBVIOUS
<1>8. (w \div 256) \div 128 = w \div 32768
  OBVIOUS
<1> QED
  BY <1>1, <1>2, <1>3, <1>4, <1>5, <1>6, <1>7, <1>8 DEF Bit

\* What the bytes of a register unpack to.
BitsOf(w) == Unpacked(<<w % 256, w \div 256>>, 16)

\* They are the bits of the number, the lowest first.
LEMMA UnpackedBits ==
  ASSUME NEW w \in Uint16
  PROVE  /\ BitsOf(w) \in [1 .. 16 -> {0, 1}]
         /\ BitsOf(w)[1] = Bit(w, 1) /\ BitsOf(w)[2] = Bit(w, 2)
         /\ BitsOf(w)[3] = Bit(w, 4) /\ BitsOf(w)[4] = Bit(w, 8)
         /\ BitsOf(w)[5] = Bit(w, 16) /\ BitsOf(w)[6] = Bit(w, 32)
         /\ BitsOf(w)[7] = Bit(w, 64) /\ BitsOf(w)[8] = Bit(w, 128)
         /\ BitsOf(w)[9] = Bit(w, 256) /\ BitsOf(w)[10] = Bit(w, 512)
         /\ BitsOf(w)[11] = Bit(w, 1024) /\ BitsOf(w)[12] = Bit(w, 2048)
         /\ BitsOf(w)[13] = Bit(w, 4096) /\ BitsOf(w)[14] = Bit(w, 8192)
         /\ BitsOf(w)[15] = Bit(w, 16384) /\ BitsOf(w)[16] = Bit(w, 32768)
<1> DEFINE low == w % 256
           high == w \div 256
           both == <<low, high>>
<1>1. w \in Int /\ low \in Int /\ high \in Int
  BY Uint16Is
<1>2. both[1] = low /\ both[2] = high
  OBVIOUS
<1>3. /\ Weight[1] = 1 /\ Weight[2] = 2 /\ Weight[3] = 4 /\ Weight[4] = 8
      /\ Weight[5] = 16 /\ Weight[6] = 32 /\ Weight[7] = 64 /\ Weight[8] = 128
  BY DEF Weight
<1>4. BitsOf(w) = [i \in 1 .. 16 |-> (both[(i + 7) \div 8] \div Weight[((i - 1) % 8) + 1]) % 2]
  BY Zenon DEF BitsOf, Unpacked
<1> HIDE DEF both, low, high
<1>5. ASSUME NEW i \in 1 .. 8
      PROVE  BitsOf(w)[i] = Bit(low, Weight[i]) /\ BitsOf(w)[i + 8] = Bit(high, Weight[i])
  <2>1. /\ (i + 7) \div 8 = 1 /\ ((i - 1) % 8) + 1 = i
        /\ ((i + 8) + 7) \div 8 = 2 /\ (((i + 8) - 1) % 8) + 1 = i
        /\ i \in 1 .. 16 /\ i + 8 \in 1 .. 16
    OBVIOUS
  <2> QED
    BY <1>2, <1>4, <2>1, Zenon DEF Bit
<1>6. /\ BitsOf(w)[1] = Bit(low, 1) /\ BitsOf(w)[2] = Bit(low, 2)
      /\ BitsOf(w)[3] = Bit(low, 4) /\ BitsOf(w)[4] = Bit(low, 8)
      /\ BitsOf(w)[5] = Bit(low, 16) /\ BitsOf(w)[6] = Bit(low, 32)
      /\ BitsOf(w)[7] = Bit(low, 64) /\ BitsOf(w)[8] = Bit(low, 128)
  BY <1>3, <1>5
<1>7. /\ BitsOf(w)[9] = Bit(high, 1) /\ BitsOf(w)[10] = Bit(high, 2)
      /\ BitsOf(w)[11] = Bit(high, 4) /\ BitsOf(w)[12] = Bit(high, 8)
      /\ BitsOf(w)[13] = Bit(high, 16) /\ BitsOf(w)[14] = Bit(high, 32)
      /\ BitsOf(w)[15] = Bit(high, 64) /\ BitsOf(w)[16] = Bit(high, 128)
  <2>1. \A i \in 1 .. 8 : BitsOf(w)[i + 8] = Bit(high, Weight[i])
    BY <1>5
  <2> QED
    BY <1>3, <2>1
<1>8. BitsOf(w) \in [1 .. 16 -> {0, 1}]
  <2>1. \A i \in 1 .. 16 : (i + 7) \div 8 \in {1, 2}
    OBVIOUS
  <2>2. \A i \in 1 .. 16 : both[(i + 7) \div 8] \in Int
    BY <1>1, <1>2, <2>1
  <2> QED
    BY <2>2, UnpackedType DEF BitsOf, both, low, high
<1>9. /\ Bit(low, 1) = Bit(w, 1) /\ Bit(low, 2) = Bit(w, 2)
      /\ Bit(low, 4) = Bit(w, 4) /\ Bit(low, 8) = Bit(w, 8)
      /\ Bit(low, 16) = Bit(w, 16) /\ Bit(low, 32) = Bit(w, 32)
      /\ Bit(low, 64) = Bit(w, 64) /\ Bit(low, 128) = Bit(w, 128)
  BY <1>1, LowBits DEF low
<1>10. /\ Bit(high, 1) = Bit(w, 256) /\ Bit(high, 2) = Bit(w, 512)
       /\ Bit(high, 4) = Bit(w, 1024) /\ Bit(high, 8) = Bit(w, 2048)
       /\ Bit(high, 16) = Bit(w, 4096) /\ Bit(high, 32) = Bit(w, 8192)
       /\ Bit(high, 64) = Bit(w, 16384) /\ Bit(high, 128) = Bit(w, 32768)
  BY <1>1, HighBits DEF high
<1> QED
  BY <1>6, <1>7, <1>8, <1>9, <1>10

\* A masked register is the sum of its bits, by mask from one word or the other.
LEMMA MaskedIsSum ==
  ASSUME NEW old \in Uint16, NEW mask \in Uint16, NEW other \in Uint16
  PROVE  Masked(old, mask, other) = Memory!MaskedBySum(old, mask, other)
<1> DEFINE bits == [i \in 1 .. 16 |-> IF BitsOf(mask)[i] = 1 THEN BitsOf(old)[i] ELSE BitsOf(other)[i]]
           bytes == Packed(bits)
           New(place) == IF Bit(mask, place) = 1 THEN Bit(old, place) ELSE Bit(other, place)
<1>1. /\ BitsOf(mask) \in [1 .. 16 -> {0, 1}] /\ BitsOf(old) \in [1 .. 16 -> {0, 1}]
      /\ BitsOf(other) \in [1 .. 16 -> {0, 1}]
  BY UnpackedBits
<1>2. bits \in [1 .. 16 -> {0, 1}]
  BY <1>1
<1>3. /\ bits[1] = New(1)
      /\ bits[2] = New(2)
      /\ bits[3] = New(4)
      /\ bits[4] = New(8)
      /\ bits[5] = New(16)
      /\ bits[6] = New(32)
      /\ bits[7] = New(64)
      /\ bits[8] = New(128)
  BY UnpackedBits
<1>4. /\ bits[9] = New(256)
      /\ bits[10] = New(512)
      /\ bits[11] = New(1024)
      /\ bits[12] = New(2048)
      /\ bits[13] = New(4096)
      /\ bits[14] = New(8192)
      /\ bits[15] = New(16384)
      /\ bits[16] = New(32768)
  BY UnpackedBits
<1>5. Masked(old, mask, other) = 256 * bytes[2] + bytes[1]
  BY Zenon DEF Masked, BitsOf
<1> HIDE DEF bits
<1>6. bits \in Seq({0, 1}) /\ Len(bits) = 16
  BY <1>2, FunctionIsSeq
<1>7. BytesFor(16) = 2
  BY DEF BytesFor
<1>8. bytes = [k \in 1 .. 2 |-> Octet(EightFrom(bits, 8 * (k - 1)))]
  BY <1>6, <1>7, Zenon DEF Packed
<1>9. /\ bytes[1] = Octet([i \in 1 .. 8 |-> bits[i]])
      /\ bytes[2] = Octet([i \in 1 .. 8 |-> bits[8 + i]])
  <2>1. EightFrom(bits, 0) = [i \in 1 .. 8 |-> bits[i]]
    BY <1>2, <1>6 DEF EightFrom
  <2>2. EightFrom(bits, 8) = [i \in 1 .. 8 |-> bits[8 + i]]
    BY <1>2, <1>6 DEF EightFrom
  <2>3. 8 * (1 - 1) = 0 /\ 8 * (2 - 1) = 8 /\ 1 \in 1 .. 2 /\ 2 \in 1 .. 2
    OBVIOUS
  <2>4. bytes[1] = Octet(EightFrom(bits, 8 * (1 - 1))) /\ bytes[2] = Octet(EightFrom(bits, 8 * (2 - 1)))
    BY <1>8, <2>3, Zenon
  <2> QED
    BY <2>1, <2>2, <2>3, <2>4, Zenon
<1>10. /\ bytes[1] = bits[1] + 2 * bits[2] + 4 * bits[3] + 8 * bits[4]
                     + 16 * bits[5] + 32 * bits[6] + 64 * bits[7] + 128 * bits[8]
       /\ bytes[2] = bits[9] + 2 * bits[10] + 4 * bits[11] + 8 * bits[12]
                     + 16 * bits[13] + 32 * bits[14] + 64 * bits[15] + 128 * bits[16]
  BY <1>9 DEF Octet
<1> HIDE DEF bytes
<1>11. /\ bits[1] \in Int /\ bits[2] \in Int /\ bits[3] \in Int /\ bits[4] \in Int
       /\ bits[5] \in Int /\ bits[6] \in Int /\ bits[7] \in Int /\ bits[8] \in Int
       /\ bits[9] \in Int /\ bits[10] \in Int /\ bits[11] \in Int /\ bits[12] \in Int
       /\ bits[13] \in Int /\ bits[14] \in Int /\ bits[15] \in Int /\ bits[16] \in Int
  BY <1>2
<1>12. Memory!MaskedBySum(old, mask, other) =
         1 * New(1) + 2 * New(2) + 4 * New(4) + 8 * New(8) + 16 * New(16) + 32 * New(32)
         + 64 * New(64) + 128 * New(128) + 256 * New(256) + 512 * New(512) + 1024 * New(1024)
         + 2048 * New(2048) + 4096 * New(4096) + 8192 * New(8192)
         + 16384 * New(16384) + 32768 * New(32768)
  BY DEF Memory!MaskedBySum, Bit
<1> HIDE DEF New
<1>13. Memory!MaskedBySum(old, mask, other) =
         1 * bits[1] + 2 * bits[2] + 4 * bits[3] + 8 * bits[4]
         + 16 * bits[5] + 32 * bits[6] + 64 * bits[7] + 128 * bits[8]
         + 256 * bits[9] + 512 * bits[10] + 1024 * bits[11] + 2048 * bits[12]
         + 4096 * bits[13] + 8192 * bits[14] + 16384 * bits[15] + 32768 * bits[16]
  BY <1>3, <1>4, <1>12
<1>14. 256 * bytes[2] = 256 * bits[9] + 512 * bits[10] + 1024 * bits[11] + 2048 * bits[12]
                        + 4096 * bits[13] + 8192 * bits[14] + 16384 * bits[15] + 32768 * bits[16]
  BY <1>10, <1>11
<1>15. bytes[1] \in Int /\ bytes[2] \in Int /\ 256 * bytes[2] \in Int
  BY <1>10, <1>11
<1> DEFINE high == 256 * bytes[2]
           low == bytes[1]
<1> HIDE DEF high
<1>16. high + low = Memory!MaskedBySum(old, mask, other)
  BY <1>10, <1>11, <1>13, <1>14, <1>15 DEF high
<1> QED
  BY <1>5, <1>16 DEF high

\* RemoteMemory means the same by the names it shares with ModbusServer.
LEMMA SameCodes ==
  /\ Memory!BitReads = BitReads /\ Memory!RegisterReads = RegisterReads
  /\ Memory!Multiples = Multiples /\ Memory!Singles = Singles
  /\ Memory!MaskWriteRegister = MaskWriteRegister
  /\ Memory!WriteAndReadRegisters = WriteAndReadRegisters
  /\ Memory!ReportSlaveId = ReportSlaveId
  /\ Memory!WriteSingleCoil = WriteSingleCoil /\ Memory!WriteSingleRegister = WriteSingleRegister
  /\ Memory!WriteMultipleCoils = WriteMultipleCoils
BY DEF Memory!BitReads, BitReads, Memory!RegisterReads, RegisterReads, Memory!Multiples, Multiples,
  Memory!Singles, Singles, Memory!MaskWriteRegister, MaskWriteRegister,
  Memory!WriteAndReadRegisters, WriteAndReadRegisters, Memory!ReportSlaveId, ReportSlaveId,
  Memory!ReadCoils, ReadCoils, Memory!ReadDiscreteInputs, ReadDiscreteInputs,
  Memory!ReadHoldingRegisters, ReadHoldingRegisters, Memory!ReadInputRegisters, ReadInputRegisters,
  Memory!WriteSingleCoil, WriteSingleCoil, Memory!WriteSingleRegister, WriteSingleRegister,
  Memory!WriteMultipleCoils, WriteMultipleCoils, Memory!WriteMultipleRegisters, WriteMultipleRegisters

\* So it does by its operators.
LEMMA SameOperators ==
  /\ \A fn : Memory!BlockOf(fn) = BlockOf(fn)
  /\ \A block, addr, nb : Memory!Covers(block, addr, nb) = Covers(block, addr, nb)
  /\ \A block, addr, nb : Memory!Slice(block, addr, nb) = Slice(block, addr, nb)
  /\ \A block, addr, values : Memory!Overwritten(block, addr, values) = Overwritten(block, addr, values)
  /\ \A fn : Memory!MaxRead(fn) = MaxRead(fn)
  /\ \A q : Memory!Refused(q) = Refused(q)
<1>1. /\ \A block, addr, nb : Memory!Covers(block, addr, nb) = Covers(block, addr, nb)
      /\ \A block, addr, nb : Memory!Slice(block, addr, nb) = Slice(block, addr, nb)
  BY Zenon DEF Memory!Covers, Covers, Memory!Slice, Slice
<1>2. \A block, addr, values : Memory!Overwritten(block, addr, values) = Overwritten(block, addr, values)
  BY Zenon DEF Memory!Overwritten, Overwritten
<1>3. \A fn : Memory!MaxRead(fn) = MaxRead(fn)
  BY SameCodes DEF Memory!MaxRead, MaxRead
<1>4. /\ Memory!ReadCoils = ReadCoils /\ Memory!WriteMultipleCoils = WriteMultipleCoils
      /\ Memory!WriteSingleCoil = WriteSingleCoil /\ Memory!ReadDiscreteInputs = ReadDiscreteInputs
      /\ Memory!ReadInputRegisters = ReadInputRegisters
      /\ Memory!WriteMultipleRegisters = WriteMultipleRegisters
  BY DEF Memory!ReadCoils, ReadCoils, Memory!WriteMultipleCoils, WriteMultipleCoils,
    Memory!WriteSingleCoil, WriteSingleCoil, Memory!ReadDiscreteInputs, ReadDiscreteInputs,
    Memory!ReadInputRegisters, ReadInputRegisters, Memory!WriteMultipleRegisters, WriteMultipleRegisters
<1>5. \A fn : Memory!BlockOf(fn) = BlockOf(fn)
  BY <1>4, Zenon DEF Memory!BlockOf, BlockOf
<1>6. \A fn : Memory!MaxWrite(fn) = MaxWrite(fn)
  BY <1>4, Zenon DEF Memory!MaxWrite, MaxWrite
<1>7. \A q : Memory!Refused(q) = Refused(q)
  BY <1>3, <1>6, SameCodes, Zenon DEF Memory!Refused, Refused
<1> QED
  BY <1>1, <1>2, <1>3, <1>5, <1>7, Zenon

\* What number the server finds legal, by function code.
LEMMA LegalNumberCases ==
  ASSUME NEW req, NEW h
  PROVE  /\ req[h + 1] \in {1, 2, 3, 4}
            => (LegalNumber(req, h) <=> Number(req, h) \in 1 .. MaxRead(req[h + 1]))
         /\ req[h + 1] = 15
            => (LegalNumber(req, h) <=> /\ Number(req, h) \in 1 .. MaxWrite(req[h + 1])
                                        /\ 8 * req[h + 6] >= Number(req, h))
         /\ req[h + 1] = 16
            => (LegalNumber(req, h) <=> /\ Number(req, h) \in 1 .. MaxWrite(req[h + 1])
                                        /\ req[h + 6] = 2 * Number(req, h))
         /\ req[h + 1] = 23
            => (LegalNumber(req, h) <=> /\ Number(req, h) \in 1 .. MaxRead(req[h + 1])
                                        /\ WriteNumber(req, h) \in 1 .. MaxWrite(req[h + 1])
                                        /\ req[h + 10] = 2 * WriteNumber(req, h))
         /\ req[h + 1] \notin {1, 2, 3, 4, 15, 16, 23} => LegalNumber(req, h)
<1> DEFINE fn == req[h + 1]
           nb == Number(req, h)
           reads == fn \in BitReads \cup RegisterReads
           coils == fn = WriteMultipleCoils
           registers == fn = WriteMultipleRegisters
           both == fn = WriteAndReadRegisters
           legalCoils == nb \in 1 .. MaxWrite(fn) /\ 8 * req[h + 6] >= nb
           legalRegisters == nb \in 1 .. MaxWrite(fn) /\ req[h + 6] = 2 * nb
           legalBoth == /\ nb \in 1 .. MaxRead(fn)
                        /\ WriteNumber(req, h) \in 1 .. MaxWrite(fn)
                        /\ req[h + 10] = 2 * WriteNumber(req, h)
           legalReads == nb \in 1 .. MaxRead(fn)
           legal == LegalNumber(req, h)
<1>1. /\ reads <=> fn \in {1, 2, 3, 4}
      /\ coils <=> fn = 15
      /\ registers <=> fn = 16
      /\ both <=> fn = 23
  BY CodesAre
<1>2. /\ reads => ~coils /\ ~registers /\ ~both
      /\ coils => ~registers /\ ~both
      /\ registers => ~both
  BY <1>1
<1>3. legal <=> (CASE reads -> legalReads [] coils -> legalCoils [] registers -> legalRegisters
                   [] both -> legalBoth [] OTHER -> TRUE)
  BY Zenon DEF LegalNumber, Function
<1> HIDE DEF reads, coils, registers, both, legalReads, legalCoils, legalRegisters, legalBoth, legal
<1>4. /\ reads => (legal <=> legalReads)
      /\ coils => (legal <=> legalCoils)
      /\ registers => (legal <=> legalRegisters)
      /\ both => (legal <=> legalBoth)
  BY <1>2, <1>3, Zenon
<1>5. ~reads /\ ~coils /\ ~registers /\ ~both => legal
  BY <1>3, Zenon
<1> HIDE DEF fn
<1>6. /\ fn \in {1, 2, 3, 4} => (legal <=> legalReads)
      /\ fn = 15 => (legal <=> legalCoils)
      /\ fn = 16 => (legal <=> legalRegisters)
      /\ fn = 23 => (legal <=> legalBoth)
      /\ fn \notin {1, 2, 3, 4, 15, 16, 23} => legal
  BY <1>1, <1>4, <1>5
<1> QED
  BY <1>6, Zenon DEF legalReads, legalCoils, legalRegisters, legalBoth, legal, fn, nb

\* What addresses it finds legal.
LEMMA LegalAddressCases ==
  ASSUME NEW req, NEW h, NEW block
  PROVE  /\ req[h + 1] \in {1, 2, 3, 4, 15, 16}
            => (LegalAddress(req, h, block) <=> Covers(block, Address(req, h), Number(req, h)))
         /\ req[h + 1] \in {5, 6, 22}
            => (LegalAddress(req, h, block) <=> Address(req, h) \in DOMAIN block)
         /\ req[h + 1] = 23
            => (LegalAddress(req, h, block) <=>
                  /\ Covers(block, Address(req, h), Number(req, h))
                  /\ Covers(block, WriteAddress(req, h), WriteNumber(req, h)))
         /\ req[h + 1] \notin {1, 2, 3, 4, 5, 6, 15, 16, 22, 23} => LegalAddress(req, h, block)
<1> DEFINE fn == req[h + 1]
           many == fn \in BitReads \cup RegisterReads \cup Multiples
           one == fn \in Singles \cup {MaskWriteRegister}
           both == fn = WriteAndReadRegisters
           covers == Covers(block, Address(req, h), Number(req, h))
           within == Address(req, h) \in DOMAIN block
           coversBoth == covers /\ Covers(block, WriteAddress(req, h), WriteNumber(req, h))
           legal == LegalAddress(req, h, block)
<1>1. /\ many <=> fn \in {1, 2, 3, 4, 15, 16}
      /\ one <=> fn \in {5, 6, 22}
      /\ both <=> fn = 23
  BY CodesAre
<1>2. (many => ~one /\ ~both) /\ (one => ~both)
  BY <1>1
<1>3. legal <=> (CASE many -> covers [] one -> within [] both -> coversBoth [] OTHER -> TRUE)
  BY Zenon DEF LegalAddress, Function
<1> HIDE DEF many, one, both, within, coversBoth, covers, legal, fn
<1>4. /\ many => (legal <=> covers)
      /\ one => (legal <=> within)
      /\ both => (legal <=> coversBoth)
      /\ ~many /\ ~one /\ ~both => legal
  BY <1>2, <1>3, Zenon
<1>5. /\ fn \in {1, 2, 3, 4, 15, 16} => (legal <=> covers)
      /\ fn \in {5, 6, 22} => (legal <=> within)
      /\ fn = 23 => (legal <=> coversBoth)
      /\ fn \notin {1, 2, 3, 4, 5, 6, 15, 16, 22, 23} => legal
  BY <1>1, <1>4
<1> QED
  BY <1>5 DEF within, coversBoth, covers, legal, fn

\* What RemoteMemory asks of a request.
LEMMA InRangeCases ==
  ASSUME NEW q, NEW block
  PROVE  /\ q.fn \in {1, 2, 3, 4} => (Memory!InRange(q, block) <=>
                                        /\ q.nb \in 1 .. MaxRead(q.fn)
                                        /\ Covers(block, q.addr, q.nb))
         /\ q.fn \in {15, 16} => (Memory!InRange(q, block) <=>
                                    q.values # <<>> /\ Covers(block, q.addr, Len(q.values)))
         /\ q.fn \in {5, 6, 22} => (Memory!InRange(q, block) <=> q.addr \in DOMAIN block)
         /\ q.fn = 23 => (Memory!InRange(q, block) <=>
                            /\ q.nb > 0 /\ q.values # <<>> /\ Covers(block, q.addr, q.nb)
                            /\ Covers(block, q.writeAddr, Len(q.values)))
         /\ q.fn = 17 => Memory!InRange(q, block)
<1> DEFINE fn == q.fn
           reads == fn \in Memory!BitReads \cup Memory!RegisterReads
           many == fn \in Memory!Multiples
           one == fn \in Memory!Singles \cup {Memory!MaskWriteRegister}
           both == fn = Memory!WriteAndReadRegisters
           name == fn = Memory!ReportSlaveId
           covers == Memory!Covers(block, q.addr, q.nb)
           inReads == q.nb \in 1 .. Memory!MaxRead(fn) /\ covers
           inMany == q.values # <<>> /\ Memory!Covers(block, q.addr, Len(q.values))
           inOne == q.addr \in DOMAIN block
           inBoth == /\ q.nb > 0 /\ q.values # <<>>
                     /\ covers /\ Memory!Covers(block, q.writeAddr, Len(q.values))
           in == Memory!InRange(q, block)
<1>1. /\ reads <=> fn \in {1, 2, 3, 4}
      /\ many <=> fn \in {15, 16}
      /\ one <=> fn \in {5, 6, 22}
      /\ both <=> fn = 23
      /\ name <=> fn = 17
  BY CodesAre, SameCodes
<1>2. /\ reads => ~many /\ ~one /\ ~both
      /\ many => ~one /\ ~both
      /\ one => ~both
      /\ name => ~reads /\ ~many /\ ~one /\ ~both
  BY <1>1
<1>3. in <=> (CASE reads -> inReads [] many -> inMany [] one -> inOne [] both -> inBoth
                [] OTHER -> name)
  BY Zenon DEF Memory!InRange
<1> HIDE DEF reads, many, one, both, name, inReads, inMany, inOne, inBoth, in
<1>4. /\ reads => (in <=> inReads)
      /\ many => (in <=> inMany)
      /\ one => (in <=> inOne)
      /\ both => (in <=> inBoth)
      /\ name => in
  BY <1>2, <1>3, Zenon
<1>5. /\ \A x, addr, nb : Memory!Covers(x, addr, nb) = Covers(x, addr, nb)
      /\ Memory!MaxRead(fn) = MaxRead(fn)
  BY SameOperators, Zenon
<1>6. /\ inReads <=> q.nb \in 1 .. MaxRead(fn) /\ Covers(block, q.addr, q.nb)
      /\ inMany <=> q.values # <<>> /\ Covers(block, q.addr, Len(q.values))
      /\ inBoth <=> /\ q.nb > 0 /\ q.values # <<>> /\ Covers(block, q.addr, q.nb)
                    /\ Covers(block, q.writeAddr, Len(q.values))
  BY <1>5, Zenon DEF inReads, inMany, inBoth
<1> HIDE DEF fn
<1>7. /\ fn \in {1, 2, 3, 4} => (in <=> inReads)
      /\ fn \in {15, 16} => (in <=> inMany)
      /\ fn \in {5, 6, 22} => (in <=> inOne)
      /\ fn = 23 => (in <=> inBoth)
      /\ fn = 17 => in
  BY <1>1, <1>4
<1> QED
  BY <1>6, <1>7, Zenon DEF inOne, in, fn

\* The limits are numbers, and a request that is sent keeps them.
LEMMA WithinLimits ==
  ASSUME NEW q, IsRequest(q), ~q.raw, ~Refused(q)
  PROVE  /\ q.fn \in {1, 2, 3, 4, 5, 6, 15, 16, 17, 22, 23}
         /\ q.nb \in Nat /\ Len(q.values) \in Nat
         /\ MaxRead(q.fn) \in Nat /\ MaxWrite(q.fn) \in Nat
         /\ q.fn \in {1, 2, 3, 4, 23} => q.nb <= MaxRead(q.fn)
         /\ q.fn \in {15, 16, 23} => Len(q.values) <= MaxWrite(q.fn)
         /\ q.values # <<>> <=> Len(q.values) > 0
<1> DEFINE fn == q.fn
           n == Len(q.values)
           most == MaxRead(fn)
           many == MaxWrite(fn)
<1>1. fn \in {1, 2, 3, 4, 5, 6, 15, 16, 17, 22, 23} /\ q.nb \in Nat /\ q.values \in Seq(Uint16)
  BY RequestIs
<1>2. n \in Nat /\ (q.values # <<>> <=> n > 0)
  BY <1>1
<1>3. most \in Nat
  BY DEF MaxRead
<1>4. many \in Nat
  <2> DEFINE coils == fn = WriteMultipleCoils
             registers == fn = WriteMultipleRegisters
             a == 1968
             b == 123
             c == 121
  <2>1. many = CASE coils -> a [] registers -> b [] OTHER -> c
    BY Zenon DEF MaxWrite
  <2>2. a \in Nat /\ b \in Nat /\ c \in Nat
    OBVIOUS
  <2>3. coils => ~registers
    BY CodesAre
  <2> HIDE DEF coils, registers, a, b, c, many
  <2> QED
    BY <2>1, <2>2, <2>3, Zenon
<1>5. fn \in BitReads \cup RegisterReads \cup {WriteAndReadRegisters} => ~(q.nb > most)
  BY Zenon DEF Refused
<1>6. fn \in Multiples \cup {WriteAndReadRegisters} => ~(n > many)
  BY Zenon DEF Refused
<1>7. /\ fn \in {1, 2, 3, 4, 23} => fn \in BitReads \cup RegisterReads \cup {WriteAndReadRegisters}
      /\ fn \in {15, 16, 23} => fn \in Multiples \cup {WriteAndReadRegisters}
  BY CodesAre
<1> HIDE DEF fn, n, most, many
<1>8. fn \in {1, 2, 3, 4, 23} => q.nb <= most
  BY <1>1, <1>3, <1>5, <1>7
<1>9. fn \in {15, 16, 23} => n <= many
  BY <1>2, <1>4, <1>6, <1>7
<1> QED
  BY <1>1, <1>2, <1>3, <1>4, <1>8, <1>9 DEF fn, n, most, many

\* The server carries out what is in range, and nothing else.
LEMMA Decided ==
  ASSUME NEW q, IsRequest(q), ~q.raw, ~Refused(q), NEW req, NEW h \in Nat, Says(q, req, h), NEW block
  PROVE  Memory!InRange(q, block) <=>
           LegalNumber(req, h) /\ LegalAddress(req, h, block) /\ LegalValue(req, h)
<1> DEFINE fn == q.fn
           n == Len(q.values)
           number == Number(req, h)
           address == Address(req, h)
           in == Memory!InRange(q, block)
           legal == LegalNumber(req, h)
           reaches == LegalAddress(req, h, block)
           value == LegalValue(req, h)
           Right == in <=> legal /\ reaches /\ value
<1>1. /\ fn \in {1, 2, 3, 4, 5, 6, 15, 16, 17, 22, 23}
      /\ q.nb \in Nat /\ n \in Nat /\ MaxRead(fn) \in Nat /\ MaxWrite(fn) \in Nat
      /\ fn \in {1, 2, 3, 4, 23} => q.nb <= MaxRead(fn)
      /\ fn \in {15, 16, 23} => n <= MaxWrite(fn)
      /\ q.values # <<>> <=> n > 0
  BY WithinLimits
<1>2. req[h + 1] = fn
  BY DEF Says, Function
<1>3. fn # 5 => value
  BY CodesAre DEF LegalValue, Says
<1>4. ASSUME fn \in {1, 2, 3, 4} PROVE Right
  <2>1. number = q.nb /\ address = q.addr
    BY <1>4 DEF Says
  <2>2. /\ legal <=> number \in 1 .. MaxRead(req[h + 1])
        /\ reaches <=> Covers(block, address, number)
        /\ in <=> q.nb \in 1 .. MaxRead(fn) /\ Covers(block, q.addr, q.nb)
    BY <1>2, <1>4, LegalNumberCases, LegalAddressCases, InRangeCases
  <2>3. value
    BY <1>3, <1>4
  <2> QED
    BY <1>2, <2>1, <2>2, <2>3, Zenon
<1>5. ASSUME fn = 5 PROVE Right
  <2>1. address = q.addr
    BY <1>5 DEF Says
  <2>2. legal /\ (reaches <=> address \in DOMAIN block) /\ (in <=> q.addr \in DOMAIN block)
    BY <1>2, <1>5, LegalNumberCases, LegalAddressCases, InRangeCases
  <2>3. value
    <3>1. number \in {0, 65280}
      BY <1>5 DEF Says
    <3> QED
      BY <3>1 DEF LegalValue
  <2> QED
    BY <2>1, <2>2, <2>3, Zenon
<1>6. ASSUME fn \in {6, 22} PROVE Right
  <2>1. address = q.addr
    BY <1>6 DEF Says
  <2>2. legal /\ (reaches <=> address \in DOMAIN block) /\ (in <=> q.addr \in DOMAIN block)
    BY <1>2, <1>6, LegalNumberCases, LegalAddressCases, InRangeCases
  <2>3. value
    BY <1>3, <1>6
  <2> QED
    BY <2>1, <2>2, <2>3, Zenon
<1>7. ASSUME fn = 15 PROVE Right
  <2>1. address = q.addr /\ number = n /\ req[h + 6] = BytesFor(n)
    BY <1>7 DEF Says
  <2>2. reaches <=> Covers(block, address, number)
    BY <1>2, <1>7, LegalAddressCases
  <2>3. in <=> q.values # <<>> /\ Covers(block, q.addr, n)
    BY <1>7, InRangeCases
  <2>4. legal <=> number \in 1 .. MaxWrite(req[h + 1]) /\ 8 * req[h + 6] >= number
    BY <1>2, <1>7, LegalNumberCases
  <2>5. 8 * BytesFor(n) >= n
    <3>1. \A k \in Nat : 8 * BytesFor(k) >= k
      BY DEF BytesFor
    <3> QED
      BY <1>1, <3>1
  <2>6. legal <=> q.values # <<>>
    <3> HIDE DEF n, legal, number
    <3> QED
      BY <1>1, <1>2, <1>7, <2>1, <2>4, <2>5
  <2>7. value
    BY <1>3, <1>7
  <2> QED
    BY <2>1, <2>2, <2>3, <2>6, <2>7, Zenon
<1>8. ASSUME fn = 16 PROVE Right
  <2>1. address = q.addr /\ number = n /\ req[h + 6] = 2 * n
    BY <1>8 DEF Says
  <2>2. reaches <=> Covers(block, address, number)
    BY <1>2, <1>8, LegalAddressCases
  <2>3. in <=> q.values # <<>> /\ Covers(block, q.addr, n)
    BY <1>8, InRangeCases
  <2>4. legal <=> number \in 1 .. MaxWrite(req[h + 1]) /\ req[h + 6] = 2 * number
    BY <1>2, <1>8, LegalNumberCases
  <2>5. legal <=> q.values # <<>>
    <3> HIDE DEF n, legal, number
    <3> QED
      BY <1>1, <1>2, <1>8, <2>1, <2>4
  <2>6. value
    BY <1>3, <1>8
  <2> QED
    BY <2>1, <2>2, <2>3, <2>5, <2>6, Zenon
<1>9. ASSUME fn = 23 PROVE Right
  <2> DEFINE writes == WriteNumber(req, h)
  <2>1. /\ address = q.addr /\ number = q.nb /\ WriteAddress(req, h) = q.writeAddr
        /\ writes = n /\ req[h + 10] = 2 * n
    BY <1>9 DEF Says
  <2>2. reaches <=> /\ Covers(block, address, number)
                    /\ Covers(block, WriteAddress(req, h), writes)
    BY <1>2, <1>9, LegalAddressCases
  <2>3. in <=> /\ q.nb > 0 /\ q.values # <<>> /\ Covers(block, q.addr, q.nb)
               /\ Covers(block, q.writeAddr, n)
    BY <1>9, InRangeCases
  <2>4. legal <=> /\ number \in 1 .. MaxRead(req[h + 1]) /\ writes \in 1 .. MaxWrite(req[h + 1])
                  /\ req[h + 10] = 2 * writes
    BY <1>2, <1>9, LegalNumberCases
  <2>5. legal <=> q.nb > 0 /\ q.values # <<>>
    <3> HIDE DEF n, legal, number, writes
    <3> QED
      BY <1>1, <1>2, <1>9, <2>1, <2>4
  <2>6. value
    BY <1>3, <1>9
  <2> HIDE DEF in, reaches, legal, value
  <2> QED
    BY <2>1, <2>2, <2>3, <2>5, <2>6, Zenon
<1>10. ASSUME fn = 17 PROVE Right
  <2>1. in /\ legal /\ reaches
    BY <1>2, <1>10, LegalNumberCases, LegalAddressCases, InRangeCases
  <2>2. value
    BY <1>3, <1>10
  <2> QED
    BY <2>1, <2>2, Zenon
<1> HIDE DEF Right
<1>11. Right
  BY <1>1, <1>4, <1>5, <1>6, <1>7, <1>8, <1>9, <1>10
<1> QED
  BY <1>11 DEF Right

\* A mapping with another block.
Put(map, name, block) == [map EXCEPT ![name] = block]

\* A block with another value at an address.
With(block, addr, value) == [block EXCEPT ![addr] = value]

\* What RemoteMemory makes of a request that is in range, by function code.
LEMMA EffectCases ==
  ASSUME NEW q, ~q.raw, NEW m, NEW name, name = BlockOf(q.fn)
  PROVE  /\ ~Memory!InRange(q, m[name]) => Memory!Effect(q, m) = m
         /\ Memory!InRange(q, m[name]) =>
              /\ q.fn = 5 => Memory!Effect(q, m) =
                   Put(m, name, With(m[name], q.addr, IF q.values[1] = 0 THEN 0 ELSE 1))
              /\ q.fn = 6 => Memory!Effect(q, m) =
                   Put(m, name, With(m[name], q.addr, q.values[1]))
              /\ q.fn \in {15, 16} => Memory!Effect(q, m) =
                   Put(m, name, Overwritten(m[name], q.addr, q.values))
              /\ q.fn = 22 => Memory!Effect(q, m) =
                   Put(m, name, With(m[name], q.addr,
                     Memory!MaskedBySum(m[name][q.addr], q.values[1], q.values[2])))
              /\ q.fn = 23 => Memory!Effect(q, m) =
                   Put(m, name, Overwritten(m[name], q.writeAddr, q.values))
              /\ q.fn \notin {5, 6, 15, 16, 22, 23} => Memory!Effect(q, m) = m
<1> DEFINE fn == q.fn
           coil == fn = Memory!WriteSingleCoil
           register == fn = Memory!WriteSingleRegister
           many == fn \in Memory!Multiples
           mask == fn = Memory!MaskWriteRegister
           both == fn = Memory!WriteAndReadRegisters
           its == Memory!BlockOf(fn)
           new5 == [m EXCEPT ![its][q.addr] = IF q.values[1] = 0 THEN 0 ELSE 1]
           new6 == [m EXCEPT ![its][q.addr] = q.values[1]]
           newMany == [m EXCEPT ![its] = Memory!Overwritten(@, q.addr, q.values)]
           new22 == [m EXCEPT ![its][q.addr] = Memory!MaskedBySum(@, q.values[1], q.values[2])]
           new23 == [m EXCEPT ![its] = Memory!Overwritten(@, q.writeAddr, q.values)]
           in == Memory!InRange(q, m[its])
           effect == Memory!Effect(q, m)
           new == CASE coil -> new5 [] register -> new6 [] many -> newMany [] mask -> new22
                    [] both -> new23 [] OTHER -> m
<1>1. /\ coil <=> fn = 5
      /\ register <=> fn = 6
      /\ many <=> fn \in {15, 16}
      /\ mask <=> fn = 22
      /\ both <=> fn = 23
  BY CodesAre, SameCodes
<1>2. /\ coil => ~register /\ ~many /\ ~mask /\ ~both
      /\ register => ~many /\ ~mask /\ ~both
      /\ many => ~mask /\ ~both
      /\ mask => ~both
  BY <1>1
<1>3. name = its
  BY SameOperators, Zenon
<1>4. effect = IF q.raw \/ ~in THEN m ELSE new
  BY Zenon DEF Memory!Effect
<1>5. /\ new5 = Put(m, name, With(m[name], q.addr, IF q.values[1] = 0 THEN 0 ELSE 1))
      /\ new6 = Put(m, name, With(m[name], q.addr, q.values[1]))
      /\ new22 = Put(m, name, With(m[name], q.addr,
                       Memory!MaskedBySum(m[name][q.addr], q.values[1], q.values[2])))
  BY <1>3 DEF Put, With
<1>6. \A block, addr, values : Memory!Overwritten(block, addr, values) = Overwritten(block, addr, values)
  BY SameOperators, Zenon
<1>7. /\ newMany = Put(m, name, Overwritten(m[name], q.addr, q.values))
      /\ new23 = Put(m, name, Overwritten(m[name], q.writeAddr, q.values))
  BY <1>3, <1>6 DEF Put
<1>8. new = CASE coil -> new5 [] register -> new6 [] many -> newMany [] mask -> new22
              [] both -> new23 [] OTHER -> m
  BY Zenon
<1> HIDE DEF coil, register, many, mask, both, new5, new6, newMany, new22, new23, in, effect, new, fn
<1>9. /\ coil => new = new5
      /\ register => new = new6
      /\ many => new = newMany
  BY <1>2, <1>8, Zenon
<1>10. /\ mask => new = new22
       /\ both => new = new23
  BY <1>2, <1>8, Zenon
<1>11. ~coil /\ ~register /\ ~many /\ ~mask /\ ~both => new = m
  BY <1>8, Zenon
<1>12. /\ fn = 5 => new = new5
       /\ fn = 6 => new = new6
       /\ fn \in {15, 16} => new = newMany
       /\ fn = 22 => new = new22
       /\ fn = 23 => new = new23
       /\ fn \notin {5, 6, 15, 16, 22, 23} => new = m
  BY <1>1, <1>9, <1>10, <1>11
<1>13. (~in => effect = m) /\ (in => effect = new)
  BY <1>4, Zenon
<1>14. /\ in /\ fn = 5 => effect = new5
       /\ in /\ fn = 6 => effect = new6
       /\ in /\ fn \in {15, 16} => effect = newMany
       /\ in /\ fn = 22 => effect = new22
       /\ in /\ fn = 23 => effect = new23
       /\ in /\ fn \notin {5, 6, 15, 16, 22, 23} => effect = m
  BY <1>12, <1>13, Zenon
<1>15. in <=> Memory!InRange(q, m[name])
  BY <1>3, Zenon DEF in
<1> QED
  BY <1>5, <1>7, <1>13, <1>14, <1>15, Zenon DEF effect, fn

\* What the server puts into the block is what RemoteMemory has there.
LEMMA WrittenAsAsked ==
  ASSUME NEW q, IsRequest(q), ~q.raw, ~Refused(q), NEW req, NEW h \in Nat, Says(q, req, h),
         NEW map, IsMapping(map), NEW name, name = BlockOf(q.fn), Memory!InRange(q, map[name])
  PROVE  Put(map, name, Written(req, h, map[name])) = Memory!Effect(q, map)
<1> DEFINE fn == q.fn
           block == map[name]
           written == Written(req, h, block)
           effect == Memory!Effect(q, map)
           Right == Put(map, name, written) = effect
<1>1. fn \in {1, 2, 3, 4, 5, 6, 15, 16, 17, 22, 23}
  BY RequestIs
<1>2. req[h + 1] = fn
  BY DEF Says, Function
<1>3. name \in BlockNames /\ map = [n \in BlockNames |-> map[n]]
  BY BlockNamed DEF IsMapping
<1>4. ASSUME fn \in {1, 2, 3, 4, 17} PROVE Right
  <2>1. written = block
    <3>1. req[h + 1] \notin {5, 6, 15, 16, 22, 23}
      BY <1>2, <1>4
    <3> QED
      BY <3>1, WrittenIs
  <2>2. effect = map
    <3>1. q.fn \notin {5, 6, 15, 16, 22, 23}
      BY <1>4
    <3> QED
      BY <3>1, EffectCases
  <2> HIDE DEF written, effect
  <2>3. Put(map, name, map[name]) = map
    BY <1>3 DEF Put
  <2> QED
    BY <2>1, <2>2, <2>3, Zenon
<1>5. ASSUME fn = 5 PROVE Right
  <2> DEFINE value == IF q.values[1] = 0 THEN 0 ELSE 1
             coil == IF Number(req, h) = 0 THEN 0 ELSE 1
  <2>1. written = With(block, Address(req, h), coil)
    BY <1>2, <1>5, WrittenIs DEF With
  <2>2. Address(req, h) = q.addr /\ Number(req, h) = IF q.values[1] # 0 THEN 65280 ELSE 0
    BY <1>5 DEF Says
  <2>3. coil = value
    BY <2>2
  <2>4. effect = Put(map, name, With(block, q.addr, value))
    BY <1>5, EffectCases
  <2> HIDE DEF written, effect, value, coil
  <2>5. written = With(block, q.addr, value)
    <3>1. Address(req, h) = q.addr
      BY <2>2
    <3> QED
      BY <2>1, <2>3, <3>1, Zenon
  <2> QED
    BY <2>4, <2>5, Zenon
<1>6. ASSUME fn = 6 PROVE Right
  <2>1. written = With(block, Address(req, h), Number(req, h))
    BY <1>2, <1>6, WrittenIs DEF With
  <2>2. Address(req, h) = q.addr /\ Number(req, h) = q.values[1]
    BY <1>6 DEF Says
  <2>3. effect = Put(map, name, With(block, q.addr, q.values[1]))
    BY <1>6, EffectCases
  <2> HIDE DEF written, effect
  <2> QED
    BY <2>1, <2>2, <2>3, Zenon
<1>7. ASSUME fn = 15 PROVE Right
  <2>1. written = Overwritten(block, Address(req, h),
                              Unpacked(SubSeq(req, h + 7, Len(req)), Number(req, h)))
    BY <1>2, <1>7, WrittenIs
  <2>2. /\ Address(req, h) = q.addr /\ Number(req, h) = Len(q.values)
        /\ Unpacked(SubSeq(req, h + 7, Len(req)), Len(q.values)) = q.values
    BY <1>7 DEF Says
  <2>3. effect = Put(map, name, Overwritten(block, q.addr, q.values))
    BY <1>7, EffectCases
  <2> HIDE DEF written, effect
  <2> QED
    BY <2>1, <2>2, <2>3, Zenon
<1>8. ASSUME fn = 16 PROVE Right
  <2>1. written = Overwritten(block, Address(req, h), WordsAt(req, h + 7, Number(req, h)))
    BY <1>2, <1>8, WrittenIs
  <2>2. /\ Address(req, h) = q.addr /\ Number(req, h) = Len(q.values)
        /\ WordsAt(req, h + 7, Len(q.values)) = q.values
    BY <1>8 DEF Says
  <2>3. effect = Put(map, name, Overwritten(block, q.addr, q.values))
    BY <1>8, EffectCases
  <2> HIDE DEF written, effect
  <2> QED
    BY <2>1, <2>2, <2>3, Zenon
<1>9. ASSUME fn = 22 PROVE Right
  <2> DEFINE old == block[q.addr]
             v == q.values[1]
             w == q.values[2]
  <2>1. written = With(block, Address(req, h),
                       Masked(block[Address(req, h)], WordAt(req, h + 4), WordAt(req, h + 6)))
    BY <1>2, <1>9, WrittenIs DEF With
  <2>2. Address(req, h) = q.addr /\ WordAt(req, h + 4) = v /\ WordAt(req, h + 6) = w
    BY <1>9 DEF Says, Number
  <2>3. v \in Uint16 /\ w \in Uint16
    BY <1>9, RequestWords
  <2>4. old \in Uint16
    <3>1. q.addr \in DOMAIN block
      BY <1>9, InRangeCases
    <3>2. name = "registers"
      BY <1>9, BlockOfIs
    <3>3. block \in [DOMAIN block -> Uint16]
      BY <1>3, <3>2 DEF IsMapping
    <3> HIDE DEF block
    <3> QED
      BY <3>1, <3>3
  <2>5. Masked(old, v, w) = Memory!MaskedBySum(old, v, w)
    BY <2>3, <2>4, MaskedIsSum
  <2>6. effect = Put(map, name, With(block, q.addr, Memory!MaskedBySum(old, v, w)))
    BY <1>9, EffectCases
  <2> HIDE DEF written, effect, v, w
  <2>7. written = With(block, q.addr, Masked(old, v, w))
    BY <2>1, <2>2, Zenon
  <2> HIDE DEF old
  <2> QED
    BY <2>5, <2>6, <2>7, Zenon
<1>10. ASSUME fn = 23 PROVE Right
  <2>1. written = Overwritten(block, WriteAddress(req, h), WordsAt(req, h + 11, WriteNumber(req, h)))
    BY <1>2, <1>10, WrittenIs
  <2>2. /\ WriteAddress(req, h) = q.writeAddr /\ WriteNumber(req, h) = Len(q.values)
        /\ WordsAt(req, h + 11, Len(q.values)) = q.values
    BY <1>10 DEF Says
  <2>3. effect = Put(map, name, Overwritten(block, q.writeAddr, q.values))
    BY <1>10, EffectCases
  <2> HIDE DEF written, effect
  <2> QED
    BY <2>1, <2>2, <2>3, Zenon
<1> HIDE DEF Right
<1>11. Right
  BY <1>1, <1>4, <1>5, <1>6, <1>7, <1>8, <1>9, <1>10
<1> QED
  BY <1>11 DEF Right

Legal(req, h, block) == LegalNumber(req, h) /\ LegalAddress(req, h, block) /\ LegalValue(req, h)

\* The server carries out what is legal; anything else leaves the mapping as it is.
LEMMA ReplyCases ==
  \A b, req, map, h, name :
    h = HeaderLength[b] /\ name = BlockOf(req[h + 1])
    => /\ req[h + 1] \notin Functions => Reply(req, b, map).mapping = map
       /\ req[h + 1] \in Functions /\ ~Legal(req, h, map[name]) =>
            /\ Reply(req, b, map).mapping = map
            /\ \E code \in {1, 2, 3} : Reply(req, b, map).pdu = <<(req[h + 1] + 128) % 256, code>>
       /\ req[h + 1] \in Functions /\ Legal(req, h, map[name]) =>
            /\ Reply(req, b, map).mapping = Put(map, name, Written(req, h, map[name]))
            /\ Reply(req, b, map).pdu =
                 ResponsePdu(req, h, Len(req) - ChecksumLength[b], Reply(req, b, map).mapping[name])
<1>1. ASSUME NEW b, NEW req, NEW map, NEW h, NEW name, h = HeaderLength[b],
             name = BlockOf(req[h + 1])
      PROVE  /\ req[h + 1] \notin Functions => Reply(req, b, map).mapping = map
             /\ req[h + 1] \in Functions /\ ~Legal(req, h, map[name]) =>
                  /\ Reply(req, b, map).mapping = map
                  /\ \E code \in {1, 2, 3} :
                       Reply(req, b, map).pdu = <<(req[h + 1] + 128) % 256, code>>
             /\ req[h + 1] \in Functions /\ Legal(req, h, map[name]) =>
                  /\ Reply(req, b, map).mapping = Put(map, name, Written(req, h, map[name]))
                  /\ Reply(req, b, map).pdu =
                       ResponsePdu(req, h, Len(req) - ChecksumLength[b],
                                   Reply(req, b, map).mapping[name])
  <2> DEFINE fn == req[h + 1]
             block == map[name]
             new == [map EXCEPT ![name] = Written(req, h, block)]
             pdu == ResponsePdu(req, h, Len(req) - ChecksumLength[b], new[name])
             nothing == [pdu |-> <<>>, mapping |-> map, flush |-> FALSE]
             answer == [pdu |-> pdu, mapping |-> new, flush |-> FALSE]
             Exception(code, flush) == ExceptionReply(fn, map, code, flush)
             reply == Reply(req, b, map)
             silent == fn = ReadExceptionStatus
             known == fn \in Functions
             number == LegalNumber(req, h)
             address == LegalAddress(req, h, block)
             value == LegalValue(req, h)
             wrongFunction == Exception(1, TRUE)
             wrongNumber == Exception(3, TRUE)
             wrongAddress == Exception(2, FALSE)
             wrongValue == Exception(3, FALSE)
             Refuses(r) == r.mapping = map /\ \E code \in {1, 2, 3} : r.pdu = <<(fn + 128) % 256, code>>
             Answers(r) == /\ r.mapping = new
                           /\ r.pdu = ResponsePdu(req, h, Len(req) - ChecksumLength[b], r.mapping[name])
  <2>1. reply = IF silent THEN nothing ELSE IF ~known THEN wrongFunction
                ELSE IF ~number THEN wrongNumber ELSE IF ~address THEN wrongAddress
                ELSE IF ~value THEN wrongValue ELSE answer
    BY <1>1, Zenon DEF Reply, Function, ExceptionReply
  <2>2. known => ~silent
    BY CodesAre
  <2>3. nothing.mapping = map
    OBVIOUS
  <2>4. ASSUME NEW code \in {1, 2, 3}, NEW flush PROVE Refuses(Exception(code, flush))
    BY DEF ExceptionReply
  <2>5. /\ 1 \in {1, 2, 3} /\ 2 \in {1, 2, 3} /\ 3 \in {1, 2, 3}
    OBVIOUS
  <2>6. Refuses(wrongFunction) /\ Refuses(wrongNumber) /\ Refuses(wrongAddress) /\ Refuses(wrongValue)
    <3> HIDE DEF Refuses, Exception
    <3> QED
      BY <2>4, <2>5, Zenon DEF Exception
  <2>7. Answers(answer)
    <3>1. answer.mapping = new /\ answer.pdu = pdu
      OBVIOUS
    <3> HIDE DEF answer, new
    <3> QED
      BY <3>1, Zenon
  <2>8. Legal(req, h, block) <=> number /\ address /\ value
    BY Zenon DEF Legal
  <2> HIDE DEF silent, known, number, address, value, nothing, answer, wrongFunction,
               wrongNumber, wrongAddress, wrongValue, reply, fn, Answers, Refuses
  <2>9. /\ silent => reply = nothing
        /\ ~silent /\ ~known => reply = wrongFunction
        /\ known /\ ~number => reply = wrongNumber
        /\ known /\ number /\ ~address => reply = wrongAddress
        /\ known /\ number /\ address /\ ~value => reply = wrongValue
        /\ known /\ number /\ address /\ value => reply = answer
    BY <2>1, <2>2, Zenon
  <2>10. ~known => reply.mapping = map
    BY <2>3, <2>6, <2>9, Zenon DEF Refuses
  <2>11. known /\ ~Legal(req, h, block) => Refuses(reply)
    BY <2>6, <2>8, <2>9, Zenon
  <2>12. known /\ Legal(req, h, block) => Answers(reply)
    BY <2>7, <2>8, <2>9, Zenon
  <2> QED
    BY <2>10, <2>11, <2>12, Zenon DEF known, Refuses, Answers, reply, Put, fn
<1> QED
  BY <1>1

\* An exception of the server.
ExceptionPdu(fn, code) == <<(fn + 128) % 256, code>>

\* A request that says what is asked is carried out exactly when it is in range.
CarriedOut(q, b, req, map) ==
  LET h == HeaderLength[b]
      name == BlockOf(q.fn)
      reply == Reply(req, b, map)
  IN /\ reply.mapping = Memory!Effect(q, map)
     /\ Memory!InRange(q, map[name]) =>
          /\ Legal(req, h, map[name])
          /\ reply.pdu = ResponsePdu(req, h, Len(req) - ChecksumLength[b], reply.mapping[name])
     /\ ~Memory!InRange(q, map[name]) =>
          \E code \in {1, 2, 3} : reply.pdu = ExceptionPdu(q.fn, code)

\* A request of a client function, in range or not, is.
LEMMA Carried ==
  \A b \in Backends : \A q, req, map :
    IsRequest(q) /\ ~q.raw /\ ~Refused(q) /\ Says(q, req, HeaderLength[b]) /\ IsMapping(map)
    => CarriedOut(q, b, req, map)
<1> SUFFICES ASSUME NEW b \in Backends, NEW q, NEW req, NEW map, IsRequest(q), ~q.raw,
                    ~Refused(q), Says(q, req, HeaderLength[b]), IsMapping(map)
             PROVE  CarriedOut(q, b, req, map)
  OBVIOUS
<1> DEFINE h == HeaderLength[b]
           name == BlockOf(q.fn)
           reply == Reply(req, b, map)
<1>1. h \in Nat
  BY LengthsAre
<1>2. req[h + 1] = q.fn /\ q.fn \in Functions
  <2>1. req[h + 1] = q.fn
    BY DEF Says, Function
  <2> QED
    BY <2>1, RequestIs, CodesAre
<1>3. Memory!InRange(q, map[name]) <=> Legal(req, h, map[name])
  BY <1>1, Decided DEF Legal
<1>30. h = HeaderLength[b] /\ name = BlockOf(req[h + 1])
  BY <1>2
<1>4. /\ ~Legal(req, h, map[name]) =>
            /\ reply.mapping = map
            /\ \E code \in {1, 2, 3} : reply.pdu = <<(req[h + 1] + 128) % 256, code>>
      /\ Legal(req, h, map[name]) =>
            /\ reply.mapping = Put(map, name, Written(req, h, map[name]))
            /\ reply.pdu =
                 ResponsePdu(req, h, Len(req) - ChecksumLength[b], reply.mapping[name])
  <2>1. req[h + 1] \in Functions
    BY <1>2
  <2>2. /\ req[h + 1] \in Functions /\ ~Legal(req, h, map[name]) =>
              /\ Reply(req, b, map).mapping = map
              /\ \E code \in {1, 2, 3} : Reply(req, b, map).pdu = <<(req[h + 1] + 128) % 256, code>>
        /\ req[h + 1] \in Functions /\ Legal(req, h, map[name]) =>
              /\ Reply(req, b, map).mapping = Put(map, name, Written(req, h, map[name]))
              /\ Reply(req, b, map).pdu =
                   ResponsePdu(req, h, Len(req) - ChecksumLength[b], Reply(req, b, map).mapping[name])
    BY <1>30, ReplyCases
  <2> QED
    BY <2>1, <2>2, Zenon
<1>40. ~Legal(req, h, map[name]) => \E code \in {1, 2, 3} : reply.pdu = ExceptionPdu(q.fn, code)
  BY <1>2, <1>4 DEF ExceptionPdu
<1>5. Memory!InRange(q, map[name]) => Put(map, name, Written(req, h, map[name])) = Memory!Effect(q, map)
  BY <1>1, WrittenAsAsked
<1>6. ~Memory!InRange(q, map[name]) => Memory!Effect(q, map) = map
  BY EffectCases
<1> QED
  BY <1>3, <1>4, <1>40, <1>5, <1>6, Zenon DEF CarriedOut

\* Only the addresses a block covers say whether a request is in range.
LEMMA SameRange ==
  ASSUME NEW q, NEW block, NEW new, DOMAIN new = DOMAIN block
  PROVE  Memory!InRange(q, new) <=> Memory!InRange(q, block)
BY Zenon DEF Memory!InRange, Memory!Covers

\* The same block put in its place twice,
LEMMA PutTwice ==
  ASSUME NEW map, IsMapping(map), NEW name \in BlockNames, NEW block
  PROVE  /\ Put(map, name, block)[name] = block
         /\ Put(Put(map, name, block), name, block) = Put(map, name, block)
BY DEF Put, IsMapping

\* the same value at an address,
LEMMA WithTwice ==
  ASSUME NEW block, NEW addr, NEW value
  PROVE  /\ DOMAIN With(block, addr, value) = DOMAIN block
         /\ With(With(block, addr, value), addr, value) = With(block, addr, value)
         /\ addr \in DOMAIN block => With(block, addr, value)[addr] = value
BY DEF With

\* and the same values over others.
LEMMA OverwrittenTwice ==
  ASSUME NEW block, NEW addr, NEW values
  PROVE  /\ DOMAIN Overwritten(block, addr, values) = DOMAIN block
         /\ Overwritten(Overwritten(block, addr, values), addr, values)
              = Overwritten(block, addr, values)
<1> DEFINE new == Overwritten(block, addr, values)
           within(a) == a \in addr .. addr + Len(values) - 1
<1>1. new = [a \in DOMAIN block |-> IF within(a) THEN values[a - addr + 1] ELSE block[a]]
  BY Zenon DEF Overwritten
<1>2. Overwritten(new, addr, values)
        = [a \in DOMAIN new |-> IF within(a) THEN values[a - addr + 1] ELSE new[a]]
  BY Zenon DEF Overwritten
<1> HIDE DEF new, within
<1> QED
  BY <1>1, <1>2 DEF new

\* A masked write does the same the second time.
LEMMA MaskedTwice ==
  ASSUME NEW old \in Uint16, NEW mask \in Uint16, NEW other \in Uint16
  PROVE  Masked(Masked(old, mask, other), mask, other) = Masked(old, mask, other)
<1> DEFINE Chosen(w) == [i \in 1 .. 16 |-> IF BitsOf(mask)[i] = 1 THEN BitsOf(w)[i]
                                           ELSE BitsOf(other)[i]]
           bits == Chosen(old)
           p == Packed(bits)
           new == Masked(old, mask, other)
           bytes == <<new % 256, new \div 256>>
<1>1. \A w : Masked(w, mask, other) = 256 * Packed(Chosen(w))[2] + Packed(Chosen(w))[1]
  BY Zenon DEF Masked, BitsOf
<1>2. /\ BitsOf(old) \in [1 .. 16 -> {0, 1}] /\ BitsOf(other) \in [1 .. 16 -> {0, 1}]
  BY UnpackedBits
<1>3. bits \in [1 .. 16 -> {0, 1}]
  BY <1>2
<1>4. bits \in Seq({0, 1}) /\ Len(bits) = 16
  BY <1>3, FunctionIsSeq
<1>5. BytesFor(16) = 2
  BY DEF BytesFor
<1>6. p[1] \in Byte /\ p[2] \in Byte
  <2>1. p \in Seq(Byte) /\ Len(p) = 2
    BY <1>4, <1>5, PackedType
  <2> HIDE DEF p
  <2>2. 1 \in 1 .. Len(p) /\ 2 \in 1 .. Len(p)
    BY <2>1
  <2> QED
    BY <2>1, <2>2, ElementOfSeq, Zenon
<1>7. new = 256 * p[2] + p[1]
  BY <1>1
<1>8. BitsOf(new) = bits
  <2>1. new % 256 = p[1] /\ new \div 256 = p[2]
    <3>1. \A x, y \in Byte : (256 * y + x) % 256 = x
      BY ByteIs
    <3>2. \A x, y \in Byte : (256 * y + x) \div 256 = y
      BY ByteIs
    <3> HIDE DEF p, new
    <3> QED
      BY <1>6, <1>7, <3>1, <3>2
  <2>2. \A k \in 1 .. BytesFor(Len(bits)) : bytes[k] = p[k]
    <3>1. bytes[1] = p[1] /\ bytes[2] = p[2]
      <4> HIDE DEF p, new
      <4> QED
        BY <2>1
    <3>2. BytesFor(Len(bits)) = 2
      BY <1>4, <1>5, Zenon
    <3> HIDE DEF p, new, bytes, bits
    <3>3. \A k \in 1 .. 2 : k = 1 \/ k = 2
      OBVIOUS
    <3> QED
      BY <3>1, <3>2, <3>3, Zenon
  <2>3. Unpacked(bytes, Len(bits)) = bits
    <3> HIDE DEF bytes, bits
    <3> QED
      BY <1>4, <2>2, PackedBack DEF p
  <2> QED
    BY <1>4, <2>3, Zenon DEF BitsOf
<1>9. Chosen(new) = bits
  <2>1. \A i \in 1 .. 16 : BitsOf(mask)[i] = 1 => BitsOf(new)[i] = BitsOf(old)[i]
    BY <1>8
  <2> HIDE DEF new
  <2> QED
    BY <2>1
<1> QED
  BY <1>1, <1>9, Zenon

\* What has been carried out changes nothing the second time.
LEMMA EffectOnce ==
  ASSUME NEW q, IsRequest(q), ~q.raw, ~Refused(q), NEW map, IsMapping(map), NEW name,
         name = BlockOf(q.fn)
  PROVE  /\ Memory!Effect(q, Memory!Effect(q, map)) = Memory!Effect(q, map)
         /\ Memory!InRange(q, Memory!Effect(q, map)[name]) <=> Memory!InRange(q, map[name])
<1> DEFINE block == map[name]
           effect == Memory!Effect(q, map)
           in == Memory!InRange(q, block)
           fn == q.fn
           Right == Memory!Effect(q, effect) = effect /\ (Memory!InRange(q, effect[name]) <=> in)
<1>1. name \in BlockNames /\ map = [n \in BlockNames |-> map[n]]
  BY BlockNamed DEF IsMapping
<1>2. fn \in {1, 2, 3, 4, 5, 6, 15, 16, 17, 22, 23}
  BY RequestIs
<1>3. ASSUME effect = map PROVE Right
  BY <1>3, Zenon
<1>4. ASSUME ~in PROVE Right
  BY <1>3, <1>4, EffectCases
<1>5. ASSUME NEW new, in, effect = Put(map, name, new), DOMAIN new = DOMAIN block,
             Memory!InRange(q, new) => Memory!Effect(q, effect) = Put(effect, name, new)
      PROVE  Right
  <2>1. effect[name] = new
    BY <1>1, <1>5, PutTwice
  <2>2. Memory!InRange(q, new)
    BY <1>5, SameRange
  <2>3. Put(effect, name, new) = effect
    BY <1>1, <1>5, PutTwice
  <2> QED
    BY <1>5, <2>1, <2>2, <2>3, Zenon
<1>6. ASSUME NEW new, effect = Put(map, name, new) PROVE effect[name] = new
  BY <1>1, <1>6, PutTwice
<1>7. ASSUME in, fn \in {5, 6} PROVE Right
  <2> DEFINE coil == IF q.values[1] = 0 THEN 0 ELSE 1
             v == IF fn = 5 THEN coil ELSE q.values[1]
             new == With(block, q.addr, v)
  <2> HIDE DEF coil
  <2>1. effect = Put(map, name, new)
    BY <1>7, EffectCases DEF coil
  <2>2. effect[name] = new
    BY <1>6, <2>1
  <2>3. Memory!InRange(q, effect[name]) => Memory!Effect(q, effect) = Put(effect, name, With(effect[name], q.addr, v))
    <3> HIDE DEF effect
    <3> QED
      BY <1>7, EffectCases DEF coil
  <2>4. With(new, q.addr, v) = new /\ DOMAIN new = DOMAIN block
    BY WithTwice
  <2> HIDE DEF new, effect, v
  <2>5. Memory!InRange(q, new) => Memory!Effect(q, effect) = Put(effect, name, new)
    BY <2>2, <2>3, <2>4, Zenon
  <2> QED
    BY <1>5, <1>7, <2>1, <2>4, <2>5
<1>8. ASSUME in, fn \in {15, 16, 23} PROVE Right
  <2> DEFINE addr == IF fn = 23 THEN q.writeAddr ELSE q.addr
             new == Overwritten(block, addr, q.values)
  <2>1. effect = Put(map, name, new)
    BY <1>8, EffectCases
  <2>2. effect[name] = new
    BY <1>6, <2>1
  <2>3. Memory!InRange(q, effect[name]) => Memory!Effect(q, effect) = Put(effect, name, Overwritten(effect[name], addr, q.values))
    <3> HIDE DEF effect
    <3> QED
      BY <1>8, EffectCases
  <2>4. Overwritten(new, addr, q.values) = new /\ DOMAIN new = DOMAIN block
    BY OverwrittenTwice
  <2> HIDE DEF new, effect, addr
  <2>5. Memory!InRange(q, new) => Memory!Effect(q, effect) = Put(effect, name, new)
    BY <2>2, <2>3, <2>4, Zenon
  <2> QED
    BY <1>5, <1>8, <2>1, <2>4, <2>5
<1>9. ASSUME in, fn = 22 PROVE Right
  <2> DEFINE a == q.addr
             v == q.values[1]
             w == q.values[2]
             old == block[a]
             Sum(x) == Memory!MaskedBySum(x, v, w)
             value == Sum(old)
             new == With(block, a, value)
  <2>1. effect = Put(map, name, new)
    BY <1>9, EffectCases
  <2>2. effect[name] = new
    BY <1>6, <2>1
  <2>3. Memory!InRange(q, effect[name]) => Memory!Effect(q, effect) = Put(effect, name, With(effect[name], a, Sum(effect[name][a])))
    <3> HIDE DEF effect
    <3> QED
      BY <1>9, EffectCases
  <2>4. v \in Uint16 /\ w \in Uint16
    BY <1>9, RequestWords
  <2>5. a \in DOMAIN block
    BY <1>9, InRangeCases
  <2>6. old \in Uint16
    <3>2. name = "registers"
      BY <1>9, BlockOfIs
    <3>3. block \in [DOMAIN block -> Uint16]
      BY <1>1, <3>2 DEF IsMapping
    <3> HIDE DEF block
    <3> QED
      BY <2>5, <3>3
  <2>7. Sum(value) = value
    <3>1. \A x \in Uint16 : Masked(x, v, w) = Sum(x) /\ Masked(x, v, w) \in Uint16
                            /\ Masked(Masked(x, v, w), v, w) = Masked(x, v, w)
      BY <2>4, MaskedIsSum, MaskedType, MaskedTwice
    <3> HIDE DEF Sum, old
    <3> QED
      BY <2>6, <3>1, Zenon
  <2>8. /\ DOMAIN new = DOMAIN block /\ With(new, a, value) = new /\ new[a] = value
    BY <2>5, WithTwice
  <2> HIDE DEF new, effect, value, Sum
  <2>9. Memory!InRange(q, new) => Memory!Effect(q, effect) = Put(effect, name, new)
    BY <2>2, <2>3, <2>7, <2>8, Zenon
  <2> QED
    BY <1>5, <1>9, <2>1, <2>8, <2>9
<1>10. ASSUME fn \in {1, 2, 3, 4, 17} PROVE Right
  <2>1. q.fn \notin {5, 6, 15, 16, 22, 23}
    BY <1>10
  <2>2. effect = map
    BY <2>1, EffectCases
  <2> QED
    BY <1>3, <2>2
<1> HIDE DEF Right, in
<1>11. Right
  BY <1>2, <1>4, <1>7, <1>8, <1>9, <1>10
<1> QED
  BY <1>11 DEF Right, in

\* What the server answers, by function code.
ResponseIs(req, h, end, block) ==
  /\ req[h + 1] \in {1, 2} => ResponsePdu(req, h, end, block)
       = <<req[h + 1], BytesFor(Number(req, h))>> \o Packed(Slice(block, Address(req, h), Number(req, h)))
  /\ req[h + 1] \in {3, 4, 23} => ResponsePdu(req, h, end, block)
       = <<req[h + 1], 2 * Number(req, h)>> \o Words(Slice(block, Address(req, h), Number(req, h)))
  /\ req[h + 1] \in {5, 6, 22} => ResponsePdu(req, h, end, block) = SubSeq(req, h + 1, end)
  /\ req[h + 1] \in {15, 16} => ResponsePdu(req, h, end, block) = SubSeq(req, h + 1, h + 5)

\* The server's answers are those.
LEMMA ResponseCases == \A req, h, end, block : ResponseIs(req, h, end, block)
<1> SUFFICES ASSUME NEW req, NEW h, NEW end, NEW block PROVE ResponseIs(req, h, end, block)
  OBVIOUS
<1> DEFINE fn == req[h + 1]
           addr == Address(req, h)
           nb == Number(req, h)
           bits == fn \in BitReads
           registers == fn \in RegisterReads \cup {WriteAndReadRegisters}
           echo == fn \in Singles \cup {MaskWriteRegister}
           multiple == fn \in Multiples
           name == fn = ReportSlaveId
           pdu == ResponsePdu(req, h, end, block)
           pdu1 == <<fn, BytesFor(nb)>> \o Packed(Slice(block, addr, nb))
           pdu3 == <<fn, 2 * nb>> \o Words(Slice(block, addr, nb))
           pdu5 == SubSeq(req, h + 1, end)
           pdu15 == SubSeq(req, h + 1, h + 5)
           pdu17 == <<fn, 2 + Len(SlaveName), 180, 255>> \o SlaveName
<1>1. /\ bits <=> fn \in {1, 2}
      /\ registers <=> fn \in {3, 4, 23}
      /\ echo <=> fn \in {5, 6, 22}
      /\ multiple <=> fn \in {15, 16}
      /\ name <=> fn = 17
  BY CodesAre
<1>2. /\ bits => ~registers /\ ~echo /\ ~multiple /\ ~name
      /\ registers => ~echo /\ ~multiple /\ ~name
      /\ echo => ~multiple /\ ~name
      /\ multiple => ~name
  BY <1>1
<1>3. pdu = CASE bits -> pdu1 [] registers -> pdu3 [] echo -> pdu5 [] multiple -> pdu15
              [] name -> pdu17
  BY Zenon DEF ResponsePdu, Function
<1> HIDE DEF bits, registers, echo, multiple, name, pdu, pdu1, pdu3, pdu5, pdu15, pdu17
<1>4. /\ bits => pdu = pdu1
      /\ registers => pdu = pdu3
      /\ echo => pdu = pdu5
  BY <1>2, <1>3, Zenon
<1>5. /\ multiple => pdu = pdu15
      /\ name => pdu = pdu17
  BY <1>2, <1>3, Zenon
<1>6. /\ fn \in {1, 2} => pdu = pdu1
      /\ fn \in {3, 4, 23} => pdu = pdu3
      /\ fn \in {5, 6, 22} => pdu = pdu5
      /\ fn \in {15, 16} => pdu = pdu15
  BY <1>1, <1>4, <1>5, Zenon
<1> QED
  BY <1>6, Zenon DEF ResponseIs, pdu, pdu1, pdu3, pdu5, pdu15

\* The length that the client expects of the answer.
LEMMA ResponseLengthIs ==
  ASSUME NEW b, NEW req, NEW h, NEW c, NEW fn, NEW nb, h = HeaderLength[b], c = ChecksumLength[b],
         fn = req[h + 1], nb = Number(req, h)
  PROVE  /\ fn \in {1, 2} => ResponseLength(req, b) = h + c + (2 + BytesFor(nb))
         /\ fn \in {3, 4, 23} => ResponseLength(req, b) = h + c + (2 + 2 * nb)
         /\ fn = 22 => ResponseLength(req, b) = h + c + 7
         /\ fn \in {5, 6, 15, 16} => ResponseLength(req, b) = h + c + 5
<1> DEFINE bits == fn \in BitReads
           registers == fn \in RegisterReads \cup {WriteAndReadRegisters}
           status == fn = ReadExceptionStatus
           mask == fn = MaskWriteRegister
           n1 == 2 + BytesFor(nb)
           n3 == 2 + 2 * nb
           n7 == 3
           n22 == 7
           n5 == 5
           size == CASE bits -> n1 [] registers -> n3 [] status -> n7 [] mask -> n22 [] OTHER -> n5
<1>1. /\ bits <=> fn \in {1, 2}
      /\ registers <=> fn \in {3, 4, 23}
      /\ status <=> fn = 7
      /\ mask <=> fn = 22
  BY CodesAre
<1>2. /\ bits => ~registers /\ ~status /\ ~mask
      /\ registers => ~status /\ ~mask
      /\ status => ~mask
  BY <1>1
<1>3. ResponseLength(req, b) = h + c + size
  BY Zenon DEF ResponseLength, Number
<1>4. size = CASE bits -> n1 [] registers -> n3 [] status -> n7 [] mask -> n22 [] OTHER -> n5
  OBVIOUS
<1> HIDE DEF bits, registers, status, mask, n1, n3, n7, n22, n5, size
<1>5. /\ bits => size = n1
      /\ registers => size = n3
      /\ mask => size = n22
      /\ ~bits /\ ~registers /\ ~status /\ ~mask => size = n5
  BY <1>2, <1>4, Zenon
<1>6. /\ fn \in {1, 2} => size = n1
      /\ fn \in {3, 4, 23} => size = n3
      /\ fn = 22 => size = n22
      /\ fn \in {5, 6, 15, 16} => size = n5
  <2>1. fn \in {5, 6, 15, 16} => ~bits /\ ~registers /\ ~status /\ ~mask
    BY <1>1
  <2> QED
    BY <1>1, <1>5, <2>1
<1> QED
  BY <1>3, <1>6, Zenon DEF n1, n3, n22, n5

\* What the answer must repeat of the request.
LEMMA SameValuesIs ==
  ASSUME NEW req, NEW rsp, NEW h, NEW fn, fn = rsp[h + 1]
  PROVE  /\ fn \in {1, 2} /\ rsp[h + 2] = BytesFor(Number(req, h)) => SameValues(req, rsp, h)
         /\ fn \in {3, 4, 23} /\ rsp[h + 2] \div 2 = Number(req, h) => SameValues(req, rsp, h)
         /\ fn \in {5, 6, 15, 16} /\ SubSeq(req, h + 2, h + 5) = SubSeq(rsp, h + 2, h + 5)
            => SameValues(req, rsp, h)
         /\ fn \in {17, 22} => SameValues(req, rsp, h)
<1> DEFINE bits == fn \in BitReads
           registers == fn \in RegisterReads \cup {WriteAndReadRegisters}
           writes == fn \in Singles \cup Multiples
           sameBits == rsp[h + 2] = BytesFor(Number(req, h))
           sameWords == rsp[h + 2] \div 2 = Number(req, h)
           echo == SubSeq(req, h + 2, h + 5) = SubSeq(rsp, h + 2, h + 5)
           same == SameValues(req, rsp, h)
<1>1. /\ bits <=> fn \in {1, 2}
      /\ registers <=> fn \in {3, 4, 23}
      /\ writes <=> fn \in {5, 6, 15, 16}
  BY CodesAre
<1>2. /\ bits => ~registers /\ ~writes
      /\ registers => ~writes
  BY <1>1
<1>3. same <=> (CASE bits -> sameBits [] registers -> sameWords [] writes -> echo [] OTHER -> TRUE)
  BY Zenon DEF SameValues, Number
<1> HIDE DEF bits, registers, writes, sameBits, sameWords, echo, same
<1>4. /\ bits /\ sameBits => same
      /\ registers /\ sameWords => same
      /\ writes /\ echo => same
      /\ ~bits /\ ~registers /\ ~writes => same
  BY <1>2, <1>3, Zenon
<1>5. fn \in {17, 22} => ~bits /\ ~registers /\ ~writes
  BY <1>1
<1> QED
  BY <1>1, <1>4, <1>5, Zenon DEF sameBits, sameWords, echo, same

\* An answer with the right identifier, function code, length and values is accepted,
\* an exception is not.
JudgedBy(req, rsp, n, b, h) ==
  rsp[h + 1] \in Int /\ PreCheck(req, rsp, b)
  => /\ /\ rsp[h + 1] < 128 /\ rsp[h + 1] = req[h + 1]
        /\ n = ResponseLength(req, b) \/ req[h + 1] = 17
        /\ SameValues(req, rsp, h)
        => Confirmation(req, rsp, n, b) = "ok"
     /\ rsp[h + 1] >= 128 => Confirmation(req, rsp, n, b) \in {"exception", "bad exception"}

\* The client judges so.
LEMMA ConfirmationIs == \A b, req, rsp, n : JudgedBy(req, rsp, n, b, HeaderLength[b])
<1> SUFFICES ASSUME NEW b, NEW req, NEW rsp, NEW n PROVE JudgedBy(req, rsp, n, b, HeaderLength[b])
  OBVIOUS
<1> SUFFICES ASSUME rsp[HeaderLength[b] + 1] \in Int, PreCheck(req, rsp, b)
             PROVE  /\ /\ rsp[HeaderLength[b] + 1] < 128
                       /\ rsp[HeaderLength[b] + 1] = req[HeaderLength[b] + 1]
                       /\ n = ResponseLength(req, b) \/ req[HeaderLength[b] + 1] = 17
                       /\ SameValues(req, rsp, HeaderLength[b])
                       => Confirmation(req, rsp, n, b) = "ok"
                    /\ rsp[HeaderLength[b] + 1] >= 128 =>
                         Confirmation(req, rsp, n, b) \in {"exception", "bad exception"}
  BY DEF JudgedBy
<1> DEFINE h == HeaderLength[b]
<1> DEFINE high == rsp[h + 1] >= 128
           fits == /\ n = ResponseLength(req, b) \/ req[h + 1] = ReportSlaveId
                   /\ rsp[h + 1] = req[h + 1]
                   /\ SameValues(req, rsp, h)
           exception == n = h + 2 + ChecksumLength[b] /\ rsp[h + 1] = req[h + 1] + 128
           kind == IF exception THEN "exception" ELSE "bad exception"
           verdict == Confirmation(req, rsp, n, b)
<1>1. verdict = IF high THEN kind ELSE IF fits THEN "ok" ELSE "bad"
  BY Zenon DEF Confirmation
<1>2. kind \in {"exception", "bad exception"}
  OBVIOUS
<1>3. rsp[h + 1] < 128 => ~high
  OBVIOUS
<1>4. rsp[h + 1] = req[h + 1] /\ (n = ResponseLength(req, b) \/ req[h + 1] = 17)
      /\ SameValues(req, rsp, h) => fits
  BY CodesAre DEF fits
<1> HIDE DEF high, fits, kind, verdict
<1>5. /\ fits /\ ~high => verdict = "ok"
      /\ high => verdict = kind
  BY <1>1, Zenon
<1> QED
  BY <1>2, <1>3, <1>4, <1>5 DEF high, verdict

\* What the client hands over, and what it should have read.
ValuesIn(q, rsp, b, h, m) ==
  /\ q.fn \in {1, 2} => ValuesOf(q, rsp, b) = Unpacked(SubSeq(rsp, h + 3, Len(rsp)), q.nb)
  /\ q.fn \in {3, 4, 23} => ValuesOf(q, rsp, b) = [i \in 1 .. q.nb |-> WordAt(rsp, h + 1 + 2 * i)]
  /\ q.fn \notin {1, 2, 3, 4, 23} => ValuesOf(q, rsp, b) = <<>>
  /\ q.fn \in {1, 2, 3, 4, 23} =>
       Memory!ValuesRead(q, m) = Slice(m[BlockOf(q.fn)], q.addr, q.nb)
  /\ q.fn \notin {1, 2, 3, 4, 23} => Memory!ValuesRead(q, m) = <<>>

\* The values it takes are those.
LEMMA ValuesAre == \A q, rsp, b, m : ValuesIn(q, rsp, b, HeaderLength[b], m)
<1> SUFFICES ASSUME NEW q, NEW rsp, NEW b, NEW m PROVE ValuesIn(q, rsp, b, HeaderLength[b], m)
  OBVIOUS
<1> DEFINE h == HeaderLength[b]
<1> DEFINE fn == q.fn
           bits == fn \in BitReads
           registers == fn \in RegisterReads \cup {WriteAndReadRegisters}
           values1 == Unpacked(SubSeq(rsp, h + 3, Len(rsp)), q.nb)
           values3 == [i \in 1 .. q.nb |-> WordAt(rsp, h + 1 + 2 * i)]
           none == <<>>
           values == ValuesOf(q, rsp, b)
           reads == fn \in Memory!BitReads \cup Memory!RegisterReads \cup {Memory!WriteAndReadRegisters}
           slice == Memory!Slice(m[Memory!BlockOf(fn)], q.addr, q.nb)
<1>1. /\ bits <=> fn \in {1, 2}
      /\ registers <=> fn \in {3, 4, 23}
      /\ reads <=> fn \in {1, 2, 3, 4, 23}
  BY CodesAre, SameCodes
<1>2. bits => ~registers
  BY <1>1
<1>3. values = CASE bits -> values1 [] registers -> values3 [] OTHER -> none
  BY Zenon DEF ValuesOf
<1>4. Memory!ValuesRead(q, m) = IF reads THEN slice ELSE none
  BY Zenon DEF Memory!ValuesRead
<1>5. slice = Slice(m[BlockOf(fn)], q.addr, q.nb)
  <2>1. \A x : Memory!BlockOf(x) = BlockOf(x)
    BY SameOperators
  <2>2. \A x, addr, nb : Memory!Slice(x, addr, nb) = Slice(x, addr, nb)
    BY SameOperators
  <2> QED
    BY <2>1, <2>2, Zenon
<1> HIDE DEF bits, registers, values1, values3, none, values, reads, slice
<1>6. /\ bits => values = values1
      /\ registers => values = values3
      /\ ~bits /\ ~registers => values = none
  BY <1>2, <1>3, Zenon
<1>7. /\ reads => Memory!ValuesRead(q, m) = slice
      /\ ~reads => Memory!ValuesRead(q, m) = none
  BY <1>4, Zenon
<1>8. fn \notin {1, 2, 3, 4, 23} => ~bits /\ ~registers
  BY <1>1
<1>9. /\ fn \in {1, 2} => values = values1
      /\ fn \in {3, 4, 23} => values = values3
      /\ fn \notin {1, 2, 3, 4, 23} => values = none
  BY <1>1, <1>6, <1>8, Zenon
<1> QED
  BY <1>1, <1>5, <1>7, <1>9, Zenon DEF ValuesIn, values, values1, values3, none

\* What is held can be cut out.
LEMMA HoldsPart ==
  \A s, p, t : Holds(s, p, t) => SubSeq(s, p + 1, p + Len(t)) = t
<1> SUFFICES ASSUME NEW s, NEW p, NEW t, Holds(s, p, t) PROVE SubSeq(s, p + 1, p + Len(t)) = t
  OBVIOUS
<1>1. /\ s \in Seq(Byte) /\ t \in Seq(Byte) /\ p \in Nat /\ Len(s) >= p + Len(t)
      /\ \A i \in 1 .. Len(t) : s[p + i] = t[i]
  BY DEF Holds
<1> DEFINE part == SubSeq(s, p + 1, p + Len(t))
<1>2. part \in Seq(Byte) /\ Len(part) = Len(t)
  BY <1>1
<1>3. \A i \in 1 .. Len(t) : part[i] = s[p + i]
  BY <1>1
<1> HIDE DEF part
<1>4. part = t
  BY <1>1, <1>2, <1>3
<1> QED
  BY <1>4 DEF part

\* The first bytes of a frame on a connection: its identifier and two zeros.
LEMMA FrontIs ==
  \A id \in Uint16 : \A unit \in Byte : \A pdu \in Seq(Byte) :
    Len(pdu) <= 253 => /\ Holds(Adu("tcp", id, unit, pdu), 0, Word(id))
                       /\ Holds(Adu("tcp", id, unit, pdu), 2, <<0, 0>>)
<1> SUFFICES ASSUME NEW id \in Uint16, NEW unit \in Byte, NEW pdu \in Seq(Byte), Len(pdu) <= 253
             PROVE  /\ Holds(Adu("tcp", id, unit, pdu), 0, Word(id))
                    /\ Holds(Adu("tcp", id, unit, pdu), 2, <<0, 0>>)
  OBVIOUS
<1> DEFINE first == Word(id)
           zeros == <<0, 0>>
           size == Word(Len(pdu) + 1)
           whose == <<unit>>
           adu == Adu("tcp", id, unit, pdu)
<1>1. Len(pdu) \in Nat /\ Len(pdu) + 1 \in Uint16
  BY Uint16Is
<1>2. first \in Seq(Byte) /\ Len(first) = 2 /\ size \in Seq(Byte)
  BY <1>1, WordType
<1>3. zeros \in Seq(Byte) /\ whose \in Seq(Byte)
  BY ByteIs
<1>4. adu = (((first \o zeros) \o size) \o whose) \o pdu
  BY DEF Adu
<1> HIDE DEF first, zeros, size, whose, adu
<1>5. Holds(first \o zeros, 0, first) /\ Holds(first \o zeros, 2, zeros)
  BY <1>2, <1>3, HoldsBoth
<1> DEFINE four == first \o zeros
           six == four \o size
           header == six \o whose
<1>6. Holds(four, 0, first) /\ Holds(four, 2, zeros)
  BY <1>5
<1> HIDE DEF four
<1>7. Holds(six, 0, first) /\ Holds(six, 2, zeros)
  BY <1>2, <1>6, HoldsFront, Zenon
<1> HIDE DEF six
<1>8. Holds(header, 0, first) /\ Holds(header, 2, zeros)
  BY <1>3, <1>7, HoldsFront, Zenon
<1> HIDE DEF header
<1>9. adu = header \o pdu
  BY <1>4 DEF header, six, four
<1>10. Holds(adu, 0, first) /\ Holds(adu, 2, zeros)
  BY <1>8, <1>9, HoldsFront, Zenon
<1> QED
  BY <1>10 DEF adu, first, zeros

\* An answer has the identifier and the unit of its request.
LEMMA AnswersThis ==
  ASSUME NEW b \in Backends, NEW id \in Uint16, NEW unit \in Byte,
         NEW asks \in Seq(Byte), Len(asks) <= 253, NEW pdu \in Seq(Byte), Len(pdu) <= 253,
         NEW req, req = Adu(b, id, unit, asks), NEW rsp, rsp = Adu(b, WordAt(req, 1), unit, pdu)
  PROVE  PreCheck(req, rsp, b)
<1>1. CASE b = "tcp"
  <2>1. Holds(req, 0, Word(id)) /\ Holds(req, 2, <<0, 0>>)
    BY <1>1, FrontIs
  <2>2. WordAt(req, 1) = id
    <3>1. WordAt(req, 0 + 1) = id
      BY <2>1, HoldsWord, Zenon
    <3> QED
      BY <3>1
  <2>3. Holds(rsp, 0, Word(id)) /\ Holds(rsp, 2, <<0, 0>>)
    BY <1>1, <2>2, FrontIs
  <2>4. \A s : /\ Holds(s, 0, Word(id)) => SubSeq(s, 1, 2) = Word(id)
               /\ Holds(s, 2, <<0, 0>>) => SubSeq(s, 3, 4) = <<0, 0>>
    <3>1. Len(Word(id)) = 2 /\ Len(<<0, 0>>) = 2
      BY WordType
    <3>2. /\ \A s : Holds(s, 0, Word(id)) => SubSeq(s, 0 + 1, 0 + Len(Word(id))) = Word(id)
          /\ \A s : Holds(s, 2, <<0, 0>>) => SubSeq(s, 2 + 1, 2 + Len(<<0, 0>>)) = <<0, 0>>
      BY HoldsPart, Zenon
    <3>3. 0 + 1 = 1 /\ 0 + Len(Word(id)) = 2 /\ 2 + 1 = 3 /\ 2 + Len(<<0, 0>>) = 4
      BY <3>1
    <3> QED
      BY <3>2, <3>3
  <2>5. SubSeq(req, 1, 2) = Word(id) /\ SubSeq(rsp, 1, 2) = Word(id) /\ SubSeq(rsp, 3, 4) = <<0, 0>>
    BY <2>1, <2>3, <2>4, Zenon
  <2> QED
    BY <1>1, <2>5, Zenon DEF PreCheck
<1>2. CASE b = "rtu"
  <2>1. HeaderLength[b] = 1
    BY <1>2, LengthsAre
  <2>2. req[1] = unit
    BY <2>1, AduType
  <2>3. rsp[1] = unit
    <3>1. Adu(b, WordAt(req, 1), unit, pdu) = WithCrc(<<unit>> \o pdu)
      BY <1>2 DEF Adu
    <3>2. Adu(b, id, unit, pdu) = WithCrc(<<unit>> \o pdu)
      BY <1>2 DEF Adu
    <3>3. Adu(b, id, unit, pdu)[1] = unit
      BY <2>1, AduType
    <3> QED
      BY <3>1, <3>2, <3>3, Zenon
  <2>4. b # "tcp"
    BY <1>2
  <2> QED
    BY <2>2, <2>3, <2>4, Zenon DEF PreCheck
<1> QED
  BY <1>1, <1>2 DEF Backends

\* Two bytes in front of others.
LEMMA TwoInFront ==
  \A x, y \in Byte : \A data \in Seq(Byte) :
    /\ Holds(<<x, y>> \o data, 2, data) /\ (<<x, y>> \o data)[2] = y
    /\ Len(<<x, y>> \o data) = 2 + Len(data)
<1> SUFFICES ASSUME NEW x \in Byte, NEW y \in Byte, NEW data \in Seq(Byte)
             PROVE  /\ Holds(<<x, y>> \o data, 2, data) /\ (<<x, y>> \o data)[2] = y
                    /\ Len(<<x, y>> \o data) = 2 + Len(data)
  OBVIOUS
<1> DEFINE two == <<x, y>>
<1>1. two \in Seq(Byte) /\ Len(two) = 2 /\ two[2] = y
  OBVIOUS
<1> HIDE DEF two
<1>2. Holds(two \o data, Len(two), data) /\ Holds(two \o data, 0, two)
  BY <1>1, HoldsBoth
<1>3. (two \o data)[2] = two[2]
  <2>1. 2 \in 1 .. Len(two)
    BY <1>1
  <2> QED
    BY <1>1, <2>1, TogetherLeft, Zenon
<1>4. Len(two \o data) = Len(two) + Len(data)
  BY <1>1, Together, Zenon
<1> QED
  BY <1>1, <1>2, <1>3, <1>4, Zenon DEF two

\* The answer to a read of bits: their packed bytes, after the code and their number;
LEMMA BitsAnswer ==
  ASSUME NEW fn \in Byte, NEW slice \in Seq({0, 1}), Len(slice) <= 2000
  PROVE  /\ (<<fn, BytesFor(Len(slice))>> \o Packed(slice))[2] = BytesFor(Len(slice))
         /\ Len(<<fn, BytesFor(Len(slice))>> \o Packed(slice)) = 2 + BytesFor(Len(slice))
         /\ BytesFor(Len(slice)) \in Nat
         /\ Holds(<<fn, BytesFor(Len(slice))>> \o Packed(slice), 2, Packed(slice))
<1> DEFINE data == Packed(slice)
           size == BytesFor(Len(slice))
<1>1. data \in Seq(Byte) /\ Len(data) = size
  BY PackedType
<1>2. size \in Nat /\ size <= 250
  BY BytesForBounds
<1>3. size \in Byte
  BY <1>2, ByteIs
<1> HIDE DEF data, size
<1>5. Holds(<<fn, size>> \o data, 2, data) /\ (<<fn, size>> \o data)[2] = size
      /\ Len(<<fn, size>> \o data) = 2 + Len(data)
  BY <1>1, <1>3, TwoInFront
<1>6. Len(<<fn, size>> \o data) = 2 + size
  BY <1>1, <1>5
<1> QED
  BY <1>2, <1>5, <1>6 DEF data, size

\* to a read of registers: their words, after the code and the number of bytes;
LEMMA WordsAnswer ==
  ASSUME NEW fn \in Byte, NEW slice \in Seq(Uint16), Len(slice) <= 125
  PROVE  /\ (<<fn, 2 * Len(slice)>> \o Words(slice))[2] = 2 * Len(slice)
         /\ Len(<<fn, 2 * Len(slice)>> \o Words(slice)) = 2 + 2 * Len(slice)
         /\ Holds(<<fn, 2 * Len(slice)>> \o Words(slice), 2, Words(slice))
<1> DEFINE data == Words(slice)
           size == 2 * Len(slice)
<1>1. data \in Seq(Byte) /\ Len(data) = size
  BY WordsType
<1>2. size \in Byte
  <2>1. Len(slice) \in Nat
    OBVIOUS
  <2> QED
    BY <2>1, ByteIs
<1> HIDE DEF data, size
<1>5. Holds(<<fn, size>> \o data, 2, data) /\ (<<fn, size>> \o data)[2] = size
      /\ Len(<<fn, size>> \o data) = 2 + Len(data)
  BY <1>1, <1>2, TwoInFront
<1>6. Len(<<fn, size>> \o data) = 2 + size
  BY <1>1, <1>5
<1> QED
  BY <1>5, <1>6 DEF data, size

\* to a write: the first bytes of the request again.
LEMMA EchoAnswer ==
  \A s \in Seq(Byte) : \A h, n \in Nat :
    h + n <= Len(s) /\ n >= 1
    => /\ Len(SubSeq(s, h + 1, h + n)) = n
       /\ \A i \in 1 .. n : SubSeq(s, h + 1, h + n)[i] = s[h + i]
<1> SUFFICES ASSUME NEW s \in Seq(Byte), NEW h \in Nat, NEW n \in Nat, h + n <= Len(s), n >= 1
             PROVE  /\ Len(SubSeq(s, h + 1, h + n)) = n
                    /\ \A i \in 1 .. n : SubSeq(s, h + 1, h + n)[i] = s[h + i]
  OBVIOUS
<1>1. Len(SubSeq(s, h + 1, h + n)) = n
  OBVIOUS
<1>2. \A i \in 1 .. n : SubSeq(s, h + 1, h + n)[i] = s[h + i]
  OBVIOUS
<1> QED
  BY <1>1, <1>2

\* Two frames that agree on some bytes have the same part there.
LEMMA SamePart ==
  \A s, t \in Seq(Byte) : \A i, j \in Nat :
    /\ 1 <= i /\ i <= j /\ j <= Len(s) /\ j <= Len(t)
    /\ \A k \in i .. j : s[k] = t[k]
    => SubSeq(s, i, j) = SubSeq(t, i, j)
<1> SUFFICES ASSUME NEW s \in Seq(Byte), NEW t \in Seq(Byte), NEW i \in Nat, NEW j \in Nat,
                    1 <= i, i <= j, j <= Len(s), j <= Len(t), \A k \in i .. j : s[k] = t[k]
             PROVE  SubSeq(s, i, j) = SubSeq(t, i, j)
  OBVIOUS
<1> DEFINE x == SubSeq(s, i, j)
           y == SubSeq(t, i, j)
           n == j - i + 1
<1>1. x \in Seq(Byte) /\ Len(x) = n
  BY PartOfRequest
<1>2. y \in Seq(Byte) /\ Len(y) = n
  BY PartOfRequest
<1>3. ASSUME NEW k \in 1 .. n PROVE x[k] = y[k]
  <2>1. x[k] = s[i + k - 1]
    OBVIOUS
  <2>2. y[k] = t[i + k - 1]
    OBVIOUS
  <2>3. i + k - 1 \in i .. j
    OBVIOUS
  <2> QED
    BY <2>1, <2>2, <2>3
<1>4. n \in Nat
  OBVIOUS
<1> HIDE DEF x, y, n
<1>5. x = y
  BY <1>1, <1>2, <1>3, <1>4
<1> QED
  BY <1>5 DEF x, y

\* What is in the answer to a legal request: to a read of bits,
LEMMA BitsHeld ==
  ASSUME NEW req, NEW h, NEW end, NEW D, NEW block \in [D -> Values(BlockOf(req[h + 1]))], req[h + 1] \in {1, 2},
         Address(req, h) \in Nat, LegalNumber(req, h), LegalAddress(req, h, block)
  PROVE  /\ ResponsePdu(req, h, end, block)[2] = BytesFor(Number(req, h))
         /\ Len(ResponsePdu(req, h, end, block)) = 2 + BytesFor(Number(req, h))
         /\ BytesFor(Number(req, h)) \in Nat
         /\ Slice(block, Address(req, h), Number(req, h)) \in Seq({0, 1})
         /\ Len(Slice(block, Address(req, h), Number(req, h))) = Number(req, h)
         /\ Holds(ResponsePdu(req, h, end, block), 2, Packed(Slice(block, Address(req, h), Number(req, h))))
<1> DEFINE nb == Number(req, h)
           addr == Address(req, h)
           slice == Slice(block, addr, nb)
           p == ResponsePdu(req, h, end, block)
           fn == req[h + 1]
<1>0. ResponseIs(req, h, end, block)
  BY ResponseCases, Zenon
<1>1. p = <<fn, BytesFor(nb)>> \o Packed(slice)
  BY <1>0, Zenon DEF ResponseIs
<1>3. Covers(block, addr, nb)
  BY LegalAddressIs
<1>4. nb \in Nat /\ nb <= 2000
  BY NumberOfBits
<1>6. slice \in Seq({0, 1}) /\ Len(slice) = nb
  <2> DEFINE V == Values(BlockOf(fn))
  <2>1. addr \in Nat /\ block \in [D -> V] /\ nb \in Nat
    BY <1>4
  <2>2. V = {0, 1}
    BY BlockOfIs DEF Values
  <2> HIDE DEF addr, nb, V
  <2>3. slice \in Seq(V) /\ Len(slice) = nb
    BY <1>3, <2>1, SliceType
  <2> HIDE DEF slice
  <2> QED
    BY <2>2, <2>3, Zenon
<1>7. fn \in Byte
  BY ByteIs
<1> HIDE DEF nb, p, slice, fn
<1>8. p = <<fn, BytesFor(Len(slice))>> \o Packed(slice)
  BY <1>1, <1>6
<1>9. p[2] = BytesFor(nb) /\ Len(p) = 2 + BytesFor(nb) /\ BytesFor(nb) \in Nat /\ Holds(p, 2, Packed(slice))
  BY <1>4, <1>6, <1>7, <1>8, BitsAnswer
<1> QED
  BY <1>6, <1>9 DEF nb, p, slice, fn

\* to a read of registers,
LEMMA WordsHeld ==
  ASSUME NEW req, NEW h, NEW end, NEW D, NEW block \in [D -> Values(BlockOf(req[h + 1]))], req[h + 1] \in {3, 4, 23},
         Address(req, h) \in Nat, LegalNumber(req, h), LegalAddress(req, h, block)
  PROVE  /\ ResponsePdu(req, h, end, block)[2] = 2 * Number(req, h)
         /\ Len(ResponsePdu(req, h, end, block)) = 2 + 2 * Number(req, h)
         /\ 2 * Number(req, h) \in Nat
         /\ Slice(block, Address(req, h), Number(req, h)) \in Seq(Uint16)
         /\ Len(Slice(block, Address(req, h), Number(req, h))) = Number(req, h)
         /\ Holds(ResponsePdu(req, h, end, block), 2, Words(Slice(block, Address(req, h), Number(req, h))))
<1> DEFINE nb == Number(req, h)
           addr == Address(req, h)
           slice == Slice(block, addr, nb)
           p == ResponsePdu(req, h, end, block)
           fn == req[h + 1]
<1>0. ResponseIs(req, h, end, block)
  BY ResponseCases, Zenon
<1>1. p = <<fn, 2 * nb>> \o Words(slice)
  BY <1>0, Zenon DEF ResponseIs
<1>3. Covers(block, addr, nb)
  BY LegalAddressIs
<1>4. nb \in Nat /\ nb <= 125
  BY NumberOfRegisters
<1>6. slice \in Seq(Uint16) /\ Len(slice) = nb
  <2> DEFINE V == Values(BlockOf(fn))
  <2>1. addr \in Nat /\ block \in [D -> V] /\ nb \in Nat
    BY <1>4
  <2>2. V = Uint16
    BY BlockOfIs DEF Values
  <2> HIDE DEF addr, nb, V
  <2>3. slice \in Seq(V) /\ Len(slice) = nb
    BY <1>3, <2>1, SliceType
  <2> HIDE DEF slice
  <2> QED
    BY <2>2, <2>3, Zenon
<1>7. fn \in Byte
  BY ByteIs
<1> HIDE DEF nb, p, slice, fn
<1>8. p = <<fn, 2 * Len(slice)>> \o Words(slice)
  BY <1>1, <1>6
<1>9. p[2] = 2 * nb /\ Len(p) = 2 + 2 * nb /\ 2 * nb \in Nat /\ Holds(p, 2, Words(slice))
  <2>1. p[2] = 2 * Len(slice) /\ Len(p) = 2 + 2 * Len(slice) /\ Holds(p, 2, Words(slice))
    <3>1. Len(slice) <= 125
      BY <1>4, <1>6
    <3> QED
      BY <1>6, <1>7, <1>8, <3>1, WordsAnswer, Zenon
  <2> QED
    BY <1>4, <1>6, <2>1
<1> QED
  BY <1>6, <1>9 DEF nb, p, slice, fn

\* and to a write.
EchoIs(req, h, end, block) ==
  /\ req[h + 1] \in {5, 6, 15, 16} /\ Len(req) >= h + 5 /\ (req[h + 1] \in {5, 6} => end = h + 5) =>
       /\ Len(ResponsePdu(req, h, end, block)) = 5
       /\ \A i \in 1 .. 5 : ResponsePdu(req, h, end, block)[i] = req[h + i]
  /\ req[h + 1] = 22 /\ Len(req) >= h + 7 /\ end = h + 7 =>
       Len(ResponsePdu(req, h, end, block)) = 7

\* An echo is the beginning of the request.
LEMMA EchoHeld ==
  \A req \in Seq(Byte) : \A h \in Nat : \A end, block : EchoIs(req, h, end, block)
<1> SUFFICES ASSUME NEW req \in Seq(Byte), NEW h \in Nat, NEW end, NEW block
             PROVE  EchoIs(req, h, end, block)
  OBVIOUS
<1>1. \A k \in Nat : h + k <= Len(req) /\ k >= 1
        => /\ Len(SubSeq(req, h + 1, h + k)) = k
           /\ \A i \in 1 .. k : SubSeq(req, h + 1, h + k)[i] = req[h + i]
  BY EchoAnswer, Zenon
<1> DEFINE p == ResponsePdu(req, h, end, block)
<1>0. ResponseIs(req, h, end, block)
  BY ResponseCases, Zenon
<1>20. ASSUME req[h + 1] \in {5, 6, 15, 16}, req[h + 1] \in {5, 6} => end = h + 5
       PROVE  p = SubSeq(req, h + 1, h + 5)
  <2>1. CASE req[h + 1] \in {5, 6}
    BY <1>0, <1>20, <2>1 DEF ResponseIs
  <2>2. CASE req[h + 1] \in {15, 16}
    BY <1>0, <2>2 DEF ResponseIs
  <2> QED
    BY <1>20, <2>1, <2>2
<1>2. ASSUME req[h + 1] \in {5, 6, 15, 16}, Len(req) >= h + 5, req[h + 1] \in {5, 6} => end = h + 5
      PROVE  Len(p) = 5 /\ \A i \in 1 .. 5 : p[i] = req[h + i]
  <2>1. p = SubSeq(req, h + 1, h + 5)
    BY <1>2, <1>20
  <2>2. h + 5 <= Len(req) /\ 5 >= 1 /\ 5 \in Nat
    BY <1>2
  <2>3. /\ Len(SubSeq(req, h + 1, h + 5)) = 5
        /\ \A i \in 1 .. 5 : SubSeq(req, h + 1, h + 5)[i] = req[h + i]
    BY <1>1, <2>2
  <2> QED
    BY <2>1, <2>3, Zenon
<1>3. ASSUME req[h + 1] = 22, Len(req) >= h + 7, end = h + 7
      PROVE  Len(p) = 7
  <2>1. p = SubSeq(req, h + 1, h + 7)
    BY <1>0, <1>3 DEF ResponseIs
  <2>2. h + 7 <= Len(req) /\ 7 >= 1 /\ 7 \in Nat
    BY <1>3
  <2> QED
    BY <1>1, <2>1, <2>2
<1> QED
  BY <1>2, <1>3 DEF EchoIs

\* The answer to a request in range is accepted, and the values in it are those read.
AnsweredBy(q, b, req, m, rsp) ==
  LET h == HeaderLength[b]
      block == m[BlockOf(q.fn)]
      p == ResponsePdu(req, h, Len(req) - ChecksumLength[b], block)
  IN /\ IsMessage("indication", b, req) /\ Says(q, req, h) /\ q.fn \in Functions
     /\ block \in [DOMAIN block -> Values(BlockOf(q.fn))]
     /\ LegalNumber(req, h) /\ LegalAddress(req, h, block)
     /\ Holds(rsp, h, p) /\ Len(rsp) = h + Len(p) + ChecksumLength[b] /\ PreCheck(req, rsp, b)
     /\ Len(p) >= 1 /\ p[1] = q.fn

\* Such an answer is accepted, with the values of the memory.
LEMMA Confirmed ==
  \A b \in Backends : \A q, req, m, rsp :
    AnsweredBy(q, b, req, m, rsp)
    => /\ Confirmation(req, rsp, Len(rsp), b) = "ok"
       /\ ValuesOf(q, rsp, b) = Memory!ValuesRead(q, m)
<1> SUFFICES ASSUME NEW b \in Backends, NEW q, NEW req, NEW m, NEW rsp,
                    AnsweredBy(q, b, req, m, rsp)
             PROVE  /\ Confirmation(req, rsp, Len(rsp), b) = "ok"
                    /\ ValuesOf(q, rsp, b) = Memory!ValuesRead(q, m)
  OBVIOUS
<1> DEFINE h == HeaderLength[b]
           c == ChecksumLength[b]
           fn == q.fn
           block == m[BlockOf(fn)]
           nb == Number(req, h)
           addr == Address(req, h)
           end == Len(req) - c
           slice == Slice(block, addr, nb)
           D == DOMAIN block
           p == ResponsePdu(req, h, end, block)
<1>20. /\ IsMessage("indication", b, req) /\ Says(q, req, h) /\ fn \in Functions
       /\ block \in [D -> Values(BlockOf(fn))]
       /\ LegalNumber(req, h) /\ LegalAddress(req, h, block)
       /\ Holds(rsp, h, p) /\ Len(rsp) = h + Len(p) + c /\ PreCheck(req, rsp, b)
       /\ Len(p) >= 1 /\ p[1] = fn
  BY Zenon DEF AnsweredBy
<1>1. req[h + 1] = fn /\ fn \in {1, 2, 3, 4, 5, 6, 15, 16, 17, 22, 23}
  BY <1>20, CodesAre DEF Says, Function
<1>21. fn \in {1, 2, 3, 4, 5, 6, 15, 16, 22, 23} => addr \in Nat
  BY <1>1, <1>20, ArgumentsType, Uint16Is
<1>22. /\ req \in Seq(Byte) /\ Len(req) \in Nat
       /\ fn \in {5, 6} => Len(req) = h + 5 + c
       /\ fn \in {15, 16} => Len(req) = h + 6 + req[h + 6] + c /\ req[h + 6] \in Nat
       /\ fn = 22 => Len(req) = h + 7 + c
  <2>1. /\ req \in Seq(Byte) /\ Len(req) \in Nat
        /\ fn <= 6 => Len(req) = h + 5 + c
    BY <1>1, <1>20, RequestShape
  <2>2. fn \in {15, 16} => Len(req) = h + 6 + req[h + 6] + c /\ req[h + 6] \in Nat
    BY <1>1, <1>20, RequestShape
  <2>3. fn = 22 => Len(req) = h + 7 + c
    BY <1>1, <1>20, RequestShape
  <2>5. fn \in {5, 6} => Len(req) = h + 5 + c
    BY <2>1
  <2> QED
    BY <2>1, <2>2, <2>3, <2>5, Zenon
<1>23. h \in Nat /\ c \in Nat
  BY LengthsAre
<1>24. /\ fn \in {5, 6} => end = h + 5
       /\ fn = 22 => end = h + 7 /\ Len(req) >= h + 7
       /\ fn \in {5, 6} => Len(req) >= h + 5
  <2> DEFINE n == Len(req)
  <2>1. n \in Nat /\ (fn \in {5, 6} => n = h + 5 + c) /\ (fn = 22 => n = h + 7 + c)
    BY <1>22
  <2> HIDE DEF n, h, c, fn
  <2> QED
    BY <1>23, <2>1 DEF n
<1>25. fn \in {15, 16} => Len(req) >= h + 5
  <2> DEFINE n == Len(req)
             k == req[h + 6]
  <2>1. n \in Nat /\ (fn \in {15, 16} => n = h + 6 + k + c /\ k \in Nat)
    BY <1>22
  <2> HIDE DEF n, h, c, fn, k
  <2> QED
    BY <1>23, <2>1 DEF n
<1>26. /\ h = HeaderLength[b] /\ c = ChecksumLength[b] /\ Holds(rsp, h, p)
       /\ LegalNumber(req, h) /\ LegalAddress(req, h, block) /\ Says(q, req, h)
       /\ p = ResponsePdu(req, h, end, block) /\ Len(rsp) = h + Len(p) + c
       /\ block \in [D -> Values(BlockOf(req[h + 1]))]
  BY <1>1, <1>20
<1> HIDE DEF h, c, block, fn, end, D, p
<1>27. ASSUME fn \in {1, 2}
       PROVE  /\ p[2] = BytesFor(nb) /\ Len(p) = 2 + BytesFor(nb) /\ BytesFor(nb) \in Nat
              /\ slice \in Seq({0, 1}) /\ Len(slice) = nb /\ Holds(p, 2, Packed(slice))
  BY <1>1, <1>21, <1>26, <1>27, BitsHeld
<1>28. ASSUME fn \in {3, 4, 23}
       PROVE  /\ p[2] = 2 * nb /\ Len(p) = 2 + 2 * nb /\ 2 * nb \in Nat
              /\ slice \in Seq(Uint16) /\ Len(slice) = nb /\ Holds(p, 2, Words(slice))
  BY <1>1, <1>21, <1>26, <1>28, WordsHeld
<1>29. fn \in {5, 6, 15, 16} => Len(p) = 5 /\ \A i \in 1 .. 5 : p[i] = req[h + i]
  <2>1. ResponsePdu(req, h, end, block) = p /\ (fn \in {5, 6} => end = h + 5)
    BY <1>24, <1>26
  <2>2. fn \in {5, 6, 15, 16} => Len(req) >= h + 5
    BY <1>24, <1>25
  <2>3. EchoIs(req, h, end, block)
    BY <1>22, <1>23, EchoHeld, Zenon
  <2> QED
    BY <1>1, <2>1, <2>2, <2>3 DEF EchoIs
<1>30. fn = 22 => Len(p) = 7
  <2>1. ResponsePdu(req, h, end, block) = p /\ (fn = 22 => end = h + 7 /\ Len(req) >= h + 7)
    BY <1>24, <1>26
  <2>3. EchoIs(req, h, end, block)
    BY <1>22, <1>23, EchoHeld, Zenon
  <2> QED
    BY <1>1, <2>1, <2>3 DEF EchoIs
<1>4. /\ p \in Seq(Byte) /\ rsp \in Seq(Byte) /\ Len(p) \in Nat
      /\ \A i \in 1 .. Len(p) : rsp[h + i] = p[i]
  BY <1>26 DEF Holds
<1> HIDE DEF nb, slice, addr
<1>5. rsp[h + 1] = fn
  <2>2. p[1] = fn /\ Len(p) >= 1
    BY <1>20
  <2>1. 1 \in 1 .. Len(p)
    BY <1>4, <2>2
  <2> QED
    BY <1>4, <2>1, <2>2, Zenon
<1>6. Len(p) >= 2 => rsp[h + 2] = p[2]
  BY <1>4
<1>7. fn \in Int /\ fn < 128 /\ rsp[h + 1] \in Int /\ rsp[h + 1] < 128 /\ rsp[h + 1] = req[h + 1]
  BY <1>1, <1>5
<1>80. \A n \in Nat : Len(p) = n => Len(rsp) = h + c + n
  BY <1>23, <1>26
<1>8. Len(rsp) = ResponseLength(req, b) \/ fn = 17
  <2>0. nb = Number(req, h)
    BY DEF nb
  <2>1. ASSUME fn \in {1, 2} PROVE Len(rsp) = ResponseLength(req, b)
    <3>1. ResponseLength(req, b) = h + c + (2 + BytesFor(nb))
      BY <1>1, <1>26, <2>0, <2>1, ResponseLengthIs
    <3>2. Len(p) = 2 + BytesFor(nb) /\ 2 + BytesFor(nb) \in Nat
      BY <1>27, <2>1
    <3> QED
      BY <1>80, <3>1, <3>2, Zenon
  <2>2. ASSUME fn \in {3, 4, 23} PROVE Len(rsp) = ResponseLength(req, b)
    <3>1. ResponseLength(req, b) = h + c + (2 + 2 * nb)
      BY <1>1, <1>26, <2>0, <2>2, ResponseLengthIs
    <3>2. Len(p) = 2 + 2 * nb /\ 2 + 2 * nb \in Nat
      BY <1>28, <2>2
    <3> QED
      BY <1>80, <3>1, <3>2, Zenon
  <2>3. ASSUME fn \in {5, 6, 15, 16} PROVE Len(rsp) = ResponseLength(req, b)
    <3>1. ResponseLength(req, b) = h + c + 5
      BY <1>1, <1>26, <2>0, <2>3, ResponseLengthIs
    <3>2. Len(p) = 5 /\ 5 \in Nat
      BY <1>29, <2>3
    <3> QED
      BY <1>80, <3>1, <3>2, Zenon
  <2>4. ASSUME fn = 22 PROVE Len(rsp) = ResponseLength(req, b)
    <3>1. ResponseLength(req, b) = h + c + 7
      BY <1>1, <1>26, <2>0, <2>4, ResponseLengthIs
    <3>2. Len(p) = 7 /\ 7 \in Nat
      BY <1>30, <2>4
    <3> QED
      BY <1>80, <3>1, <3>2, Zenon
  <2> QED
    BY <1>1, <2>1, <2>2, <2>3, <2>4
<1>9. SameValues(req, rsp, h)
  <2>0. fn = rsp[h + 1] /\ nb = Number(req, h)
    BY <1>5 DEF nb
  <2>1. ASSUME fn \in {1, 2} PROVE SameValues(req, rsp, h)
    <3>1. Len(p) >= 2
      <4> DEFINE size == BytesFor(nb)
      <4>1. Len(p) = 2 + size /\ size \in Nat
        BY <1>27, <2>1
      <4> HIDE DEF size
      <4> QED
        BY <4>1
    <3>2. rsp[h + 2] = BytesFor(nb)
      BY <1>27, <1>6, <2>1, <3>1
    <3> QED
      BY <2>0, <2>1, <3>2, SameValuesIs
  <2>2. ASSUME fn \in {3, 4, 23} PROVE SameValues(req, rsp, h)
    <3>1. Len(p) = 2 + 2 * nb /\ 2 * nb \in Nat /\ nb \in Nat
      BY <1>28, <2>2
    <3>2. Len(p) >= 2
      BY <3>1
    <3>3. rsp[h + 2] = 2 * nb
      BY <1>28, <1>6, <2>2, <3>2
    <3>4. rsp[h + 2] \div 2 = nb
      BY <3>1, <3>3
    <3> QED
      BY <2>0, <2>2, <3>4, SameValuesIs
  <2>3. ASSUME fn \in {5, 6, 15, 16} PROVE SameValues(req, rsp, h)
    <3>1. Len(p) = 5 /\ \A i \in 1 .. 5 : rsp[h + i] = req[h + i]
      BY <1>29, <1>4, <2>3
    <3>2. Len(rsp) >= h + 5 /\ Len(req) >= h + 5
      <4>1. Len(rsp) = h + c + 5
        BY <1>80, <3>1
      <4> QED
        BY <1>23, <1>24, <1>25, <2>3, <4>1
    <3>3. SubSeq(req, h + 2, h + 5) = SubSeq(rsp, h + 2, h + 5)
      <4>1. h + 2 \in Nat /\ h + 5 \in Nat /\ 1 <= h + 2 /\ h + 2 <= h + 5
        BY <1>23
      <4>2. ASSUME NEW k \in (h + 2) .. (h + 5) PROVE req[k] = rsp[k]
        <5>1. k - h \in 1 .. 5 /\ h + (k - h) = k
          BY <1>23
        <5> QED
          BY <3>1, <5>1
      <4>3. /\ 1 <= h + 2 /\ h + 2 <= h + 5 /\ h + 5 <= Len(req) /\ h + 5 <= Len(rsp)
            /\ req \in Seq(Byte) /\ rsp \in Seq(Byte)
        BY <1>22, <1>23, <1>24, <1>25, <1>4, <3>2, <4>1
      <4>4. \A i, j \in Nat : 1 <= i /\ i <= j /\ j <= Len(req) /\ j <= Len(rsp)
              /\ (\A k \in i .. j : req[k] = rsp[k]) => SubSeq(req, i, j) = SubSeq(rsp, i, j)
        BY <4>3, SamePart, Zenon
      <4> QED
        BY <4>1, <4>2, <4>3, <4>4, Zenon
    <3> QED
      BY <2>0, <2>3, <3>3, SameValuesIs
  <2>4. ASSUME fn \in {17, 22} PROVE SameValues(req, rsp, h)
    BY <2>0, <2>4, SameValuesIs
  <2> QED
    BY <1>1, <2>1, <2>2, <2>3, <2>4
<1>10. Confirmation(req, rsp, Len(rsp), b) = "ok"
  <2>1. JudgedBy(req, rsp, Len(rsp), b, h)
    BY ConfirmationIs, Zenon DEF h
  <2> QED
    BY <1>1, <1>7, <1>8, <1>9, <1>20, <2>1 DEF JudgedBy
<1>101. ValuesIn(q, rsp, b, h, m)
  BY ValuesAre, Zenon DEF h
<1>102. /\ fn \in {1, 2} => ValuesOf(q, rsp, b) = Unpacked(SubSeq(rsp, h + 3, Len(rsp)), q.nb)
        /\ fn \in {3, 4, 23} => ValuesOf(q, rsp, b) = [i \in 1 .. q.nb |-> WordAt(rsp, h + 1 + 2 * i)]
        /\ fn \notin {1, 2, 3, 4, 23} => ValuesOf(q, rsp, b) = Memory!ValuesRead(q, m)
        /\ fn \in {1, 2, 3, 4, 23} => Memory!ValuesRead(q, m) = Slice(block, q.addr, q.nb)
  BY <1>101, Zenon DEF ValuesIn, fn, block
<1>11. ASSUME fn \in {1, 2, 3, 4, 23}
       PROVE  q.nb = nb /\ Memory!ValuesRead(q, m) = slice
  <2>1. nb = q.nb /\ addr = q.addr
    BY <1>11, <1>26 DEF Says, nb, addr, fn
  <2>2. Memory!ValuesRead(q, m) = Slice(block, q.addr, q.nb)
    BY <1>11, <1>102, Zenon
  <2> QED
    BY <2>1, <2>2, Zenon DEF slice
<1>12. ASSUME fn \in {1, 2} PROVE ValuesOf(q, rsp, b) = Memory!ValuesRead(q, m)
  <2>0. Holds(p, 2, Packed(slice)) /\ slice \in Seq({0, 1}) /\ Len(slice) = nb
    BY <1>12, <1>27
  <2>1. Holds(rsp, h + 2, Packed(slice))
    BY <1>26, <2>0, HoldsWithin, Zenon
  <2>2. Unpacked(SubSeq(rsp, (h + 2) + 1, Len(rsp)), Len(slice)) = slice
    BY <2>0, <2>1, HoldsBits, Zenon
  <2>3. (h + 2) + 1 = h + 3
    BY <1>23
  <2>4. ValuesOf(q, rsp, b) = Unpacked(SubSeq(rsp, h + 3, Len(rsp)), q.nb)
    BY <1>12, <1>102, Zenon
  <2>5. Memory!ValuesRead(q, m) = slice /\ q.nb = nb
    BY <1>11, <1>12
  <2> QED
    BY <2>0, <2>2, <2>3, <2>4, <2>5, Zenon
<1>13. ASSUME fn \in {3, 4, 23} PROVE ValuesOf(q, rsp, b) = Memory!ValuesRead(q, m)
  <2>0. Holds(p, 2, Words(slice)) /\ slice \in Seq(Uint16) /\ Len(slice) = nb
    BY <1>13, <1>28
  <2>1. Holds(rsp, h + 2, Words(slice))
    BY <1>26, <2>0, HoldsWithin, Zenon
  <2>2. WordsAt(rsp, (h + 2) + 1, Len(slice)) = slice
    BY <2>0, <2>1, HoldsWords, Zenon
  <2>3. nb \in Nat /\ Memory!ValuesRead(q, m) = slice /\ q.nb = nb
    <3>1. Len(slice) \in Nat
      BY <2>0
    <3> QED
      BY <1>11, <1>13, <2>0, <3>1
  <2>4. ValuesOf(q, rsp, b) = [i \in 1 .. nb |-> WordAt(rsp, h + 1 + 2 * i)]
    BY <1>13, <1>102, <2>3, Zenon
  <2>6. WordsAt(rsp, (h + 2) + 1, nb) = [i \in 1 .. nb |-> WordAt(rsp, ((h + 2) + 1) + 2 * (i - 1))]
    BY Zenon DEF WordsAt
  <2>7. \A i \in 1 .. nb : ((h + 2) + 1) + 2 * (i - 1) = h + 1 + 2 * i
    BY <1>23, <2>3
  <2>8. [i \in 1 .. nb |-> WordAt(rsp, h + 1 + 2 * i)]
          = [i \in 1 .. nb |-> WordAt(rsp, ((h + 2) + 1) + 2 * (i - 1))]
    BY <2>7, Zenon
  <2> QED
    BY <2>0, <2>2, <2>3, <2>4, <2>6, <2>8, Zenon
<1>15. ValuesOf(q, rsp, b) = Memory!ValuesRead(q, m)
  BY <1>12, <1>13, <1>102
<1> QED
  BY <1>10, <1>15

\* The check of a frame finds it whole, on either kind of line.
LEMMA OwnFrame ==
  ASSUME backend \in Backends, NEW id \in Uint16, NEW unit \in Byte, NEW pdu \in Seq(Byte),
         Len(pdu) <= 253
  PROVE  Integrity(Adu(backend, id, unit, pdu), unit) = Len(Adu(backend, id, unit, pdu))
<1> DEFINE msg == Adu(backend, id, unit, pdu)
           tcp == backend = "tcp"
           other == backend = "rtu" /\ msg[1] \notin {unit, BroadcastAddress}
           right == WithCrc(SubSeq(msg, 1, Len(msg) - 2)) = msg
           all == Len(msg)
           damaged == -1
           checked == IF right THEN all ELSE damaged
           length == Integrity(msg, unit)
<1>1. length = CASE tcp -> all [] other -> 0 [] OTHER -> checked
  BY Zenon DEF Integrity
<1>2. tcp => ~other
  OBVIOUS
<1>3. ~tcp => ~other /\ right
  <2> SUFFICES ASSUME ~tcp PROVE ~other /\ right
    OBVIOUS
  <2>0. backend = "rtu" /\ HeaderLength[backend] = 1
    BY DEF Backends, HeaderLength
  <2> DEFINE s == <<unit>> \o pdu
             low == Crc(s).lo
             high == Crc(s).hi
             t == <<low, high>>
  <2>1. msg = s \o t
    BY <2>0 DEF Adu, WithCrc
  <2>2. msg \in Seq(Byte) /\ msg[HeaderLength[backend]] = unit
    BY AduType
  <2>3. ~other
    BY <2>0, <2>2
  <2>4. s \in Seq(Byte)
    <3>1. <<unit>> \in Seq(Byte)
      OBVIOUS
    <3> QED
      BY <3>1, Together, Zenon
  <2> HIDE DEF s
  <2>5. t \in Seq(Byte) /\ Len(t) = 2
    BY <2>4, CrcType
  <2> HIDE DEF low, high, t
  <2>6. SubSeq(s \o t, 1, Len(s \o t) - 2) = s
    <3>0. Len(s) \in Nat
      BY <2>4
    <3>1. Len(s \o t) = Len(s) + Len(t)
      BY <2>4, <2>5, Together, Zenon
    <3>2. Len(s \o t) - 2 = Len(s)
      BY <2>5, <3>0, <3>1
    <3>3. SubSeq(s \o t, 1, Len(s)) = s
      BY <2>4, <2>5
    <3> QED
      BY <3>2, <3>3
  <2>7. WithCrc(s) = s \o t
    BY Zenon DEF WithCrc, t, low, high
  <2>8. right
    BY <2>1, <2>6, <2>7
  <2> QED
    BY <2>3, <2>8
<1> HIDE DEF tcp, other, right, all, damaged, length, msg
<1>4. tcp => length = all
  BY <1>1, <1>2, Zenon
<1>5. ~tcp => length = all
  BY <1>1, <1>3, Zenon
<1> QED
  BY <1>4, <1>5, Zenon DEF length, all, msg

\* What is right as an answer to a request when the memory is as it is: the frame is whole, the
\* request has had its effect, and it is accepted with the values of the memory, or else the
\* request was out of range.
AnswerFor(q, id, map, rsp) ==
  LET verdict == Confirmation(Frame(q, id), rsp, Len(rsp), backend)
  IN /\ Integrity(rsp, q.unit) = Len(rsp)
     /\ Memory!Effect(q, map) = map
     /\ \/ /\ Memory!InRange(q, map[BlockOf(q.fn)])
           /\ verdict = "ok" /\ ValuesOf(q, rsp, backend) = Memory!ValuesRead(q, map)
        \/ /\ ~Memory!InRange(q, map[BlockOf(q.fn)])
           /\ verdict \notin {"ok", "raw"}

\* An exception is not taken for success.
LEMMA ExceptionTaken ==
  \A b \in Backends : \A req, rsp, fn, code :
    /\ fn \in Functions
    /\ Holds(rsp, HeaderLength[b], ExceptionPdu(fn, code)) /\ PreCheck(req, rsp, b)
    => Confirmation(req, rsp, Len(rsp), b) \notin {"ok", "raw"}
<1> SUFFICES ASSUME NEW b \in Backends, NEW req, NEW rsp, NEW fn, NEW code,
                    fn \in Functions, Holds(rsp, HeaderLength[b], ExceptionPdu(fn, code)),
                    PreCheck(req, rsp, b)
             PROVE  Confirmation(req, rsp, Len(rsp), b) \notin {"ok", "raw"}
  BY Zenon
<1> DEFINE h == HeaderLength[b]
           first == (fn + 128) % 256
           p == <<first, code>>
<1>0. fn \in {1, 2, 3, 4, 5, 6, 15, 16, 17, 22, 23}
  BY CodesAre
<1>1. first = fn + 128 /\ first \in Int /\ first >= 128
  BY <1>0
<1>2. p[1] = first /\ 1 \in 1 .. Len(p)
  OBVIOUS
<1> HIDE DEF p, first, h
<1>3. \A i \in 1 .. Len(p) : rsp[h + i] = p[i]
  BY DEF Holds, ExceptionPdu, p, first, h
<1>4. rsp[h + 1] \in Int /\ rsp[h + 1] >= 128
  BY <1>1, <1>2, <1>3
<1>5. JudgedBy(req, rsp, Len(rsp), b, h)
  BY ConfirmationIs, Zenon DEF h
<1>6. Confirmation(req, rsp, Len(rsp), b) \in {"exception", "bad exception"}
  BY <1>4, <1>5 DEF JudgedBy
<1> QED
  BY <1>6

\* What the server makes of the frame of a request: it carries the request out, and its answer
\* is right.
LEMMA RightAnswer ==
  ASSUME backend \in Backends, NEW q, IsRequest(q), ~q.raw, ~Refused(q), NEW id \in Uint16,
         NEW map, IsMapping(map), NEW reply, reply = Reply(Frame(q, id), backend, map)
  PROVE  /\ reply.mapping = Memory!Effect(q, map)
         /\ reply.pdu # <<>>
         /\ AnswerFor(q, id, reply.mapping,
                      Adu(backend, WordAt(Frame(q, id), 1), q.unit, reply.pdu))
<1> DEFINE h == HeaderLength[backend]
           c == ChecksumLength[backend]
           asks == RequestPdu(q)
           req == Frame(q, id)
           name == BlockOf(q.fn)
           m == reply.mapping
           p == reply.pdu
           rsp == Adu(backend, WordAt(req, 1), q.unit, p)
           end == Len(req) - c
           verdict == Confirmation(req, rsp, Len(rsp), backend)
<1>1. req = Adu(backend, id, q.unit, asks)
  BY DEF Frame
<1>2. /\ q.unit \in Byte /\ q.fn \in {1, 2, 3, 4, 5, 6, 15, 16, 17, 22, 23} /\ q.fn \in Functions
      /\ q.fn # 7 /\ q.fn < 128
  BY RequestIs, CodesAre
<1>3. asks \in Seq(Byte) /\ Len(asks) <= 253
  BY RequestPduType
<1>4. IsMessage("indication", backend, req) /\ req[h + 1] = q.fn
  <2>1. Complete(q)
    BY DEF Complete
  <2> QED
    BY <1>2, <2>1, FrameIs
<1>5. Says(q, req, h)
  BY <1>1, FrameSays
<1>6. name \in BlockNames
  BY BlockNamed
<1>7. IsReply(q.fn, map, reply)
  BY <1>4, ReplyType
<1>8. /\ IsMapping(m) /\ p \in Seq(Byte) /\ Len(p) <= 253 /\ p # <<>>
      /\ DOMAIN m[name] = DOMAIN map[name]
  BY <1>2, <1>6, <1>7 DEF IsReply
<1>9. /\ m = Memory!Effect(q, map)
      /\ Memory!InRange(q, map[name]) =>
           Legal(req, h, map[name]) /\ p = ResponsePdu(req, h, end, m[name])
      /\ ~Memory!InRange(q, map[name]) =>
           \E code \in {1, 2, 3} : p = ExceptionPdu(q.fn, code)
  <2>1. CarriedOut(q, backend, req, map)
    BY <1>5, Carried
  <2> QED
    BY <2>1, Zenon DEF CarriedOut
<1>10. Memory!Effect(q, m) = m /\ (Memory!InRange(q, m[name]) <=> Memory!InRange(q, map[name]))
  BY <1>9, EffectOnce
<1>11. WordAt(req, 1) \in Uint16
  BY <1>3, <1>4, AnswerType
<1>12. /\ rsp \in Seq(Byte) /\ Len(rsp) = h + Len(p) + c
       /\ \A i \in 1 .. Len(p) : rsp[h + i] = p[i]
  BY <1>2, <1>8, <1>11, AduType
<1> HIDE DEF m, p, rsp, req, asks, name, end, h, c
<1>13. Holds(rsp, h, p)
  <2>1. h \in Nat /\ c \in Nat
    BY LengthsAre DEF h, c
  <2> QED
    BY <1>8, <1>12, <2>1 DEF Holds
<1>14. PreCheck(req, rsp, backend)
  BY <1>1, <1>2, <1>3, <1>8, AnswersThis DEF rsp
<1>15. Integrity(rsp, q.unit) = Len(rsp)
  BY <1>2, <1>8, <1>11, OwnFrame DEF rsp
<1>16. ASSUME Memory!InRange(q, map[name])
       PROVE  verdict = "ok" /\ ValuesOf(q, rsp, backend) = Memory!ValuesRead(q, m)
  <2> DEFINE D == DOMAIN m[name]
  <2>1. LegalNumber(req, h) /\ LegalAddress(req, h, map[name]) /\ p = ResponsePdu(req, h, end, m[name])
    BY <1>9, <1>16 DEF Legal
  <2>2. LegalAddress(req, h, m[name])
    BY <1>8, <2>1, SameLegal
  <2>3. m[name] \in [D -> Values(name)]
    BY <1>6, <1>8, Zenon DEF IsMapping, Values
  <2>4. p[1] = q.fn
    BY <1>2, <1>4, <2>1, <2>2, <2>3, ResponsePduType DEF h, c, end, name
  <2>5. Len(p) >= 1
    BY <1>8
  <2> HIDE DEF D, verdict
  <2>6. AnsweredBy(q, backend, req, m, rsp)
    BY <1>2, <1>4, <1>5, <1>12, <1>13, <1>14, <2>1, <2>2, <2>3, <2>4, <2>5, Zenon
       DEF AnsweredBy, h, c, end, name, D
  <2> QED
    BY <2>6, Confirmed, Zenon DEF verdict
<1>17. ASSUME ~Memory!InRange(q, map[name]) PROVE verdict \notin {"ok", "raw"}
  <2>1. PICK code \in {1, 2, 3} : p = ExceptionPdu(q.fn, code)
    BY <1>9, <1>17
  <2> QED
    BY <1>2, <1>13, <1>14, <2>1, ExceptionTaken, Zenon DEF h
<1>18. AnswerFor(q, id, m, rsp)
  BY <1>10, <1>15, <1>16, <1>17, Zenon DEF AnswerFor, req, name
<1> QED
  BY <1>8, <1>9, <1>18 DEF m, p, rsp, req
-----------------------------------------------------------------------------
\* What the client waits for was sent.
Sent == pc = "waiting" => request \in asked /\ ~Refused(request)

\* An answer is there, the right one if the server's memory was asked.
Answered == /\ pc = "waiting" /\ IsMessage("confirmation", backend, toClient)
            /\ Memory!Judged => AnswerFor(request, tid, mapping, toClient)

\* Nothing is under way but what the server still hears of others, and an answer, which is
\* there if there must be one.
Quiet == /\ otherAsked = <<>>
         /\ Heard(backend, ignoring, toServer)
         /\ \/ toClient = <<>> /\ ~(pc = "waiting" /\ Memory!Judged)
            \/ Answered

\* The request has come to the server, behind what it still hears of others; what is behind
\* the message in front of it goes when it is refused.
Answerable(m, junk) ==
  /\ IsMessage("indication", backend, m)
  /\ m[HeaderLength[backend] + 1] < 128
  /\ backend = "rtu" => m[1] \in {Unit, BroadcastAddress} /\ junk = <<>>
  /\ junk # <<>> => m[HeaderLength[backend] + 1] \notin Functions \cup {ReadExceptionStatus}
AskedServer ==
  \E x, m, junk \in Seq(Byte) :
    /\ toServer = x \o (m \o junk)
    /\ Heard(backend, ignoring, x)
    /\ Answerable(m, junk)
    /\ m \o junk = Frame(request, tid)
    /\ \/ otherAsked = <<>>
       \/ otherAsked = <<m>> /\ m[1] = BroadcastAddress

\* A broadcast that the server is done with, but not the other slave.
BroadcastLeft ==
  /\ toServer = <<>> /\ ~ignoring /\ ~Memory!Judged
  /\ \E m : otherAsked = <<m>> /\ m[1] = BroadcastAddress

\* The other slave is asked; the server hears it, or has heard it.
AskedOther ==
  \E r : /\ otherAsked = <<r>> /\ OthersRequest(r) /\ ~Memory!Judged
         /\ r[2] < 128 /\ r[2] # ReadExceptionStatus
         /\ \/ ignoring /\ toServer = <<>>
            \/ \E x : toServer = x \o r /\ Heard("rtu", ignoring, x)

Asked == /\ pc = "waiting" /\ toClient = <<>>
         /\ AskedServer \/ (backend = "rtu" /\ (BroadcastLeft \/ AskedOther))

\* What can go wrong.
Kinds == {"late", "silent", "busy", "close", "damage"}

Orderly == conn = "up" /\ (Quiet \/ Asked)
LeftInv == /\ TypeInv
           /\ faults \in Seq(Kinds)
           /\ Sent
           /\ Clean => Orderly

\* What has gone wrong is not undone, nor is what was asked forgotten.
LEMMA Grows ==
  ASSUME Next
  PROVE  /\ backend' = backend /\ asked \subseteq asked'
         /\ faults' = faults \/ \E kind \in Kinds : faults' = Append(faults, kind)
<1> USE DEF context, call, server
<1>1. ASSUME NEW q \in Requests, Refuse(q) \/ Ask(q) \/ AskFails(q)
      PROVE  backend' = backend /\ asked \subseteq asked' /\ faults' = faults
  BY <1>1 DEF Refuse, Ask, AskFails
<1>2. ASSUME ClientReceives \/ ClientReceivesTooLong \/ ClientFindsEnd \/ Flush
      PROVE  backend' = backend /\ asked' = asked /\ faults' = faults
  BY <1>2 DEF ClientReceives, ClientReceivesTooLong, ClientFindsEnd, Flush
<1>3. ASSUME NEW n \in 0 .. Len(toClient), ClientTimesOut(n)
      PROVE  /\ backend' = backend /\ asked' = asked
             /\ faults' = faults \/ faults' = Append(faults, "late")
  BY <1>3 DEF ClientTimesOut, Fault
<1>4. ASSUME ServerIgnores \/ ServerPassesOver \/ ServerReplies
      PROVE  backend' = backend /\ asked' = asked /\ faults' = faults
  BY <1>4 DEF ServerIgnores, ServerPassesOver, ServerReplies
<1>5. ASSUME OtherAnswers
      PROVE  /\ backend' = backend /\ asked' = asked
             /\ faults' = faults \/ faults' = Append(faults, "silent")
  BY <1>5 DEF OtherAnswers, Fault
<1>6. ASSUME NEW n \in 0 .. Len(toServer), ServerGivesUp(n)
      PROVE  /\ backend' = backend /\ asked' = asked
             /\ faults' = faults \/ faults' = Append(faults, "late")
  BY <1>6 DEF ServerGivesUp, Fault
<1>7. ASSUME Trouble
      PROVE  /\ backend' = backend /\ asked' = asked
             /\ \E kind \in Kinds : faults' = Append(faults, kind)
  <2>1. /\ backend' = backend /\ asked' = asked
        /\ \/ faults' = Append(faults, "busy") \/ faults' = Append(faults, "close")
           \/ faults' = Append(faults, "damage")
    BY <1>7 DEF Trouble, ServerIsBusy, ServerCloses, LineFails, Fault
  <2>2. "busy" \in Kinds /\ "close" \in Kinds /\ "damage" \in Kinds
    BY DEF Kinds
  <2> QED
    BY <2>1, <2>2
<1>8. "late" \in Kinds /\ "silent" \in Kinds
  BY DEF Kinds
<1> QED
  BY <1>1, <1>2, <1>3, <1>4, <1>5, <1>6, <1>7, <1>8, Zenon DEF Next, Calls, Returns, Server

\* Whatever is clean after a step was clean before it.
LEMMA CleanBefore ==
  ASSUME faults \in Seq(Kinds), Next
  PROVE  /\ faults' \in Seq(Kinds)
         /\ Clean' => Clean /\ faults' = faults
<1>1. faults' = faults \/ \E kind \in Kinds : faults' = Append(faults, kind)
  BY Grows
<1>2. faults' \in Seq(Kinds) /\ (faults' # faults => Len(faults') > 0)
  BY <1>1
<1>3. faults' = <<>> => faults' = faults
  BY <1>2
<1>4. Measured' => Measured
  <2>1. backend' = backend /\ asked \subseteq asked'
    BY Grows
  <2> QED
    BY <2>1, Zenon DEF Measured
<1> QED
  BY <1>2, <1>3, <1>4, Zenon DEF Clean

\* Of nothing no message is taken.
LEMMA NothingToTake ==
  ASSUME NEW type \in Types, backend \in Backends
  PROVE  ~Whole(type, <<>>) /\ ~TooLong(type, backend, <<>>)
<1> DEFINE h == HeaderLength[backend]
           most == MaxAdu[backend]
<1>1. h \in {1, 7} /\ most \in Nat /\ most > 8
  BY LengthsAre
<1>2. Len(<<>>) <= h /\ Len(<<>>) = 0
  BY <1>1
<1> HIDE DEF most, h
<1>3. Wanted(type, backend, <<>>) = h + 1
  BY <1>2, Zenon DEF Wanted, h
<1> QED
  BY <1>1, <1>2, <1>3 DEF Whole, TooLong, most

\* With a message in front, the server takes it, and does not give up before it is all there.
LEMMA Ready ==
  ASSUME TypeInv, NEW msg, NEW rest \in Seq(Byte), IsMessage(Kind(ignoring), backend, msg),
         toServer = msg \o rest
  PROVE  /\ ServerMayAct /\ Whole(Kind(ignoring), toServer)
         /\ NextMessage(Kind(ignoring), toServer) = msg
         /\ Drop(toServer, Len(msg)) = rest
         /\ \A n \in 0 .. Len(toServer) : ServerGivesUp(n) => Len(faults') > 0
<1> DEFINE type == Kind(ignoring)
<1>1. type \in Types /\ backend \in Backends /\ ignoring \in BOOLEAN
  BY DEF Types, Kind, TypeInv, TypeOK
<1>2. /\ Whole(type, toServer) /\ NextMessage(type, toServer) = msg
      /\ Drop(toServer, Len(msg)) = rest
      /\ \A n \in 0 .. Len(toServer) :
           /\ ~TooLong(type, backend, SubSeq(toServer, 1, n))
           /\ Whole(type, SubSeq(toServer, 1, n)) <=> n >= Len(msg)
  BY <1>1, MessageFirst
<1>3. type = IF ignoring THEN "confirmation" ELSE "indication"
  BY DEF Kind
<1> HIDE DEF type
<1>4. toServer # <<>>
  BY <1>1, <1>2, NothingToTake, Zenon
<1>5. ServerMayAct
  BY <1>2, <1>3, <1>4, Zenon DEF ServerMayAct
<1>6. msg \in Seq(Byte)
  BY DEF IsMessage
<1>7. Len(toServer) \in Nat /\ Len(msg) \in Nat /\ Len(rest) \in Nat
      /\ Len(toServer) = Len(msg) + Len(rest)
  BY <1>6, Together
<1>8. ASSUME NEW n \in 0 .. Len(toServer), ServerGivesUp(n) PROVE Len(faults') > 0
  <2>1. n \in 0 .. Len(toServer)
    BY <1>7
  <2>2. ~Whole(type, SubSeq(toServer, 1, n))
    BY <1>3, <1>8, Zenon DEF ServerGivesUp
  <2>3. ~(n >= Len(msg)) /\ ~TooLong(type, backend, SubSeq(toServer, 1, n))
    BY <1>2, <2>1, <2>2, Zenon
  <2>4. n # Len(toServer)
    BY <1>7, <2>1, <2>3
  <2>5. Fault("late")
    BY <1>3, <1>8, <2>3, <2>4, Zenon DEF ServerGivesUp
  <2> QED
    BY <2>5 DEF Fault
<1> QED
  BY <1>2, <1>5, <1>8 DEF type

\* What is in front when something stands behind what is heard.
LEMMA BehindHeard ==
  ASSUME TypeInv, NEW x, NEW tail \in Seq(Byte), Heard(backend, ignoring, x), toServer = x \o tail
  PROVE  /\ x \in Seq(Byte)
         /\ x = <<>> => toServer = tail /\ ~ignoring
         /\ x # <<>> => \E msg, rest \in Seq(Byte) :
                          /\ IsMessage(Kind(ignoring), backend, msg)
                          /\ toServer = msg \o (rest \o tail)
                          /\ ~ignoring => msg[1] = OtherUnit
                          /\ Heard(backend, ~ignoring, rest) /\ backend = "rtu"
<1>1. ignoring \in BOOLEAN /\ backend \in Backends
  BY DEF TypeInv, TypeOK
<1>2. x \in Seq(Byte)
  BY <1>1, HeardType
<1>3. ASSUME x = <<>> PROVE toServer = tail /\ ~ignoring
  <2>1. <<>> \o tail = tail
    BY ConcatEmptySeq
  <2> QED
    BY <1>1, <1>3, <2>1, NothingHeard, Zenon
<1>4. ASSUME x # <<>>
      PROVE  \E msg, rest \in Seq(Byte) :
               /\ IsMessage(Kind(ignoring), backend, msg)
               /\ toServer = msg \o (rest \o tail)
               /\ ~ignoring => msg[1] = OtherUnit
               /\ Heard(backend, ~ignoring, rest) /\ backend = "rtu"
  <2>1. /\ backend = "rtu"
        /\ \E msg, rest \in Seq(Byte) :
             /\ x = msg \o rest /\ IsMessage(Kind(ignoring), "rtu", msg)
             /\ ~ignoring => msg[1] = OtherUnit
             /\ Heard(backend, ~ignoring, rest)
    BY <1>1, <1>4, HeardFirst
  <2>2. PICK msg, rest \in Seq(Byte) :
             /\ x = msg \o rest /\ IsMessage(Kind(ignoring), "rtu", msg)
             /\ ~ignoring => msg[1] = OtherUnit
             /\ Heard(backend, ~ignoring, rest)
    BY <2>1, Zenon
  <2>3. \A s, t, u \in Seq(Byte) : s \o (t \o u) = (s \o t) \o u
    BY Regrouped
  <2>4. toServer = msg \o (rest \o tail)
    BY <2>2, <2>3, Zenon
  <2> QED
    BY <2>1, <2>2, <2>4, Zenon
<1> QED
  BY <1>2, <1>3, <1>4

\* A message for another slave is passed over.
LEMMA ForAnother ==
  ASSUME backend = "rtu", NEW msg, msg[1] = OtherUnit
  PROVE  Integrity(msg, Unit) = 0
<1> DEFINE tcp == backend = "tcp"
           other == backend = "rtu" /\ msg[1] \notin {Unit, BroadcastAddress}
           checked == IF WithCrc(SubSeq(msg, 1, Len(msg) - 2)) = msg THEN Len(msg) ELSE -1
           all == Len(msg)
<1>1. ~tcp /\ other
  BY UnitsAssumption DEF BroadcastAddress
<1>2. Integrity(msg, Unit) = CASE tcp -> all [] other -> 0 [] OTHER -> checked
  BY Zenon DEF Integrity
<1> HIDE DEF tcp, other, all, checked
<1> QED
  BY <1>1, <1>2, Zenon

\* What every step of the server leaves alone.
ServerStep == ServerIgnores \/ ServerPassesOver \/ ServerReplies

\* and what it leaves alone that carries out no request.
Unserved == UNCHANGED <<backend, pc, tid, request, asked, conn, toClient, mapping, otherAsked, result>>

\* A step of the server takes a message off what it hears, and leaves what is behind.
LEMMA HeardStep ==
  ASSUME TypeInv, NEW x, NEW tail \in Seq(Byte), Heard(backend, ignoring, x), x # <<>>,
         toServer = x \o tail, ServerStep
  PROVE  /\ \E y : toServer' = y \o tail /\ Heard(backend', ignoring', y)
         /\ Unserved
<1>1. PICK msg, rest \in Seq(Byte) :
        /\ IsMessage(Kind(ignoring), backend, msg)
        /\ toServer = msg \o (rest \o tail)
        /\ ~ignoring => msg[1] = OtherUnit
        /\ Heard(backend, ~ignoring, rest) /\ backend = "rtu"
  BY BehindHeard, Zenon
<1>2. rest \o tail \in Seq(Byte)
  BY Together, Zenon
<1>3. /\ NextMessage(Kind(ignoring), toServer) = msg
      /\ Drop(toServer, Len(msg)) = rest \o tail
  BY <1>1, <1>2, Ready
<1>4. CASE ServerIgnores
  <2>1. ignoring /\ ignoring' = FALSE /\ Unserved
        /\ toServer' = Drop(toServer, Len(NextMessage("confirmation", toServer)))
    BY <1>4 DEF ServerIgnores, context, call, Unserved
  <2>2. Kind(ignoring) = "confirmation" /\ ignoring' = ~ignoring /\ backend' = backend
    BY <2>1 DEF Kind, Unserved
  <2> QED
    BY <1>1, <1>3, <2>1, <2>2, Zenon
<1>5. ASSUME ~ignoring PROVE Integrity(msg, Unit) = 0 /\ Kind(ignoring) = "indication"
  BY <1>1, <1>5, ForAnother DEF Kind
<1>6. CASE ServerPassesOver
  <2>1. /\ ~ignoring /\ Unserved
        /\ ignoring' = (Integrity(NextMessage("indication", toServer), Unit) = 0)
        /\ toServer' = Drop(toServer, Len(NextMessage("indication", toServer)))
    BY <1>6 DEF ServerPassesOver, context, call, Unserved
  <2>2. ignoring' = ~ignoring /\ backend' = backend
    BY <1>3, <1>5, <2>1 DEF Unserved
  <2> QED
    BY <1>1, <1>3, <1>5, <2>1, <2>2, Zenon
<1>7. CASE ServerReplies
  <2>1. ~ignoring /\ Integrity(NextMessage("indication", toServer), Unit) > 0
    BY <1>7, Zenon DEF ServerReplies
  <2>2. Integrity(NextMessage("indication", toServer), Unit) = 0
    BY <1>3, <1>5, <2>1, Zenon
  <2> QED
    BY <2>1, <2>2
<1> QED
  BY <1>4, <1>6, <1>7 DEF ServerStep

\* A message for the server, or for all, is not.
LEMMA ForItself ==
  ASSUME backend \in Backends, NEW msg, Len(msg) \in Nat, Len(msg) > 0
  PROVE  /\ Integrity(msg, Unit) \in Int
         /\ backend = "tcp" => Integrity(msg, Unit) > 0
         /\ backend = "rtu" /\ msg[1] \in {Unit, BroadcastAddress} => Integrity(msg, Unit) # 0
<1> DEFINE tcp == backend = "tcp"
           other == backend = "rtu" /\ msg[1] \notin {Unit, BroadcastAddress}
           right == WithCrc(SubSeq(msg, 1, Len(msg) - 2)) = msg
           all == Len(msg)
           damaged == -1
           checked == IF right THEN all ELSE damaged
           length == Integrity(msg, Unit)
<1>1. length = CASE tcp -> all [] other -> 0 [] OTHER -> checked
  BY Zenon DEF Integrity
<1>2. tcp => ~other
  OBVIOUS
<1>3. all > 0 /\ all # 0 /\ damaged # 0 /\ all \in Int /\ damaged \in Int /\ 0 \in Int
  OBVIOUS
<1>4. backend = "rtu" /\ msg[1] \in {Unit, BroadcastAddress} => ~tcp /\ ~other
  OBVIOUS
<1>5. tcp <=> backend = "tcp"
  OBVIOUS
<1> HIDE DEF tcp, other, right, all, damaged, length
<1>6. tcp => length = all
  BY <1>1, <1>2, Zenon
<1>70. ~tcp /\ other => length = 0
  BY <1>1, Zenon
<1>7. ~tcp /\ ~other => length = all \/ length = damaged
  BY <1>1, Zenon
<1>8. /\ length \in Int
      /\ backend = "tcp" => length > 0
      /\ backend = "rtu" /\ msg[1] \in {Unit, BroadcastAddress} => length # 0
  BY <1>3, <1>4, <1>5, <1>6, <1>7, <1>70, Zenon
<1> QED
  BY <1>8 DEF length

\* What stays when no request is carried out.
LEMMA Stays ==
  ASSUME Unserved
  PROVE  /\ backend' = backend /\ pc' = pc /\ tid' = tid /\ request' = request /\ conn' = conn
         /\ toClient' = toClient /\ mapping' = mapping /\ otherAsked' = otherAsked
         /\ Memory!Judged' = Memory!Judged /\ Answered' = Answered
         /\ Frame(request, tid)' = Frame(request, tid)
<1>1. /\ backend' = backend /\ pc' = pc /\ tid' = tid /\ request' = request /\ conn' = conn
      /\ toClient' = toClient /\ mapping' = mapping /\ otherAsked' = otherAsked
  BY DEF Unserved
<1>2. Memory!Judged' = Memory!Judged
  BY <1>1, Zenon DEF Memory!Judged
<1>3. Frame(request, tid)' = Frame(request, tid)
  BY <1>1, Zenon DEF Frame
<1>4. AnswerFor(request, tid, mapping, toClient)' = AnswerFor(request, tid, mapping, toClient)
  BY <1>1, Zenon DEF AnswerFor, Frame, Integrity
<1>5. Answered' = Answered
  BY <1>1, <1>2, <1>4, Zenon DEF Answered
<1> QED
  BY <1>1, <1>2, <1>3, <1>5

\* While only what others say is heard, the server passes it over.
LEMMA QuietServed == ASSUME TypeInv, Quiet, ServerStep PROVE Quiet' /\ Unserved
<1>1. /\ otherAsked = <<>> /\ Heard(backend, ignoring, toServer)
      /\ \/ toClient = <<>> /\ ~(pc = "waiting" /\ Memory!Judged)
         \/ Answered
  BY DEF Quiet
<1>2. toServer \in Seq(Byte) /\ backend \in Backends
  BY DEF TypeInv, TypeOK
<1>3. toServer # <<>>
  BY <1>2, NothingToTake, Zenon DEF ServerStep, ServerIgnores, ServerPassesOver, ServerReplies, Types
<1>4. <<>> \in Seq(Byte) /\ toServer = toServer \o <<>>
  BY <1>2, ConcatEmptySeq
<1>5. /\ \E y : toServer' = y \o <<>> /\ Heard(backend', ignoring', y)
      /\ Unserved
  BY <1>1, <1>3, <1>4, HeardStep
<1>6. PICK y : toServer' = y \o <<>> /\ Heard(backend', ignoring', y)
  BY <1>5
<1>7. ignoring' \in BOOLEAN
  BY ServerTyped DEF ServerStep, Server, TypeInv, TypeOK
<1>8. y \in Seq(Byte)
  BY <1>6, <1>7, HeardType
<1>9. toServer' = y
  BY <1>6, <1>8, ConcatEmptySeq
<1>10. /\ backend' = backend /\ pc' = pc /\ toClient' = toClient /\ otherAsked' = otherAsked
       /\ Memory!Judged' = Memory!Judged /\ Answered' = Answered
  BY <1>5, Stays
<1> QED
  BY <1>1, <1>5, <1>6, <1>9, <1>10, Zenon DEF Quiet

\* What the server makes of a request of a client function.
LEMMA RequestTaken ==
  ASSUME TypeInv, Sent, pc = "waiting", ~request.raw, NEW m \in Seq(Byte), NEW junk \in Seq(Byte),
         m \o junk = Frame(request, tid), Answerable(m, junk),
         NEW reply, reply = Reply(m, backend, mapping)
  PROVE  /\ Integrity(m, request.unit) = Len(m) /\ m[HeaderLength[backend]] = request.unit
         /\ Len(m) \in Nat /\ Len(m) > 0
         /\ reply.pdu # <<>> /\ reply.mapping = Memory!Effect(request, mapping)
         /\ AnswerFor(request, tid, reply.mapping,
                      Adu(backend, WordAt(m, 1), m[HeaderLength[backend]], reply.pdu))
<1> DEFINE h == HeaderLength[backend]
<1>1. backend \in Backends /\ IsMapping(mapping) /\ tid \in Uint16 /\ request \in Requests
  BY DEF TypeInv, TypeOK
<1>2. IsRequest(request) /\ ~Refused(request) /\ ~request.raw
  BY <1>1, RequestsAssumption DEF Sent
<1>3. Complete(request)
  BY <1>2 DEF Complete
<1>4. request.unit \in Byte /\ request.fn \in Functions
  BY <1>2, RequestIs, CodesAre
<1>5. /\ Frame(request, tid)[h] = request.unit /\ Frame(request, tid)[h + 1] = request.fn
      /\ Len(Frame(request, tid)) >= h + 1
  BY <1>1, <1>2, <1>3, FrameIs
<1>6. h \in {1, 7} /\ IsMessage("indication", backend, m) /\ Len(m) > h
  BY <1>1, LengthsAre DEF Answerable, IsMessage
<1>7. m[h + 1] = request.fn
  <2>1. h + 1 \in 1 .. Len(m)
    BY <1>6
  <2>2. (m \o junk)[h + 1] = m[h + 1]
    BY <2>1, TogetherLeft, Zenon
  <2> QED
    BY <1>5, <2>2
<1>8. junk = <<>>
  BY <1>4, <1>7 DEF Answerable
<1>9. m = Frame(request, tid)
  BY <1>8, ConcatEmptySeq
<1>10. Integrity(m, request.unit) = Len(m)
  <2> DEFINE pdu == RequestPdu(request)
  <2>1. pdu \in Seq(Byte) /\ Len(pdu) <= 253
    BY <1>2, RequestPduType
  <2>2. m = Adu(backend, tid, request.unit, pdu)
    BY <1>2, <1>9, Zenon DEF Frame
  <2> HIDE DEF pdu
  <2> QED
    BY <1>1, <1>4, <2>1, <2>2, OwnFrame
<1>11. /\ reply.mapping = Memory!Effect(request, mapping) /\ reply.pdu # <<>>
       /\ AnswerFor(request, tid, reply.mapping,
                    Adu(backend, WordAt(Frame(request, tid), 1), request.unit, reply.pdu))
  BY <1>1, <1>2, <1>9, RightAnswer
<1> QED
  BY <1>5, <1>6, <1>9, <1>10, <1>11

\* The server carries out the request of the client.
Served == \E m, junk \in Seq(Byte) :
            /\ m \o junk = Frame(request, tid) /\ Answerable(m, junk)
            /\ mapping' = Reply(m, backend, mapping).mapping
            /\ UNCHANGED <<pc, request, asked, result>>

\* A request at the front is answered, or passed over when it is damaged or a broadcast.
LEMMA RequestServed ==
  ASSUME TypeInv, NEW m \in Seq(Byte), NEW junk \in Seq(Byte), toServer = m \o junk,
         ~ignoring, Answerable(m, junk), pc = "waiting", toClient = <<>>,
         m \o junk = Frame(request, tid), Sent,
         otherAsked = <<>> \/ (otherAsked = <<m>> /\ m[1] = BroadcastAddress), ServerStep
  PROVE  /\ Quiet' \/ (pc' = "waiting" /\ toClient' = <<>> /\ backend' = "rtu" /\ BroadcastLeft')
         /\ Unserved \/ Served
<1> DEFINE h == HeaderLength[backend]
<1>1. /\ IsMessage("indication", backend, m) /\ m[h + 1] < 128
      /\ backend = "rtu" => m[1] \in {Unit, BroadcastAddress} /\ junk = <<>>
      /\ junk # <<>> => m[h + 1] \notin Functions \cup {ReadExceptionStatus}
  BY DEF Answerable
<1>2. backend \in Backends /\ IsMapping(mapping)
  BY DEF TypeInv, TypeOK
<1>3. Kind(ignoring) = "indication"
  BY DEF Kind
<1>4. NextMessage("indication", toServer) = m /\ Drop(toServer, Len(m)) = junk
  BY <1>1, <1>3, Ready
<1>5. m[h + 1] \in Byte /\ Len(m) \in Nat /\ Len(m) > 0 /\ h \in {1, 7}
  BY <1>1, <1>2, RequestShape
<1>6. otherAsked = <<m>> => backend = "rtu"
  <2>1. <<m>> # <<>>
    OBVIOUS
  <2> QED
    BY <1>2, <2>1 DEF TypeInv, OthersWhole, Backends
<1>7. Heard(backend, FALSE, <<>>)
  BY NothingHeard, Zenon
<1>8. ASSUME ignoring' = FALSE, toServer' = <<>>, toClient' = <<>>, ~Memory!Judged,
             UNCHANGED <<backend, pc, request, otherAsked>>
      PROVE  Quiet' \/ (pc' = "waiting" /\ toClient' = <<>> /\ backend' = "rtu" /\ BroadcastLeft')
  <2>1. backend' = backend /\ pc' = pc /\ request' = request /\ otherAsked' = otherAsked
    BY <1>8
  <2>4. ~Memory!Judged'
    BY <1>8, <2>1, Zenon DEF Memory!Judged
  <2>2. CASE otherAsked = <<>>
    BY <1>7, <1>8, <2>1, <2>2, <2>4, Zenon DEF Quiet
  <2>3. CASE otherAsked = <<m>> /\ m[1] = BroadcastAddress
    BY <1>6, <1>8, <2>1, <2>3, <2>4, Zenon DEF BroadcastLeft
  <2> QED
    BY <2>2, <2>3
<1>12. Memory!Judged => ~request.raw /\ request.unit = Unit
  BY DEF Memory!Judged
<1>9. CASE ServerPassesOver
  <2>1. /\ Integrity(m, Unit) <= 0 /\ ignoring' = (Integrity(m, Unit) = 0)
        /\ toServer' = junk /\ toClient' = toClient /\ Unserved
    BY <1>4, <1>9 DEF ServerPassesOver, context, call, Unserved
  <2>4. ASSUME Integrity(m, Unit) > 0 PROVE FALSE
    <3>1. Integrity(m, Unit) \in Int
      BY <1>2, <1>5, ForItself
    <3> QED
      BY <2>1, <2>4, <3>1
  <2>2. backend = "rtu"
    <3>1. backend = "tcp" => Integrity(m, Unit) > 0
      BY <1>2, <1>5, ForItself
    <3> QED
      BY <1>2, <2>4, <3>1 DEF Backends
  <2>3. Integrity(m, Unit) # 0
    BY <1>1, <1>2, <1>5, <2>2, ForItself
  <2>5. ~Memory!Judged
    <3> SUFFICES ASSUME Memory!Judged PROVE FALSE
      OBVIOUS
    <3>1. Integrity(m, Unit) = Len(m)
      BY <1>12, RequestTaken
    <3> QED
      BY <1>5, <2>4, <3>1
  <2>6. UNCHANGED <<backend, pc, request, otherAsked>>
    BY <2>1 DEF Unserved
  <2> QED
    BY <1>1, <1>8, <2>1, <2>2, <2>3, <2>5, <2>6
<1>10. CASE ServerReplies
  <2> DEFINE reply == Reply(m, backend, mapping)
             adu == Adu(backend, WordAt(m, 1), m[h], reply.pdu)
             silent == reply.pdu = <<>> \/ (backend = "rtu" /\ m[h] = BroadcastAddress)
  <2>1. /\ toServer' = IF reply.flush THEN <<>> ELSE junk
        /\ toClient' = IF silent THEN toClient ELSE toClient \o adu
        /\ mapping' = reply.mapping
        /\ ignoring' = ignoring
        /\ UNCHANGED <<backend, pc, tid, request, asked, otherAsked, result>>
    BY <1>4, <1>10, Zenon DEF ServerReplies, context, call
  <2>2. IsReply(m[h + 1], mapping, reply)
    BY <1>1, <1>2, ReplyType
  <2>0. Served
    BY <2>1, Zenon DEF Served, reply
  <2>6. Memory!Judged => /\ reply.pdu # <<>> /\ m[h] = Unit
                         /\ AnswerFor(request, tid, reply.mapping, adu)
    BY <1>12, RequestTaken, Zenon
  <2> HIDE DEF reply
  <2>3. toServer' = <<>>
    <3>1. m[h + 1] \notin Functions /\ m[h + 1] # 7 => reply.flush
      BY <2>2 DEF IsReply
    <3> QED
      BY <1>1, <2>1, <3>1 DEF ReadExceptionStatus
  <2>4. CASE silent
    <3>1. toClient' = <<>>
      BY <2>1, <2>4, Zenon
    <3>2. ignoring' = FALSE
      BY <2>1
    <3>3. ~Memory!Judged
      <4>1. Unit # BroadcastAddress
        BY UnitsAssumption DEF BroadcastAddress
      <4> QED
        BY <2>4, <2>6, <4>1, Zenon
    <3> QED
      BY <1>8, <2>0, <2>1, <2>3, <3>1, <3>2, <3>3, Zenon
  <2>5. CASE ~silent
    <3>1. IsPdu("confirmation", reply.pdu)
      BY <1>1, <2>2, <2>5, Zenon DEF IsReply
    <3>2. IsMessage("confirmation", backend, adu)
      <4>1. "confirmation" \in Types
        BY DEF Types
      <4>2. <<>> \in Seq(Byte) /\ Len(<<>>) <= 253
        OBVIOUS
      <4>3. WordAt(m, 1) \in Uint16 /\ m[h] \in Byte
        BY <1>1, <1>2, <4>2, AnswerType
      <4> QED
        BY <1>2, <3>1, <4>1, <4>3, FrameIsMessage
    <3>3. toClient' = adu
      <4>1. adu \in Seq(Byte)
        BY <3>2, Zenon DEF IsMessage
      <4>2. <<>> \o adu = adu
        BY <4>1, ConcatEmptySeq
      <4> QED
        BY <2>1, <2>5, <4>2, Zenon
    <3>4. otherAsked = <<>>
      <4>1. backend = "rtu" => h = 1
        BY DEF HeaderLength
      <4> QED
        BY <1>6, <2>5, <4>1
    <3>5. backend' = backend /\ pc' = pc /\ tid' = tid /\ request' = request
          /\ otherAsked' = otherAsked /\ ignoring' = FALSE /\ mapping' = reply.mapping
      BY <2>1
    <3> HIDE DEF adu
    <3>6. Answered'
      <4>1. Memory!Judged' = Memory!Judged
        BY <3>5, Zenon DEF Memory!Judged
      <4>2. AnswerFor(request, tid, mapping, toClient)' = AnswerFor(request, tid, reply.mapping, adu)
        BY <3>3, <3>5, Zenon DEF AnswerFor, Frame, Integrity
      <4> QED
        BY <2>6, <3>2, <3>3, <3>5, <4>1, <4>2, Zenon DEF Answered
    <3> QED
      BY <1>7, <2>0, <2>3, <3>4, <3>5, <3>6, Zenon DEF Quiet
  <2> QED
    BY <2>4, <2>5
<1>11. ~ServerIgnores
  BY DEF ServerIgnores
<1> QED
  BY <1>9, <1>10, <1>11 DEF ServerStep

\* When the server is asked, its step leaves what is left of others, the answer, or a
\* broadcast to the other slave.
LEMMA AskedServed ==
  ASSUME TypeInv, Sent, AskedServer, pc = "waiting", toClient = <<>>, ServerStep
  PROVE  /\ \/ Quiet'
            \/ /\ pc' = "waiting" /\ toClient' = <<>>
               /\ AskedServer' \/ (backend' = "rtu" /\ BroadcastLeft')
         /\ Unserved \/ Served
<1>1. PICK x, m, junk \in Seq(Byte) :
        /\ toServer = x \o (m \o junk) /\ Heard(backend, ignoring, x) /\ Answerable(m, junk)
        /\ m \o junk = Frame(request, tid)
        /\ \/ otherAsked = <<>>
           \/ otherAsked = <<m>> /\ m[1] = BroadcastAddress
  BY Zenon DEF AskedServer
<1>2. m \o junk \in Seq(Byte)
  BY Together, Zenon
<1>3. CASE x = <<>>
  <2>1. toServer = m \o junk /\ ~ignoring
    BY <1>1, <1>2, <1>3, BehindHeard
  <2> QED
    BY <1>1, <2>1, RequestServed
<1>4. CASE x # <<>>
  <2>1. /\ \E y : toServer' = y \o (m \o junk) /\ Heard(backend', ignoring', y)
        /\ Unserved
    BY <1>1, <1>2, <1>4, HeardStep
  <2>2. PICK y : toServer' = y \o (m \o junk) /\ Heard(backend', ignoring', y)
    BY <2>1
  <2>3. ignoring' \in BOOLEAN
    BY ServerTyped DEF ServerStep, Server, TypeInv, TypeOK
  <2>4. y \in Seq(Byte)
    BY <2>2, <2>3, HeardType
  <2>5. /\ backend' = backend /\ pc' = pc /\ toClient' = toClient /\ otherAsked' = otherAsked
        /\ Frame(request, tid)' = Frame(request, tid)
    BY <2>1, Stays
  <2>6. Answerable(m, junk)'
    BY <1>1, <2>5, Zenon DEF Answerable
  <2>7. AskedServer'
    BY <1>1, <2>2, <2>4, <2>5, <2>6, Zenon DEF AskedServer
  <2> QED
    BY <2>1, <2>5, <2>7, Zenon
<1> QED
  BY <1>3, <1>4

\* A request for the other slave is heard by the server, which passes it over.
LEMMA OtherRequestServed ==
  ASSUME TypeInv, AskedOther, backend = "rtu", ServerStep
  PROVE  AskedOther' /\ Unserved
<1>1. PICK r : /\ otherAsked = <<r>> /\ OthersRequest(r) /\ ~Memory!Judged
               /\ r[2] < 128 /\ r[2] # ReadExceptionStatus
               /\ \/ ignoring /\ toServer = <<>>
                  \/ \E x : toServer = x \o r /\ Heard("rtu", ignoring, x)
  BY Zenon DEF AskedOther
<1>2. /\ IsMessage("indication", "rtu", r) /\ r \in Seq(Byte) /\ r[1] = OtherUnit
      /\ toServer \in Seq(Byte) /\ backend \in Backends
  BY <1>1 DEF OthersRequest, IsMessage, TypeInv, TypeOK
<1>3. toServer # <<>>
  BY <1>2, NothingToTake, Zenon DEF ServerStep, ServerIgnores, ServerPassesOver, ServerReplies, Types
<1>4. PICK x : toServer = x \o r /\ Heard(backend, ignoring, x)
  BY <1>1, <1>3, Zenon
<1>5. CASE x = <<>>
  <2>1. toServer = r /\ ~ignoring /\ Kind(ignoring) = "indication"
    BY <1>2, <1>4, <1>5, BehindHeard DEF Kind
  <2>2. <<>> \in Seq(Byte) /\ toServer = r \o <<>>
    BY <1>2, <2>1, ConcatEmptySeq
  <2>3. NextMessage("indication", toServer) = r /\ Drop(toServer, Len(r)) = <<>>
    BY <1>2, <2>1, <2>2, Ready
  <2>4. Integrity(r, Unit) = 0
    BY <1>2, ForAnother
  <2>5. ~ServerIgnores
    BY <2>1 DEF ServerIgnores
  <2>6. ~ServerReplies
    <3>1. ~(0 > 0)
      OBVIOUS
    <3> QED
      BY <2>3, <2>4, <3>1, Zenon DEF ServerReplies
  <2>7. /\ ignoring' = TRUE /\ toServer' = <<>>
        /\ Unserved
    BY <2>3, <2>4, <2>5, <2>6 DEF ServerStep, ServerPassesOver, context, call, Unserved
  <2>8. otherAsked' = otherAsked /\ Memory!Judged' = Memory!Judged
    BY <2>7, Stays
  <2> QED
    BY <1>1, <2>7, <2>8, Zenon DEF AskedOther
<1>6. CASE x # <<>>
  <2>1. /\ \E y : toServer' = y \o r /\ Heard(backend', ignoring', y)
        /\ Unserved
    BY <1>2, <1>4, <1>6, HeardStep
  <2>2. backend' = "rtu" /\ otherAsked' = otherAsked /\ Memory!Judged' = Memory!Judged
    BY <2>1, Stays
  <2> QED
    BY <1>1, <2>1, <2>2, Zenon DEF AskedOther
<1> QED
  BY <1>5, <1>6

\* Any step of the server keeps the line orderly.
LEMMA ServerLeft == ASSUME TypeInv, Sent, Orderly, ServerStep PROVE Orderly' /\ (Unserved \/ Served)
<1>1. conn' = "up"
  BY DEF Orderly, ServerStep, ServerIgnores, ServerPassesOver, ServerReplies
<1>2. CASE Quiet
  BY <1>1, <1>2, QuietServed, Zenon DEF Orderly
<1>3. ASSUME Asked PROVE (Quiet' \/ Asked') /\ (Unserved \/ Served)
  <2>1. pc = "waiting" /\ toClient = <<>>
    BY <1>3 DEF Asked
  <2>2. CASE AskedServer
    BY <2>1, <2>2, AskedServed, Zenon DEF Asked
  <2>3. CASE backend = "rtu" /\ BroadcastLeft
    <3>1. toServer = <<>> /\ ~ignoring
      BY <2>3, Zenon DEF BroadcastLeft
    <3>2. ~Whole("indication", <<>>)
      BY NothingToTake DEF TypeInv, TypeOK, Types
    <3> QED
      BY <3>1, <3>2, Zenon DEF ServerStep, ServerIgnores, ServerPassesOver, ServerReplies
  <2>4. CASE backend = "rtu" /\ AskedOther
    <3>1. AskedOther' /\ Unserved
      BY <2>4, OtherRequestServed
    <3>2. backend' = backend /\ pc' = pc /\ toClient' = toClient
      BY <3>1, Stays
    <3> QED
      BY <2>1, <2>4, <3>1, <3>2, Zenon DEF Asked
  <2> QED
    BY <1>3, <2>2, <2>3, <2>4, Zenon DEF Asked
<1> QED
  BY <1>1, <1>2, <1>3, Zenon DEF Orderly

\* A step that records no trouble is none of those that do.
LEMMA NoFault == ASSUME faults \in Seq(Kinds), faults' = faults, NEW kind PROVE ~Fault(kind)
<1>1. Len(Append(faults, kind)) = Len(faults) + 1 /\ Len(faults) \in Nat
  OBVIOUS
<1> QED
  BY <1>1 DEF Fault

\* The other slave answers what it was asked, and the server hears the answer.
LEMMA OtherAnswersLeft ==
  ASSUME TypeInv, Orderly, OtherAnswers, faults \in Seq(Kinds), faults' = faults PROVE Orderly'
<1> DEFINE req == Head(otherAsked)
           reply == Reply(req, backend, OtherMapping)
           adu == Adu(backend, 0, OtherUnit, reply.pdu)
           answers == req[1] = OtherUnit /\ reply.pdu # <<>>
<1>1. /\ backend \in Backends /\ toServer \in Seq(Byte) /\ otherAsked # <<>>
      /\ otherAsked' = Tail(otherAsked)
      /\ UNCHANGED <<backend, pc, tid, request, conn, ignoring>>
  BY DEF TypeInv, TypeOK, OtherAnswers, context, call, server
<1>2. ~Fault("silent")
  BY NoFault
<1>3. /\ answers => toServer' = toServer \o adu /\ toClient' = toClient \o adu
      /\ ~answers => toServer' = toServer /\ toClient' = toClient
  BY <1>2, Zenon DEF OtherAnswers
<1>4. /\ conn = "up" /\ pc = "waiting" /\ toClient = <<>> /\ ~Quiet
      /\ AskedServer \/ (backend = "rtu" /\ (BroadcastLeft \/ AskedOther))
  BY <1>1, Zenon DEF Orderly, Asked, Quiet
<1>5. \A m : otherAsked = <<m>> => req = m /\ otherAsked' = <<>>
  BY <1>1
<1>6. /\ conn' = "up" /\ pc' = "waiting" /\ backend' = backend /\ ignoring' = ignoring
      /\ request' = request /\ tid' = tid
  BY <1>1, <1>4
<1>10. Memory!Judged' = Memory!Judged /\ Frame(request, tid)' = Frame(request, tid)
  BY <1>6, Zenon DEF Memory!Judged, Frame
<1> HIDE DEF req
<1>7. CASE AskedServer
  <2>1. PICK x, m, junk \in Seq(Byte) :
          /\ toServer = x \o (m \o junk) /\ Heard(backend, ignoring, x) /\ Answerable(m, junk)
          /\ m \o junk = Frame(request, tid)
          /\ \/ otherAsked = <<>>
             \/ otherAsked = <<m>> /\ m[1] = BroadcastAddress
    BY <1>7, Zenon DEF AskedServer
  <2>2. req = m /\ otherAsked' = <<>> /\ m[1] = BroadcastAddress
    BY <1>1, <1>5, <2>1, Zenon
  <2>3. ~answers
    BY <2>2, UnitsAssumption DEF BroadcastAddress
  <2>4. Answerable(m, junk)'
    BY <1>6, <2>1, Zenon DEF Answerable
  <2>5. AskedServer' /\ toClient' = <<>>
    BY <1>3, <1>4, <1>6, <1>10, <2>1, <2>2, <2>3, <2>4, Zenon DEF AskedServer
  <2> QED
    BY <1>6, <2>5, Zenon DEF Orderly, Asked
<1>8. CASE backend = "rtu" /\ BroadcastLeft
  <2>1. PICK m : /\ otherAsked = <<m>> /\ m[1] = BroadcastAddress
                 /\ toServer = <<>> /\ ~ignoring /\ ~Memory!Judged
    BY <1>8, Zenon DEF BroadcastLeft
  <2>2. req = m /\ otherAsked' = <<>>
    BY <1>5, <2>1, Zenon
  <2>3. ~answers
    BY <2>1, <2>2, UnitsAssumption DEF BroadcastAddress
  <2>4. toServer' = <<>> /\ toClient' = <<>> /\ ignoring' = FALSE
    BY <1>3, <1>4, <1>6, <2>1, <2>3
  <2>5. Heard(backend, FALSE, <<>>)
    BY NothingHeard, Zenon
  <2> QED
    BY <1>6, <1>10, <2>1, <2>2, <2>4, <2>5, Zenon DEF Orderly, Quiet
<1>9. CASE backend = "rtu" /\ AskedOther
  <2>1. PICK r : /\ otherAsked = <<r>> /\ OthersRequest(r) /\ ~Memory!Judged
                 /\ r[2] < 128 /\ r[2] # ReadExceptionStatus
                 /\ \/ ignoring /\ toServer = <<>>
                    \/ \E x : toServer = x \o r /\ Heard("rtu", ignoring, x)
    BY <1>9, Zenon DEF AskedOther
  <2>2. req = r /\ otherAsked' = <<>>
    BY <1>5, <2>1, Zenon
  <2>3. IsMessage("indication", backend, req) /\ req[1] = OtherUnit
    BY <1>9, <2>1, <2>2, Zenon DEF OthersRequest
  <2>4. IsReply(req[HeaderLength[backend] + 1], OtherMapping, reply)
    BY <1>1, <2>3, MappingsAssumption, ReplyType
  <2>5. HeaderLength[backend] + 1 = 2
    BY <1>9 DEF HeaderLength
  <2>6. req[2] # 7 /\ req[2] < 128
    BY <2>1, <2>2 DEF ReadExceptionStatus
  <2> HIDE DEF reply
  <2>7. reply.pdu # <<>> /\ IsPdu("confirmation", reply.pdu)
    BY <2>4, <2>5, <2>6, Zenon DEF IsReply
  <2>8. IsMessage("confirmation", "rtu", adu)
    <3>1. "confirmation" \in Types /\ 0 \in Uint16 /\ OtherUnit \in Byte
      BY UnitsAssumption, ByteIs, Uint16Is DEF Types
    <3>2. IsMessage("confirmation", backend, adu)
      BY <1>1, <2>7, <3>1, FrameIsMessage
    <3> QED
      BY <1>9, <3>2, Zenon
  <2>9. adu \in Seq(Byte)
    BY <2>8, Zenon DEF IsMessage
  <2> HIDE DEF adu
  <2>10. toServer' = toServer \o adu /\ toClient' = toClient \o adu
    BY <1>3, <2>3, <2>7, Zenon
  <2>11. <<>> \o adu = adu
    BY <2>9, ConcatEmptySeq
  <2>12. toClient' = adu
    BY <1>4, <2>10, <2>11, Zenon
  <2>13. Heard("rtu", ignoring, toServer')
    <3>1. CASE ignoring /\ toServer = <<>>
      <4>1. toServer' = adu
        BY <2>10, <2>11, <3>1, Zenon
      <4>2. Heard("rtu", TRUE, adu)
        BY <2>8, AnswerHeard
      <4>3. ignoring = TRUE
        BY <3>1 DEF TypeInv, TypeOK
      <4> QED
        BY <4>1, <4>2, <4>3, Zenon
    <3>2. ASSUME NEW x, toServer = x \o r, Heard("rtu", ignoring, x)
          PROVE  Heard("rtu", ignoring, toServer')
      <4>1. Exchange(r, adu) /\ ignoring \in BOOLEAN
        BY <2>1, <2>8 DEF Exchange, TypeInv, TypeOK
      <4>2. Heard("rtu", ignoring, (x \o r) \o adu)
        BY <3>2, <4>1, HeardMore
      <4> QED
        BY <2>10, <3>2, <4>2, Zenon
    <3> QED
      BY <2>1, <3>1, <3>2, Zenon
  <2> QED
    BY <1>6, <1>9, <1>10, <2>1, <2>2, <2>8, <2>12, <2>13, Zenon DEF Orderly, Quiet, Answered
<1> QED
  BY <1>4, <1>7, <1>8, <1>9, Zenon

\* What is in front of everything the server has not read.
LEMMA InFront ==
  ASSUME TypeInv, NEW x, NEW tail \in Seq(Byte), Heard(backend, ignoring, x), toServer = x \o tail,
         \/ x # <<>>
         \/ \E m, junk \in Seq(Byte) : IsMessage("indication", backend, m) /\ tail = m \o junk
  PROVE  \E msg, rest \in Seq(Byte) :
           IsMessage(Kind(ignoring), backend, msg) /\ toServer = msg \o rest
<1>1. CASE x # <<>>
  <2>1. PICK msg, rest \in Seq(Byte) :
          /\ IsMessage(Kind(ignoring), backend, msg)
          /\ toServer = msg \o (rest \o tail)
    BY <1>1, BehindHeard, Zenon
  <2>2. rest \o tail \in Seq(Byte)
    BY Together, Zenon
  <2> QED
    BY <2>1, <2>2, Zenon
<1>2. ASSUME x = <<>>, NEW m \in Seq(Byte), NEW junk \in Seq(Byte),
             IsMessage("indication", backend, m), tail = m \o junk
      PROVE  \E msg, rest \in Seq(Byte) :
               IsMessage(Kind(ignoring), backend, msg) /\ toServer = msg \o rest
  <2>1. toServer = tail /\ ~ignoring
    BY <1>2, BehindHeard
  <2>2. Kind(ignoring) = "indication"
    BY <2>1 DEF Kind
  <2> QED
    BY <1>2, <2>1, <2>2, Zenon
<1> QED
  BY <1>1, <1>2, Zenon

\* On an orderly line, what the server has to read begins with a message of the kind it
\* expects,
LEMMA OrderlyFront ==
  ASSUME TypeInv, Orderly, toServer # <<>> \/ AskedServer
  PROVE  \E msg, rest \in Seq(Byte) :
           IsMessage(Kind(ignoring), backend, msg) /\ toServer = msg \o rest
<1>0. toServer \in Seq(Byte) /\ <<>> \in Seq(Byte) /\ toServer = toServer \o <<>>
  BY ConcatEmptySeq DEF TypeInv, TypeOK
<1>1. CASE AskedServer
  <2>1. PICK x, m, junk \in Seq(Byte) :
          /\ toServer = x \o (m \o junk) /\ Heard(backend, ignoring, x) /\ Answerable(m, junk)
    BY <1>1, Zenon DEF AskedServer
  <2>2. m \o junk \in Seq(Byte) /\ IsMessage("indication", backend, m)
    BY <2>1, Together, Zenon DEF Answerable
  <2> QED
    BY <2>1, <2>2, InFront
<1>2. CASE Quiet /\ toServer # <<>>
  <2>1. Heard(backend, ignoring, toServer)
    BY <1>2, Zenon DEF Quiet
  <2> QED
    BY <1>0, <1>2, <2>1, InFront
<1>3. CASE backend = "rtu" /\ BroadcastLeft /\ toServer # <<>>
  BY <1>3, Zenon DEF BroadcastLeft
<1>4. CASE backend = "rtu" /\ AskedOther /\ toServer # <<>>
  <2>1. PICK r : /\ OthersRequest(r)
                 /\ \/ ignoring /\ toServer = <<>>
                    \/ \E x : toServer = x \o r /\ Heard("rtu", ignoring, x)
    BY <1>4, Zenon DEF AskedOther
  <2>2. PICK x : toServer = x \o r /\ Heard(backend, ignoring, x)
    BY <1>4, <2>1, Zenon
  <2>3. r \in Seq(Byte) /\ IsMessage("indication", backend, r)
    BY <1>4, <2>1 DEF OthersRequest, IsMessage
  <2>4. r = r \o <<>>
    BY <2>3, ConcatEmptySeq
  <2> QED
    BY <1>0, <2>2, <2>3, <2>4, InFront
<1> QED
  BY <1>1, <1>2, <1>3, <1>4, Zenon DEF Orderly, Asked

\* As long as somebody has something to answer, the server or the other slave may act.
LEMMA MayAct == ASSUME TypeInv, Orderly, ~ServerMayAct PROVE Quiet /\ toServer = <<>>
<1>1. toServer = <<>> /\ ~AskedServer
  <2>1. ASSUME NEW msg \in Seq(Byte), NEW rest \in Seq(Byte),
               IsMessage(Kind(ignoring), backend, msg), toServer = msg \o rest
        PROVE  FALSE
    BY <2>1, Ready
  <2> QED
    BY <2>1, OrderlyFront, Zenon
<1>2. \A m : <<m>> # <<>>
  OBVIOUS
<1>3. ~BroadcastLeft /\ ~AskedOther
  BY <1>2, Zenon DEF BroadcastLeft, AskedOther, ServerMayAct
<1> QED
  BY <1>1, <1>3, Zenon DEF Orderly, Asked

\* so it gives up on a message only after something went wrong.
LEMMA GivesUpLeft ==
  ASSUME TypeInv, Orderly, NEW n \in 0 .. Len(toServer), ServerGivesUp(n)
  PROVE  faults' # <<>>
<1>1. CASE toServer # <<>> \/ AskedServer
  <2>1. PICK msg, rest \in Seq(Byte) :
          IsMessage(Kind(ignoring), backend, msg) /\ toServer = msg \o rest
    BY <1>1, OrderlyFront, Zenon
  <2>2. Len(faults') > 0
    BY <2>1, Ready
  <2>3. ~(Len(<<>>) > 0)
    OBVIOUS
  <2> QED
    BY <2>2, <2>3, Zenon
<1>2. CASE toServer = <<>> /\ ~AskedServer
  <2>1. n = 0 /\ SubSeq(toServer, 1, n) = <<>>
    BY <1>2
  <2>2. ignoring
    <3>1. TimesOut(n)
      BY Zenon DEF ServerGivesUp
    <3> QED
      BY <2>1, <3>1 DEF TimesOut
  <2>3. ~Quiet
    <3>1. <<>> \in Seq(Byte) /\ toServer = <<>> \o <<>>
      BY <1>2
    <3> QED
      BY <1>2, <2>2, <3>1, BehindHeard, Zenon DEF Quiet
  <2>4. AskedOther
    BY <1>2, <2>2, <2>3, Zenon DEF Orderly, Asked, BroadcastLeft
  <2>5. otherAsked # <<>>
    <3>1. \A m : <<m>> # <<>>
      OBVIOUS
    <3> QED
      BY <2>4, <3>1, Zenon DEF AskedOther
  <2>6. "confirmation" \in Types /\ backend \in Backends
    BY DEF Types, TypeInv, TypeOK
  <2>7. ~TooLong("confirmation", backend, SubSeq(toServer, 1, n))
    BY <2>1, <2>6, NothingToTake, Zenon
  <2>8. Fault("late")
    BY <2>2, <2>5, <2>7, Zenon DEF ServerGivesUp
  <2>9. Len(faults') > 0
    BY <2>8 DEF Fault
  <2>10. ~(Len(<<>>) > 0)
    OBVIOUS
  <2> QED
    BY <2>9, <2>10, Zenon
<1> QED
  BY <1>1, <1>2

\* A call is over, and nothing more is to come.
LEMMA ClientDone ==
  ASSUME Quiet, conn = "up", toClient' = <<>>, pc' # "waiting",
         UNCHANGED <<context, conn, toServer, server, otherAsked>>
  PROVE  Orderly'
<1>1. backend' = backend /\ conn' = conn /\ toServer' = toServer /\ ignoring' = ignoring
      /\ otherAsked' = otherAsked
  BY DEF context, server
<1> QED
  BY <1>1, Zenon DEF Orderly, Quiet

\* The client takes the answer whole,
LEMMA ClientReceivesLeft == ASSUME TypeInv, Orderly, ClientReceives PROVE Orderly'
<1> DEFINE rsp == NextMessage("confirmation", toClient)
           length == Integrity(rsp, request.unit)
           verdict == IF request.raw THEN "raw"
                      ELSE Confirmation(Frame(request, tid), rsp, length, backend)
           values == IF request.raw THEN <<>> ELSE ValuesOf(request, rsp, backend)
           damaged == length = -1
           good == length >= 0 /\ verdict \in {"ok", "raw"}
           A == /\ pc' = "idle"
                /\ toClient' = IF recovery THEN <<>> ELSE Drop(toClient, Len(rsp))
                /\ Return("error", <<>>)
           B == /\ pc' = "idle"
                /\ toClient' = Drop(toClient, Len(rsp))
                /\ Return(verdict, values)
           C == Fails(Len(rsp), verdict = "bad")
           Right == toClient' = <<>> /\ pc' # "waiting"
<1>1. backend \in Backends /\ toClient \in Seq(Byte) /\ Whole("confirmation", toClient)
      /\ "confirmation" \in Types
  BY DEF TypeInv, TypeOK, ClientReceives, Types
<1>2. toClient # <<>>
  BY <1>1, NothingToTake, Zenon
<1>3. Quiet /\ IsMessage("confirmation", backend, toClient) /\ conn = "up"
  BY <1>2, Zenon DEF Orderly, Asked, Quiet, Answered
<1>4. <<>> \in Seq(Byte) /\ toClient \o <<>> = toClient
  BY <1>1, ConcatEmptySeq
<1>5. rsp = toClient /\ Drop(toClient, Len(toClient)) = <<>>
  <2>1. /\ NextMessage("confirmation", toClient \o <<>>) = toClient
        /\ Drop(toClient \o <<>>, Len(toClient)) = <<>>
    BY <1>1, <1>3, <1>4, MessageFirst
  <2> QED
    BY <1>4, <2>1, Zenon
<1>6. (CASE damaged -> A [] good -> B [] OTHER -> C)
  BY Zenon DEF ClientReceives
<1> HIDE DEF rsp
<1>7. A => Right
  BY <1>5
<1>8. B => Right
  BY <1>5
<1>9. C => Right
  BY <1>5 DEF Fails
<1> HIDE DEF A, B, C, damaged, good, Right
<1>10. Right
  BY <1>6, <1>7, <1>8, <1>9, Zenon
<1> QED
  BY <1>3, <1>10, ClientDone DEF Right, ClientReceives

\* and a call that returns with nothing wrong leaves an orderly line.
LEMMA ReturnsLeft ==
  ASSUME TypeInv, Orderly, Returns, faults \in Seq(Kinds), faults' = faults PROVE Orderly'
<1>1. /\ backend \in Backends /\ toClient \in Seq(Byte) /\ conn = "up"
      /\ "confirmation" \in Types
  BY DEF TypeInv, TypeOK, Orderly, Types
<1>2. toClient = <<>> \/ IsMessage("confirmation", backend, toClient)
  BY Zenon DEF Orderly, Quiet, Asked, Answered
<1>3. <<>> \in Seq(Byte) /\ toClient \o <<>> = toClient
  BY <1>1, ConcatEmptySeq
<1>4. ASSUME IsMessage("confirmation", backend, toClient)
      PROVE  Whole("confirmation", toClient) /\ ~TooLong("confirmation", backend, toClient)
  <2>1. /\ Whole("confirmation", toClient \o <<>>)
        /\ ~TooLong("confirmation", backend, toClient \o <<>>)
    BY <1>1, <1>3, <1>4, MessageFirst
  <2> QED
    BY <1>3, <2>1, Zenon
<1>5. CASE ClientReceives
  BY <1>5, ClientReceivesLeft
<1>6. CASE ClientReceivesTooLong
  <2>1. TooLong("confirmation", backend, toClient)
    BY <1>6, Zenon DEF ClientReceivesTooLong
  <2> QED
    BY <1>1, <1>2, <1>4, <2>1, NothingToTake, Zenon
<1>7. CASE ClientFindsEnd
  <2>1. conn = "closed"
    BY <1>7 DEF ClientFindsEnd
  <2> QED
    BY <1>1, <2>1
<1>8. CASE Flush
  <2>1. pc = "flushing" /\ pc' # "waiting" /\ toClient' = <<>>
        /\ UNCHANGED <<context, conn, toServer, server, otherAsked>>
    BY <1>8 DEF Flush
  <2>2. Quiet
    BY <2>1, Zenon DEF Orderly, Asked
  <2> QED
    BY <1>1, <2>1, <2>2, ClientDone
<1>9. ASSUME NEW n \in 0 .. Len(toClient), ClientTimesOut(n) PROVE Orderly'
  <2>1. n = Len(toClient) /\ ~ServerMayAct
    BY <1>9, NoFault, Zenon DEF ClientTimesOut
  <2>2. SubSeq(toClient, 1, n) = toClient
    BY <1>1, <2>1
  <2>3. ~Whole("confirmation", toClient)
    BY <1>9, <2>2, Zenon DEF ClientTimesOut
  <2>4. toClient = <<>>
    BY <1>2, <1>4, <2>3, Zenon
  <2>5. toClient' = Drop(toClient, n) /\ pc' # "waiting"
        /\ UNCHANGED <<context, conn, toServer, server, otherAsked>>
    BY <1>9 DEF ClientTimesOut, Fails
  <2>6. toClient' = <<>>
    BY <2>1, <2>4, <2>5 DEF Drop
  <2>7. Quiet
    BY <2>1, MayAct
  <2> QED
    BY <1>1, <2>5, <2>6, <2>7, ClientDone
<1> QED
  BY <1>5, <1>6, <1>7, <1>8, <1>9 DEF Returns

\* Of any other, what can be told from its first bytes.
LEMMA FrameBegins ==
  ASSUME backend = "tcp", NEW adu \in Seq(Byte), Len(adu) >= 8, adu[8] > 7,
         adu[8] \notin Functions
  PROVE  \E m, junk \in Seq(Byte) :
           adu = m \o junk /\ IsMessage("indication", backend, m) /\ m[8] = adu[8]
<1> DEFINE fn == adu[8]
           m == NextMessage("indication", adu)
           junk == Drop(adu, Len(m))
<1>1. HeaderLength[backend] = 7 /\ ChecksumLength[backend] = 0 /\ MaxAdu[backend] = 260
      /\ backend \in Backends
  BY DEF HeaderLength, ChecksumLength, MaxAdu, Backends
<1>2. fn \in Int
  <2>1. adu[8] \in Byte
    OBVIOUS
  <2> QED
    BY <2>1, ByteIs
<1>3. fn > 6 /\ fn \notin {15, 16, 22, 23}
  <2>1. fn \notin {1, 2, 3, 4, 5, 6, 15, 16, 17, 22, 23} /\ fn > 7
    BY CodesAre
  <2> HIDE DEF fn
  <2> QED
    BY <1>2, <2>1
<1>4. MetaLength("indication", fn) = 0 /\ DataLength("indication", adu, 7) = 0
  <2>1. adu[7 + 1] = fn
    OBVIOUS
  <2> HIDE DEF fn
  <2> QED
    BY <1>2, <1>3, <2>1, MetaLengthIs, DataLengthIs
<1>5. Wanted("indication", backend, adu) = 8
  <2> DEFINE meta == 7 + 1 + MetaLength("indication", adu[7 + 1])
             all == meta + DataLength("indication", adu, 7) + 0
  <2>1. ~(Len(adu) <= 7) /\ meta = 8 /\ ~(Len(adu) < meta) /\ all = 8
    BY <1>4
  <2>2. Wanted("indication", backend, adu) = IF Len(adu) <= 7 THEN 7 + 1
                                            ELSE IF Len(adu) < meta THEN meta ELSE all
    BY <1>1, Zenon DEF Wanted
  <2> HIDE DEF meta, all
  <2> QED
    BY <2>1, <2>2, Zenon
<1>6. Whole("indication", adu)
  <2>1. ~(8 > 260)
    OBVIOUS
  <2> QED
    BY <1>1, <1>5, <2>1 DEF Whole, TooLong
<1>7. IsMessage("indication", backend, m) /\ junk \in Seq(Byte) /\ adu = m \o junk
  BY <1>1, <1>6, MessageTaken DEF Types
<1> HIDE DEF junk, m
<1>8. m \in Seq(Byte) /\ 8 \in 1 .. Len(m)
  <2>1. m \in Seq(Byte) /\ Len(m) > HeaderLength[backend]
    BY <1>7, Zenon DEF IsMessage
  <2> QED
    BY <1>1, <2>1
<1>9. m[8] = adu[8]
  BY <1>7, <1>8, TogetherLeft, Zenon
<1> QED
  BY <1>7, <1>8, <1>9, Zenon

\* So does a request,
LEMMA AskLeft == ASSUME TypeInv, Orderly, NEW q \in Requests, Ask(q), Measured' PROVE Orderly'
<1> DEFINE adu == Frame(q, tid')
           h == HeaderLength[backend]
<1>1. /\ backend \in Backends /\ tid \in Uint16 /\ toServer \in Seq(Byte)
      /\ ignoring \in BOOLEAN
  BY DEF TypeInv, TypeOK
<1>2. /\ IsRequest(q) /\ ~Refused(q) /\ tid' = NextTid(q) /\ pc = "idle" /\ pc' = "waiting"
      /\ request' = q /\ q \in asked' /\ UNCHANGED <<context, conn, toClient, server>>
  BY RequestsAssumption DEF Ask, Begin
<1>3. backend' = backend /\ conn' = conn /\ toClient' = toClient /\ ignoring' = ignoring
  BY <1>2 DEF context, server
<1>15. Frame(request, tid)' = adu
  BY <1>2, <1>3, Zenon DEF Frame
<1>4. conn = "up" /\ Quiet /\ toClient = <<>>
  BY <1>2, Zenon DEF Orderly, Asked, Quiet, Answered
<1>5. otherAsked = <<>> /\ Heard(backend, ignoring, toServer)
  BY <1>4, Zenon DEF Quiet
<1>6. /\ Complete(q)
      /\ backend = "rtu" => /\ q.fn \in Functions \cup {ReadExceptionStatus}
                            /\ q.unit \in {Unit, OtherUnit, BroadcastAddress}
                            /\ q.unit = OtherUnit => q.fn # ReadExceptionStatus
  BY <1>2, <1>3, Zenon DEF Measured
<1>7. tid' \in Uint16
  BY <1>1, <1>2, NextTidType
<1>8. /\ adu \in Seq(Byte) /\ Len(adu) >= h + 1 /\ adu[h] = q.unit /\ adu[h + 1] = q.fn
      /\ q.fn <= 7 \/ q.fn \in Functions => IsMessage("indication", backend, adu)
  BY <1>1, <1>2, <1>6, <1>7, FrameIs
<1> HIDE DEF adu
<1>9. /\ toServer' = toServer \o adu
      /\ otherAsked' = IF /\ backend = "rtu" /\ q.unit \in {OtherUnit, BroadcastAddress}
                           /\ Whole("indication", adu)
                       THEN Append(otherAsked, NextMessage("indication", adu)) ELSE otherAsked
  BY <1>4, Zenon DEF Ask, adu
<1>10. /\ q.fn \in Int /\ (q.raw => q.fn < 128) /\ (~q.raw => q.fn \in Functions)
       /\ q.fn \in Functions => q.fn < 128
       /\ q.fn \in Functions \cup {ReadExceptionStatus} => q.fn <= 7 \/ q.fn \in Functions
       /\ q.fn \in Functions => q.fn # ReadExceptionStatus
  <2>1. q.fn \in Int /\ q.raw \in BOOLEAN /\ (~q.raw => q.fn \in {1, 2, 3, 4, 5, 6, 15, 16, 17, 22, 23})
    BY <1>2, RequestIs, ByteIs
  <2>2. q.raw => q.fn < 128
    BY <1>6, Zenon DEF Complete
  <2> QED
    BY <2>1, <2>2, CodesAre
<1>11. q.fn < 128
  BY <1>2, <1>10, RequestIs
<1>12. <<>> \in Seq(Byte) /\ adu \o <<>> = adu
  BY <1>8, ConcatEmptySeq
<1>13. CASE backend = "rtu"
  <2>1. h = 1 /\ h + 1 = 2
    BY <1>13 DEF HeaderLength
  <2>2. adu[1] = q.unit /\ adu[2] = q.fn /\ IsMessage("indication", backend, adu)
    BY <1>6, <1>8, <1>10, <1>13, <2>1
  <2>3. Whole("indication", adu) /\ NextMessage("indication", adu) = adu
    <3>1. /\ Whole("indication", adu \o <<>>)
          /\ NextMessage("indication", adu \o <<>>) = adu
      BY <1>1, <1>12, <2>2, MessageFirst DEF Types
    <3> QED
      BY <1>12, <3>1, Zenon
  <2>4. otherAsked' = IF q.unit \in {OtherUnit, BroadcastAddress} THEN <<adu>> ELSE <<>>
    <3>1. Append(<<>>, adu) = <<adu>>
      OBVIOUS
    <3> QED
      BY <1>5, <1>9, <1>13, <2>3, <3>1, Zenon
  <2>5. CASE q.unit = OtherUnit
    <3>1. otherAsked' = <<adu>>
      BY <2>4, <2>5
    <3>2. OthersRequest(adu)
      BY <1>13, <2>2, <2>5, Zenon DEF OthersRequest
    <3>3. adu[2] < 128 /\ adu[2] # ReadExceptionStatus
      BY <1>6, <1>11, <1>13, <2>2, <2>5
    <3>5. ~Memory!Judged'
      BY <1>2, <2>5, UnitsAssumption DEF Memory!Judged
    <3>4. AskedOther'
      BY <1>3, <1>5, <1>9, <1>13, <3>1, <3>2, <3>3, <3>5, Zenon DEF AskedOther
    <3> QED
      BY <1>2, <1>3, <1>4, <1>13, <3>4, Zenon DEF Orderly, Asked
  <2>6. CASE q.unit \in {Unit, BroadcastAddress}
    <3>1. otherAsked' = <<>> \/ (otherAsked' = <<adu>> /\ adu[1] = BroadcastAddress)
      <4>1. Unit # OtherUnit
        BY UnitsAssumption
      <4> QED
        BY <2>2, <2>4, <2>6, <4>1, Zenon
    <3>2. adu[h + 1] < 128
      BY <1>8, <1>11
    <3>3. Answerable(adu, <<>>)
      BY <1>13, <2>2, <2>6, <3>2, Zenon DEF Answerable
    <3>4. PICK m, junk \in Seq(Byte) :
            /\ adu = m \o junk /\ Answerable(m, junk)
            /\ \/ otherAsked' = <<>>
               \/ otherAsked' = <<m>> /\ m[1] = BroadcastAddress
      BY <1>8, <1>12, <3>1, <3>3, Zenon
    <3>5. Answerable(m, junk)'
      BY <1>3, <3>4, Zenon DEF Answerable
    <3>6. AskedServer'
      BY <1>1, <1>3, <1>5, <1>9, <1>15, <3>4, <3>5, Zenon DEF AskedServer
    <3> QED
      BY <1>2, <1>3, <1>4, <3>6, Zenon DEF Orderly, Asked
  <2> QED
    BY <1>6, <1>13, <2>5, <2>6
<1>14. CASE backend = "tcp"
  <2>1. backend # "rtu" /\ h = 7 /\ h + 1 = 8
    BY <1>14 DEF HeaderLength
  <2>2. otherAsked' = <<>>
    BY <1>5, <1>9, <2>1, Zenon
  <2>3. adu[8] = q.fn /\ Len(adu) >= 8
    BY <1>8, <2>1
  <2>4. \E m, junk \in Seq(Byte) : adu = m \o junk /\ Answerable(m, junk)
    <3>1. CASE q.fn <= 7 \/ q.fn \in Functions
      <4>1. IsMessage("indication", backend, adu) /\ adu[h + 1] < 128
        BY <1>8, <1>11, <3>1
      <4>2. Answerable(adu, <<>>)
        BY <2>1, <4>1, Zenon DEF Answerable
      <4> QED
        BY <1>8, <1>12, <4>2, Zenon
    <3>2. CASE ~(q.fn <= 7) /\ q.fn \notin Functions
      <4>1. adu[8] > 7 /\ adu[8] \notin Functions
        BY <1>10, <2>3, <3>2
      <4>2. PICK m, junk \in Seq(Byte) :
              adu = m \o junk /\ IsMessage("indication", backend, m) /\ m[8] = adu[8]
        BY <1>8, <1>14, <2>3, <4>1, FrameBegins
      <4>3. m[8] < 128 /\ m[8] \notin Functions \cup {ReadExceptionStatus}
        BY <1>10, <1>11, <2>3, <3>2, <4>2, CodesAre
      <4>4. Answerable(m, junk)
        <5>1. m[h + 1] < 128 /\ m[h + 1] \notin Functions \cup {ReadExceptionStatus}
          BY <2>1, <4>3
        <5> QED
          BY <2>1, <4>2, <5>1, Zenon DEF Answerable
      <4> QED
        BY <4>2, <4>4, Zenon
    <3> QED
      BY <3>1, <3>2
  <2>5. PICK m, junk \in Seq(Byte) : adu = m \o junk /\ Answerable(m, junk)
    BY <2>4, Zenon
  <2>6. Answerable(m, junk)'
    BY <1>3, <2>5, Zenon DEF Answerable
  <2>7. AskedServer'
    BY <1>1, <1>3, <1>5, <1>9, <1>15, <2>2, <2>5, <2>6, Zenon DEF AskedServer
  <2> QED
    BY <1>2, <1>3, <1>4, <2>7, Zenon DEF Orderly, Asked
<1> QED
  BY <1>1, <1>13, <1>14 DEF Backends

\* and any call,
LEMMA CallsLeft == ASSUME TypeInv, Orderly, Calls, Measured' PROVE Orderly'
<1>1. ASSUME NEW q \in Requests, Refuse(q) PROVE Orderly'
  <2>1. pc = "idle" /\ pc' # "waiting" /\ conn = "up" /\ toClient' = toClient
        /\ UNCHANGED <<context, conn, toServer, server, otherAsked>>
    BY <1>1 DEF Refuse, Begin, Orderly
  <2>2. Quiet /\ toClient = <<>>
    BY <2>1, Zenon DEF Orderly, Asked, Quiet, Answered
  <2> QED
    BY <2>1, <2>2, ClientDone
<1>2. ASSUME NEW q \in Requests, Ask(q) PROVE Orderly'
  BY <1>2, AskLeft
<1>3. ASSUME NEW q \in Requests, AskFails(q) PROVE Orderly'
  BY <1>3 DEF AskFails, Orderly
<1> QED
  BY <1>1, <1>2, <1>3 DEF Calls

\* What a call waits for was sent, and is the same until it returns.
LEMMA NextSent == Sent /\ [Next]_vars => Sent'
<1> SUFFICES ASSUME Sent, [Next]_vars PROVE Sent'
  OBVIOUS
<1> USE DEF context, call, server
<1>1. \A q : Refused(q)' <=> Refused(q)
  BY DEF Refused
<1>2. ASSUME pc' = "waiting" => pc = "waiting" /\ request' = request /\ asked' = asked PROVE Sent'
  BY <1>1, <1>2 DEF Sent
<1>3. ASSUME NEW q \in Requests, Refuse(q) PROVE Sent'
  BY <1>3 DEF Refuse, Begin, Sent
<1>4. ASSUME NEW q \in Requests, Ask(q) \/ AskFails(q) PROVE Sent'
  BY <1>1, <1>4 DEF Ask, AskFails, Begin, Sent
<1>5. CASE ClientReceives
  BY <1>2, <1>5 DEF ClientReceives
<1>6. CASE ClientReceivesTooLong \/ ClientFindsEnd \/ Flush
  BY <1>2, <1>6 DEF ClientReceivesTooLong, ClientFindsEnd, Flush
<1>7. ASSUME NEW n \in 0 .. Len(toClient), ClientTimesOut(n) PROVE Sent'
  BY <1>2, <1>7 DEF ClientTimesOut
<1>8. CASE Server \/ Trouble
  BY <1>2, <1>8 DEF Server, Trouble, ServerIgnores, ServerPassesOver, ServerReplies, OtherAnswers,
    ServerGivesUp, ServerIsBusy, ServerCloses, LineFails
<1>9. CASE UNCHANGED vars
  BY <1>2, <1>9 DEF vars
<1> QED
  BY <1>3, <1>4, <1>5, <1>6, <1>7, <1>8, <1>9 DEF Next, Calls, Returns

\* and so every step keeps the invariant,
LEMMA NextLeft == LeftInv /\ [Next]_vars => LeftInv'
<1> SUFFICES ASSUME LeftInv, [Next]_vars PROVE LeftInv'
  OBVIOUS
<1>1. TypeInv /\ TypeInv' /\ faults \in Seq(Kinds) /\ Sent /\ Sent'
  BY NextTyped, NextSent DEF LeftInv
<1>2. ASSUME Next, Clean' PROVE Orderly'
  <2>1. Clean /\ faults' = faults /\ Orderly /\ Measured' /\ faults' = <<>>
    BY <1>1, <1>2, CleanBefore DEF LeftInv, Clean
  <2>2. CASE Calls
    BY <1>1, <2>1, <2>2, CallsLeft
  <2>3. CASE Returns
    BY <1>1, <2>1, <2>3, ReturnsLeft
  <2>4. CASE Server
    <3>1. CASE ServerStep
      BY <1>1, <2>1, <3>1, ServerLeft
    <3>2. CASE OtherAnswers
      BY <1>1, <2>1, <3>2, OtherAnswersLeft
    <3>3. ASSUME NEW n \in 0 .. Len(toServer), ServerGivesUp(n) PROVE FALSE
      BY <1>1, <2>1, <3>3, GivesUpLeft
    <3> QED
      BY <2>4, <3>1, <3>2, <3>3 DEF Server, ServerStep
  <2>5. CASE Trouble
    BY <1>1, <2>1, <2>5, NoFault DEF Trouble, ServerIsBusy, ServerCloses, LineFails
  <2> QED
    BY <1>2, <2>2, <2>3, <2>4, <2>5 DEF Next
<1>3. ASSUME UNCHANGED vars, Clean' PROVE Orderly'
  <2>1. /\ backend' = backend /\ pc' = pc /\ conn' = conn /\ toServer' = toServer
        /\ toClient' = toClient /\ ignoring' = ignoring /\ otherAsked' = otherAsked
        /\ asked' = asked /\ faults' = faults
    BY <1>3 DEF vars
  <2>7. Unserved
    BY <1>3 DEF vars, Unserved
  <2>8. /\ Memory!Judged' = Memory!Judged /\ Answered' = Answered
        /\ Frame(request, tid)' = Frame(request, tid)
    BY <2>7, Stays
  <2>2. Orderly
    <3>1. Clean
      BY <1>3, <2>1, Zenon DEF Clean, Measured
    <3> QED
      BY <3>1 DEF LeftInv
  <2>3. Quiet => Quiet'
    BY <2>1, <2>8, Zenon DEF Quiet
  <2>4. \A m, junk : Answerable(m, junk) => Answerable(m, junk)'
    BY <2>1, Zenon DEF Answerable
  <2>5. AskedServer => AskedServer'
    BY <2>1, <2>4, <2>8, Zenon DEF AskedServer
  <2>6. (BroadcastLeft => BroadcastLeft') /\ (AskedOther => AskedOther')
    BY <2>1, <2>8, Zenon DEF BroadcastLeft, AskedOther
  <2> QED
    BY <2>1, <2>2, <2>3, <2>5, <2>6, Zenon DEF Orderly, Asked
<1>4. faults' \in Seq(Kinds)
  <2>1. CASE Next
    BY <1>1, <2>1, CleanBefore
  <2>2. CASE UNCHANGED vars
    BY <1>1, <2>2 DEF vars
  <2> QED
    BY <2>1, <2>2
<1> QED
  BY <1>1, <1>2, <1>3, <1>4 DEF LeftInv

\* which holds at the start
LEMMA InitLeft == Init => LeftInv
<1> SUFFICES ASSUME Init PROVE LeftInv
  OBVIOUS
<1>1. TypeInv /\ faults \in Seq(Kinds)
  BY InitTyped DEF Init
<1>2. /\ conn = "up" /\ otherAsked = <<>> /\ toServer = <<>> /\ toClient = <<>>
      /\ ignoring = FALSE /\ pc # "waiting"
  BY DEF Init
<1>3. Heard(backend, FALSE, <<>>)
  BY NothingHeard, Zenon
<1>4. Orderly
  BY <1>2, <1>3, Zenon DEF Orderly, Quiet
<1> QED
  BY <1>1, <1>2, <1>4 DEF LeftInv, Sent

\* and says that nothing is left.
LEMMA LeftInvLeaves == LeftInv => NothingLeft
<1> SUFFICES ASSUME LeftInv, pc = "idle", faults = <<>>, ~ServerMayAct, Measured
             PROVE  toServer = <<>> /\ toClient = <<>>
  BY DEF NothingLeft
<1>1. TypeInv /\ Orderly
  BY DEF LeftInv, Clean
<1>2. Quiet /\ toServer = <<>>
  BY <1>1, MayAct
<1>3. pc # "waiting"
  OBVIOUS
<1> QED
  BY <1>2, <1>3, Zenon DEF Quiet, Answered

\* As long as nothing goes wrong, receivers take whole messages: whatever the client asks,
\* of whom and in which order, once everybody has read what there is to read, nothing is left.
THEOREM NothingIsLeft == Spec => []NothingLeft
<1>1. LeftInv /\ [Next]_vars => LeftInv'
  BY NextLeft
<1> QED
  BY <1>1, InitLeft, LeftInvLeaves, PTL DEF Spec
-----------------------------------------------------------------------------
\* The line is clean, and what is to be written is written by the functions made for it: a raw
\* request is no request of RemoteMemory.
Writes == Singles \cup Multiples \cup {MaskWriteRegister, WriteAndReadRegisters}
Untroubled == Clean /\ \A q \in asked : q.raw => q.fn \notin Writes

\* Nothing has gone wrong that could get worse.
LEMMA NothingWorsens == ASSUME Untroubled PROVE Memory!Worsens
<1>1. Clean /\ faults = <<>>
  BY DEF Untroubled, Clean
<1>2. Trusted
  <2>1. ToSet(faults) = {}
    BY <1>1 DEF ToSet
  <2> QED
    BY <2>1 DEF Trusted, Happened
<1> QED
  BY <1>1, <1>2 DEF Memory!Worsens

\* A request that only reads leaves the mapping as it is.
LEMMA OnlyRead ==
  ASSUME NEW b, NEW req, NEW map, IsMapping(map), NEW h, h = HeaderLength[b],
         req[h + 1] \notin Writes
  PROVE  Reply(req, b, map).mapping = map
<1> DEFINE name == BlockOf(req[h + 1])
           new == Reply(req, b, map).mapping
<1>1. Written(req, h, map[name]) = map[name]
  <2>1. req[h + 1] \notin {5, 6, 15, 16, 22, 23}
    BY CodesAre DEF Writes
  <2> QED
    BY <2>1, WrittenIs
<1>2. Put(map, name, map[name]) = map
  BY DEF IsMapping, Put
<1> HIDE DEF name
<1>3. /\ req[h + 1] \notin Functions => Reply(req, b, map).mapping = map
      /\ req[h + 1] \in Functions /\ ~Legal(req, h, map[name]) => Reply(req, b, map).mapping = map
      /\ req[h + 1] \in Functions /\ Legal(req, h, map[name])
         => Reply(req, b, map).mapping = Put(map, name, Written(req, h, map[name]))
  BY ReplyCases DEF name
<1> QED
  BY <1>1, <1>2, <1>3, Zenon

\* What the server carries out is the effect of what was asked.
LEMMA ServedRefines ==
  ASSUME TypeInv, Sent, Untroubled, pc = "waiting", Served
  PROVE  (\E q \in Requests : Memory!CarryOut(q)) \/ Memory!Nothing
<1> DEFINE h == HeaderLength[backend]
<1>1. PICK m, junk \in Seq(Byte) :
        /\ m \o junk = Frame(request, tid) /\ Answerable(m, junk)
        /\ mapping' = Reply(m, backend, mapping).mapping
        /\ UNCHANGED <<pc, request, asked, result>>
  BY Zenon DEF Served
<1>2. /\ backend \in Backends /\ IsMapping(mapping) /\ tid \in Uint16 /\ request \in Requests
      /\ IsRequest(request)
  BY RequestsAssumption DEF TypeInv, TypeOK
<1>3. request \in asked /\ ~Refused(request)
  BY DEF Sent
<1>4. pc' = pc /\ request' = request /\ asked' = asked /\ result' = result
  BY <1>1
<1>5. CASE ~request.raw
  <2>1. mapping' = Memory!Effect(request, mapping)
    <3> DEFINE reply == Reply(m, backend, mapping)
    <3>1. reply.mapping = Memory!Effect(request, mapping)
      BY <1>1, <1>5, RequestTaken
    <3> QED
      BY <1>1, <3>1
  <2>2. Memory!CarryOut(request)
    BY <1>3, <1>4, <2>1 DEF Memory!CarryOut
  <2> QED
    BY <1>2, <2>2
<1>6. CASE request.raw
  <2>1. request.fn \notin Writes /\ Complete(request)
    BY <1>3, <1>6, Zenon DEF Untroubled, Clean, Measured
  <2>2. /\ Frame(request, tid)[h + 1] = request.fn
        /\ Len(Frame(request, tid)) >= h + 1
    BY <1>2, <1>3, <2>1, FrameIs
  <2>3. h \in {1, 7} /\ Len(m) > h
    BY <1>1, <1>2, LengthsAre DEF Answerable, IsMessage
  <2>4. m[h + 1] = request.fn
    <3>1. h + 1 \in 1 .. Len(m)
      BY <2>3
    <3>2. (m \o junk)[h + 1] = m[h + 1]
      BY <3>1, TogetherLeft, Zenon
    <3> QED
      BY <1>1, <2>2, <3>2
  <2>5. mapping' = mapping
    BY <1>1, <1>2, <2>1, <2>4, OnlyRead
  <2> QED
    BY <1>4, <2>5 DEF Memory!Nothing
<1> QED
  BY <1>5, <1>6

\* An answer ends the call as RemoteMemory says.
LEMMA ReceivedRefines ==
  ASSUME TypeInv, Orderly, ClientReceives
  PROVE  Memory!Succeed \/ Memory!Fail
<1> DEFINE rsp == NextMessage("confirmation", toClient)
           length == Integrity(rsp, request.unit)
           verdict == IF request.raw THEN "raw"
                      ELSE Confirmation(Frame(request, tid), rsp, length, backend)
           values == IF request.raw THEN <<>> ELSE ValuesOf(request, rsp, backend)
           damaged == length = -1
           good == length >= 0 /\ verdict \in {"ok", "raw"}
           A == /\ pc' = "idle"
                /\ toClient' = IF recovery THEN <<>> ELSE Drop(toClient, Len(rsp))
                /\ Return("error", <<>>)
           B == /\ pc' = "idle"
                /\ toClient' = Drop(toClient, Len(rsp))
                /\ Return(verdict, values)
           C == Fails(Len(rsp), verdict = "bad")
           inRange == Memory!InRange(request, mapping[BlockOf(request.fn)])
           error == result' = [outcome |-> "error", values |-> <<>>] /\ pc' # "waiting"
           success == result' = [outcome |-> verdict, values |-> values] /\ pc' # "waiting"
<1>1. backend \in Backends /\ toClient \in Seq(Byte) /\ Whole("confirmation", toClient)
      /\ "confirmation" \in Types
  BY DEF TypeInv, TypeOK, ClientReceives, Types
<1>2. toClient # <<>>
  BY <1>1, NothingToTake, Zenon
<1>3. Answered
  BY <1>2, Zenon DEF Orderly, Asked, Quiet
<1>4. <<>> \in Seq(Byte) /\ toClient \o <<>> = toClient /\ Len(toClient) \in Nat
  BY <1>1, ConcatEmptySeq
<1>5. rsp = toClient
  <2>1. NextMessage("confirmation", toClient \o <<>>) = toClient
    BY <1>1, <1>3, <1>4, MessageFirst DEF Answered
  <2> QED
    BY <1>4, <2>1, Zenon
<1>6. (CASE damaged -> A [] good -> B [] OTHER -> C)
  BY Zenon DEF ClientReceives
<1>7. /\ pc = "waiting" /\ mapping' = mapping /\ request' = request /\ asked' = asked
  BY DEF ClientReceives, call, server
<1>8. (A => error) /\ (B => success) /\ (C => error)
  BY DEF Return, Fails
<1>9. Memory!Judged => /\ length = Len(toClient) /\ Memory!Effect(request, mapping) = mapping
                       /\ \/ inRange /\ verdict = "ok" /\ values = Memory!ValuesRead(request, mapping)
                          \/ ~inRange /\ verdict \notin {"ok", "raw"}
  <2> SUFFICES ASSUME Memory!Judged
               PROVE  /\ length = Len(toClient) /\ Memory!Effect(request, mapping) = mapping
                      /\ \/ inRange /\ verdict = "ok" /\ values = Memory!ValuesRead(request, mapping)
                         \/ ~inRange /\ verdict \notin {"ok", "raw"}
    OBVIOUS
  <2>1. ~request.raw
    BY DEF Memory!Judged
  <2>2. AnswerFor(request, tid, mapping, toClient)
    BY <1>3 DEF Answered
  <2> QED
    BY <1>5, <2>1, <2>2, Zenon DEF AnswerFor
<1>10. damaged => ~(length \in Nat)
  OBVIOUS
<1>11. length \in Nat => length >= 0
  OBVIOUS
<1>12. Memory!BlockOf(request.fn) = BlockOf(request.fn)
  BY SameOperators
<1> HIDE DEF A, B, C, damaged, good, rsp, length, verdict, values, inRange, error, success
<1>13. ASSUME error, Memory!Judged => ~inRange PROVE Memory!Fail
  BY <1>7, <1>12, <1>13 DEF Memory!Fail, Memory!Error, error, inRange
<1>14. ASSUME success, verdict \in {"ok", "raw"},
              Memory!Judged => inRange /\ values = Memory!ValuesRead(request, mapping)
       PROVE  Memory!Succeed
  BY <1>7, <1>9, <1>12, <1>14 DEF Memory!Succeed, success, inRange
<1>15. CASE Memory!Judged
  <2>1. length \in Nat /\ ~damaged
    BY <1>4, <1>9, <1>10, <1>15, Zenon
  <2>2. CASE inRange
    <3>1. verdict = "ok" /\ good /\ values = Memory!ValuesRead(request, mapping)
      BY <1>9, <1>11, <1>15, <2>1, <2>2 DEF good
    <3>2. success
      BY <1>6, <1>8, <2>1, <3>1, Zenon
    <3> QED
      BY <1>14, <2>2, <3>1, <3>2
  <2>3. CASE ~inRange
    <3>1. ~good
      BY <1>9, <1>15, <2>3 DEF good
    <3>2. error
      BY <1>6, <1>8, <2>1, <3>1, Zenon
    <3> QED
      BY <1>13, <2>3, <3>2
  <2> QED
    BY <2>2, <2>3
<1>16. CASE ~Memory!Judged
  <2>1. error \/ (success /\ verdict \in {"ok", "raw"})
    <3>1. good => verdict \in {"ok", "raw"}
      BY DEF good
    <3>2. \/ A \/ (good /\ B) \/ C
      BY <1>6, Zenon
    <3> QED
      BY <1>8, <3>1, <3>2, Zenon
  <2> QED
    BY <1>13, <1>14, <1>16, <2>1
<1> QED
  BY <1>15, <1>16

\* An answer is a whole message, and not too long.
LEMMA AnswerFits ==
  ASSUME TypeInv, Orderly
  PROVE  /\ ~TooLong("confirmation", backend, toClient)
         /\ Answered => Whole("confirmation", toClient)
<1>1. backend \in Backends /\ toClient \in Seq(Byte) /\ "confirmation" \in Types
  BY DEF TypeInv, TypeOK, Types
<1>2. toClient = <<>> \/ Answered
  BY Zenon DEF Orderly, Quiet, Asked
<1>3. <<>> \in Seq(Byte) /\ toClient \o <<>> = toClient
  BY <1>1, ConcatEmptySeq
<1>4. ASSUME Answered
      PROVE  Whole("confirmation", toClient) /\ ~TooLong("confirmation", backend, toClient)
  <2>1. /\ Whole("confirmation", toClient \o <<>>)
        /\ ~TooLong("confirmation", backend, toClient \o <<>>)
    BY <1>1, <1>3, <1>4, MessageFirst DEF Answered
  <2> QED
    BY <1>3, <2>1, Zenon
<1> QED
  BY <1>1, <1>2, <1>4, NothingToTake, Zenon

\* A step on a clean line is one of RemoteMemory.
LEMMA StepRefines ==
  ASSUME LeftInv, Untroubled, Untroubled', [Next]_vars
  PROVE  Memory!Next
<1> DEFINE Step == \/ \E q \in Requests : Memory!Ask(q) \/ Memory!Refuse(q) \/ Memory!CarryOut(q)
                   \/ Memory!Succeed \/ Memory!Fail \/ Memory!Nothing
<1>0. /\ \A q \in Requests : Memory!Ask(q) \/ Memory!Refuse(q) \/ Memory!CarryOut(q) => Step
      /\ Memory!Succeed => Step
      /\ Memory!Fail => Step
      /\ Memory!Nothing => Step
  BY Zenon
<1> SUFFICES Step
  BY NothingWorsens, Zenon DEF Memory!Next
<1> HIDE DEF Step
<1>1. TypeInv /\ Sent /\ Orderly /\ faults = <<>> /\ faults' = faults /\ faults \in Seq(Kinds)
  BY DEF LeftInv, Untroubled, Clean
<1>2. conn = "up"
  BY <1>1 DEF Orderly
<1>3. ASSUME NEW q \in Requests, Refuse(q) PROVE Step
  <2>1. Memory!Refused(q) /\ UNCHANGED <<mapping, pc, asked>> /\ pc = "idle" /\ request' = q
        /\ result' = [outcome |-> "error", values |-> <<>>]
    BY <1>3, SameOperators DEF Refuse, Begin, Return, server
  <2>2. Memory!Refuse(q)
    BY <2>1 DEF Memory!Refuse, Memory!Error
  <2> QED
    BY <1>0, <2>2, Zenon
<1>4. ASSUME NEW q \in Requests, Ask(q) PROVE Step
  <2>1. pc = "idle" /\ request' = q /\ asked' = asked \cup {q} /\ pc' = "waiting"
        /\ UNCHANGED <<mapping, result>>
    BY <1>4 DEF Ask, Begin, server
  <2>2. Memory!Ask(q)
    BY <2>1 DEF Memory!Ask
  <2> QED
    BY <1>0, <2>2, Zenon
<1>5. ASSUME NEW q \in Requests, AskFails(q) PROVE Step
  BY <1>2, <1>5 DEF AskFails
<1>6. CASE ClientReceives
  BY <1>0, <1>1, <1>6, ReceivedRefines, Zenon
<1>7. CASE ClientReceivesTooLong
  <2>1. TooLong("confirmation", backend, toClient)
    BY <1>7, Zenon DEF ClientReceivesTooLong
  <2>2. ~TooLong("confirmation", backend, toClient)
    BY <1>1, AnswerFits
  <2> QED
    BY <2>1, <2>2
<1>8. CASE ClientFindsEnd
  BY <1>2, <1>8 DEF ClientFindsEnd
<1>9. CASE Flush
  <2>1. pc # "waiting" /\ pc' # "waiting" /\ UNCHANGED <<mapping, request, asked, result>>
    BY <1>9 DEF Flush, server, call
  <2>2. Memory!Nothing
    BY <2>1 DEF Memory!Nothing
  <2> QED
    BY <1>0, <2>2, Zenon
<1>10. ASSUME NEW n \in 0 .. Len(toClient), ClientTimesOut(n) PROVE Step
  <2>1. n = Len(toClient) /\ ~ServerMayAct
    BY <1>1, <1>10, NoFault, Zenon DEF ClientTimesOut
  <2>2. Quiet /\ toClient \in Seq(Byte)
    BY <1>1, <2>1, MayAct DEF TypeInv, TypeOK
  <2>3. SubSeq(toClient, 1, n) = toClient
    BY <2>1, <2>2
  <2>4. ~Whole("confirmation", toClient) /\ pc = "waiting"
    BY <1>10, <2>3, Zenon DEF ClientTimesOut
  <2>5. ~Memory!Judged
    <3>1. ~Answered
      BY <1>1, <2>4, AnswerFits
    <3> QED
      BY <2>2, <2>4, <3>1, Zenon DEF Quiet
  <2>6. /\ pc' # "waiting" /\ UNCHANGED <<mapping, request, asked>>
        /\ result' = [outcome |-> "error", values |-> <<>>]
    BY <1>10 DEF ClientTimesOut, Fails, Return, server, call
  <2>7. Memory!Fail
    BY <2>4, <2>5, <2>6 DEF Memory!Fail, Memory!Error
  <2> QED
    BY <1>0, <2>7, Zenon
<1>11. ASSUME Unserved PROVE Step
  <2>1. Memory!Nothing
    BY <1>11 DEF Unserved, Memory!Nothing
  <2> QED
    BY <1>0, <2>1, Zenon
<1>12. CASE ServerStep
  <2>1. Unserved \/ Served
    BY <1>1, <1>12, ServerLeft
  <2>2. ASSUME Served, ~Unserved PROVE pc = "waiting"
    BY <1>1, <1>12, <2>2, QuietServed DEF Orderly, Asked
  <2> QED
    BY <1>0, <1>1, <1>11, <2>1, <2>2, ServedRefines, Zenon
<1>13. CASE OtherAnswers
  <2>1. UNCHANGED <<mapping, pc, request, asked, result>>
    BY <1>13 DEF OtherAnswers, call, server
  <2>2. Memory!Nothing
    BY <2>1 DEF Memory!Nothing
  <2> QED
    BY <1>0, <2>2, Zenon
<1>14. ASSUME NEW n \in 0 .. Len(toServer), ServerGivesUp(n) PROVE FALSE
  BY <1>1, <1>14, GivesUpLeft
<1>15. ~Trouble
  BY <1>1, NoFault DEF Trouble, ServerIsBusy, ServerCloses, LineFails
<1>16. ASSUME UNCHANGED vars PROVE Step
  <2>1. Unserved
    BY <1>16 DEF vars, Unserved
  <2> QED
    BY <2>1, <1>11
<1> QED
  BY <1>3, <1>4, <1>5, <1>6, <1>7, <1>8, <1>9, <1>10, <1>12, <1>13, <1>14, <1>15, <1>16
     DEF Next, Calls, Returns, Server, ServerStep

\* It begins as RemoteMemory does.
LEMMA InitRefines == Init => Memory!Init
<1> SUFFICES ASSUME Init PROVE Memory!Init
  OBVIOUS
<1>1. /\ mapping = InitialMapping /\ pc = "idle" /\ request \in Requests /\ asked = {}
      /\ result = [outcome |-> "none", values |-> <<>>] /\ faults = <<>>
  BY DEF Init, Pending
<1>2. Clean
  BY <1>1 DEF Clean, Measured
<1>3. Trusted
  <2>1. ToSet(faults) = {}
    BY <1>1 DEF ToSet
  <2> QED
    BY <2>1 DEF Trusted, Happened
<1>4. Clean = TRUE /\ Trusted = TRUE /\ (pc = "waiting") = FALSE
  BY <1>1, <1>2, <1>3 DEF Clean, Trusted
<1> QED
  BY <1>1, <1>4 DEF Memory!Init, Memory!Pending

\* What is untroubled after a step was so before it.
LEMMA UntroubledBefore == ASSUME LeftInv, Next, Untroubled' PROVE Untroubled
<1>1. Clean' /\ asked \subseteq asked'
  BY Grows DEF Untroubled
<1>2. Clean
  BY <1>1, CleanBefore DEF LeftInv
<1> QED
  BY <1>1, <1>2, Zenon DEF Untroubled

\* As long as nothing has gone wrong on the line, and no raw request was to write, every step
\* keeps the promises of RemoteMemory, whatever goes wrong later: a call that succeeds tells
\* what the memory holds, a call that fails asked for what the memory does not have, and the
\* memory changes by what was asked and by nothing else.
THEOREM PromisesKeptUntilTrouble ==
  Spec => Memory!Init /\ [][Untroubled' => [Memory!Next]_(Memory!vars)]_vars
<1>1. LeftInv /\ [Next]_vars => LeftInv'
  BY NextLeft
<1>2. LeftInv /\ [Next]_vars => [Untroubled' => [Memory!Next]_(Memory!vars)]_vars
  BY StepRefines, UntroubledBefore
<1> QED
  BY <1>1, <1>2, InitLeft, InitRefines, PTL DEF Spec

\* On a line on which nothing ever goes wrong, libmodbus implements RemoteMemory.
THEOREM PromisesKept == Spec /\ []Untroubled => MemorySpec
<1>1. LeftInv /\ [Next]_vars => LeftInv'
  BY NextLeft
<1>2. LeftInv /\ Untroubled /\ Untroubled' /\ [Next]_vars => [Memory!Next]_(Memory!vars)
  BY StepRefines
<1> QED
  BY <1>1, <1>2, InitLeft, InitRefines, PTL DEF Spec, MemorySpec, Memory!Spec
=============================================================================
