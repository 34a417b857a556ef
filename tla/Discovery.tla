----------------------------- MODULE Discovery -----------------------------
(***************************************************************************)
(* Dtu::populateMicroinverters, the scan that the constructor of Dtu runs   *)
(* once over the register map of the DTU to find the microinverters and     *)
(* their ports (src/src/hoymiles/dtu.cpp).                                  *)
(*                                                                         *)
(* A slot is a block of 0x19 registers; slot k starts at register           *)
(* 0x4000 + 0x19 * k, and every address of the code is written here as its  *)
(* slot number.  A read either fills the buffer `registers' with the slot   *)
(* or fails (modbus_read_registers returns -1) and leaves it as it was.     *)
(***************************************************************************)
EXTENDS Integers, Sequences

CONSTANTS NumSlots,     \* slots scanned (100 in the code)
          MaxTries,     \* reads of one slot before it is given up (3)
          Labels,       \* microinverters as the registers name them
          PortNumbers,  \* port numbers the registers may hold
          Serials,      \* serial numbers as the client decodes them
          Decode,       \* the serial decoded from a label, or Unparsable
          Unparsable,   \* std::stoll throws: no leading decimal digit
          NoPort,       \* a slot whose first register is not 12
          Unread        \* the buffer before the first successful read

ASSUME SlotsAssumption == NumSlots \in Nat /\ MaxTries \in Nat \ {0}
ASSUME DecodeAssumption == Decode \in [Labels -> Serials \cup {Unparsable}]
ASSUME NoPortAssumption ==
  /\ NoPort \notin [label : Labels, port : PortNumbers]
  /\ Unread \notin [label : Labels, port : PortNumbers]
  /\ Unparsable \notin Serials

VARIABLES
  dtuMap,           \* what the DTU holds in each slot; constant during a scan
  portStartAddress, \* slot the loop is at
  registers,        \* the read buffer: the last slot read
  registerCount,    \* result of the last read of this slot, -1 for none
  timesTried,       \* reads of this slot so far
  lastSuccesful,    \* no slot has been refused
  addressToSkip,    \* slot the backtracking branch wants skipped, -1 for none
  microinverters,   \* the inventory, in the order of discovery
  pc,               \* "scan", "done", or "aborted" by an uncaught exception
  taken             \* history: slots taken into the inventory

vars == <<dtuMap, portStartAddress, registers, registerCount, timesTried,
          lastSuccesful, addressToSkip, microinverters, pc, taken>>

RegistersToRead == 19
PortSlots == [label : Labels, port : PortNumbers]
SlotNumbers == 0 .. NumSlots - 1

Ports == [number : PortNumbers, start : Nat]
Microinverters == [serial : Serials, start : Nat, ports : Seq(Ports)]
-----------------------------------------------------------------------------
Init ==
  /\ dtuMap \in [SlotNumbers -> PortSlots \cup {NoPort}]
  /\ portStartAddress = 0
  /\ registers = Unread
  /\ registerCount = -1
  /\ timesTried = 0
  /\ lastSuccesful = TRUE
  /\ addressToSkip = -1
  /\ microinverters = <<>>
  /\ pc = "scan"
  /\ taken = 0

\* Mutant: one read too many.
WorthAReadOffByOne ==
  /\ timesTried <= MaxTries
  /\ lastSuccesful
  /\ registerCount = -1
  /\ portStartAddress # addressToSkip

\* Mutant: a refusal does not stop the reading.
WorthAReadAfterRefusal ==
  /\ timesTried < MaxTries
  /\ registerCount = -1
  /\ portStartAddress # addressToSkip

\* The condition of the inner loop: this slot is still worth a read.
WorthARead ==
  /\ timesTried < MaxTries
  /\ lastSuccesful
  /\ registerCount = -1
  /\ portStartAddress # addressToSkip

ReadSlot ==
  /\ pc = "scan"
  /\ portStartAddress < NumSlots
  /\ WorthARead
  /\ timesTried' = timesTried + 1
  /\ \/ /\ registers' = dtuMap[portStartAddress]
        /\ registerCount' = RegistersToRead
     \/ UNCHANGED <<registers, registerCount>>
  /\ UNCHANGED <<dtuMap, portStartAddress, lastSuccesful, addressToSkip,
                 microinverters, pc, taken>>

\* Dtu::getMicroinverterBySerialNumber
Known(inventory, serial) ==
  \E i \in DOMAIN inventory : inventory[i].serial = serial

\* Mutant: the lookup by serial is forgotten.
WithMicroinverterTwice(inventory, serial, start) ==
  Append(inventory, [serial |-> serial, start |-> start, ports |-> <<>>])

\* Mutant: the microinverter keeps the address the slot was read from.
WithMicroinverterUnshifted(inventory, serial, start) ==
  IF Known(inventory, serial)
  THEN inventory
  ELSE Append(inventory, [serial |-> serial, start |-> start - 1, ports |-> <<>>])

\* A microinverter enters the inventory with its first port.
WithMicroinverter(inventory, serial, start) ==
  IF Known(inventory, serial)
  THEN inventory
  ELSE Append(inventory, [serial |-> serial, start |-> start, ports |-> <<>>])

\* Mutant: the port goes to the front of the list.
WithPortInFront(inventory, serial, number, start) ==
  [i \in DOMAIN inventory |->
     IF /\ inventory[i].serial = serial
        /\ \A p \in DOMAIN inventory[i].ports : inventory[i].ports[p].number # number
     THEN [inventory[i] EXCEPT !.ports = <<[number |-> number, start |-> start]>> \o @]
     ELSE inventory[i]]

\* A port number a microinverter already has is not added again.
WithPort(inventory, serial, number, start) ==
  [i \in DOMAIN inventory |->
     IF /\ inventory[i].serial = serial
        /\ \A p \in DOMAIN inventory[i].ports : inventory[i].ports[p].number # number
     THEN [inventory[i] EXCEPT !.ports = Append(@, [number |-> number, start |-> start])]
     ELSE inventory[i]]

\* Mutant: the result of the read is not looked at, only the buffer.
SlotHoldsPortFromBuffer(next) ==
  /\ registers \in PortSlots
  /\ next # addressToSkip

\* The condition under which the slot just visited is taken.
SlotHoldsPort(next) ==
  /\ registers \in PortSlots
  /\ registerCount # -1
  /\ next # addressToSkip

NextSlot == /\ registerCount' = -1
            /\ timesTried' = 0
            /\ UNCHANGED <<dtuMap, registers>>

\* The branch that puts the slot into the inventory.  The address was already
\* advanced, so that the port is filed under the slot AFTER the one it was read
\* from.  A serial that cannot be parsed leaves the constructor by an exception.
TakeSlot ==
  LET next == portStartAddress + 1
      start == IF lastSuccesful THEN next ELSE next - 2
      serial == Decode[registers.label]
  IN /\ pc = "scan"
     /\ portStartAddress < NumSlots
     /\ ~WorthARead
     /\ SlotHoldsPort(next)
     /\ addressToSkip' = IF lastSuccesful THEN addressToSkip ELSE next
     /\ portStartAddress' = start
     /\ lastSuccesful' = TRUE
     /\ IF serial = Unparsable
        THEN pc' = "aborted" /\ UNCHANGED <<microinverters, taken>>
        ELSE /\ microinverters' = WithPort(WithMicroinverter(microinverters, serial, start),
                                           serial, registers.port, start)
             /\ taken' = taken + 1
             /\ UNCHANGED pc
     /\ NextSlot

\* Mutant: the address is advanced only when the slot is taken.
RefuseSlotInPlace ==
  /\ pc = "scan"
  /\ portStartAddress < NumSlots
  /\ ~WorthARead
  /\ ~SlotHoldsPort(portStartAddress + 1)
  /\ lastSuccesful' = FALSE
  /\ NextSlot
  /\ UNCHANGED <<portStartAddress, addressToSkip, microinverters, pc, taken>>

\* The other branch: no answer after MaxTries reads, or no port in the slot.
RefuseSlot ==
  /\ pc = "scan"
  /\ portStartAddress < NumSlots
  /\ ~WorthARead
  /\ ~SlotHoldsPort(portStartAddress + 1)
  /\ portStartAddress' = portStartAddress + 1
  /\ lastSuccesful' = FALSE
  /\ NextSlot
  /\ UNCHANGED <<addressToSkip, microinverters, pc, taken>>

EndScan ==
  /\ pc = "scan"
  /\ portStartAddress >= NumSlots
  /\ pc' = "done"
  /\ UNCHANGED <<dtuMap, portStartAddress, registers, registerCount, timesTried,
                 lastSuccesful, addressToSkip, microinverters, taken>>

Next == ReadSlot \/ TakeSlot \/ RefuseSlot \/ EndScan

Spec == Init /\ [][Next]_vars

\* The scan is a plain loop of the constructor: it goes on while it can.
FairSpec == Spec /\ WF_vars(Next)
-----------------------------------------------------------------------------
TypeOK ==
  /\ dtuMap \in [SlotNumbers -> PortSlots \cup {NoPort}]
  /\ portStartAddress \in Nat
  /\ registers \in PortSlots \cup {NoPort, Unread}
  /\ registerCount \in {-1, RegistersToRead}
  /\ timesTried \in 0 .. MaxTries
  /\ lastSuccesful \in BOOLEAN
  /\ addressToSkip \in {-1} \cup Nat
  /\ microinverters \in Seq(Microinverters)
  /\ pc \in {"scan", "done", "aborted"}
  /\ taken \in Nat

\* The branch of populateMicroinverters that steps back over a refused slot
\* (dtu.cpp:83-86) is never entered: nothing is read after a refusal, so no slot
\* can be found again, and addressToSkip keeps its initial value.
BacktrackUnreachable == addressToSkip = -1 /\ (~lastSuccesful => registerCount = -1)

\* Once a slot is refused, the scan reads nothing more and the inventory is final,
\* although up to 99 slots are still walked over (the recovery the branch at
\* dtu.cpp:83 was written for never happens).
NothingAfterRefusal ==
  [][~lastSuccesful => UNCHANGED <<microinverters, registers, lastSuccesful>>]_vars

\* One entry per serial number, and one port per port number in an entry:
\* the lookups by serial of the whole program find the only candidate.
EntriesUnique ==
  \A i, j \in DOMAIN microinverters :
    /\ microinverters[i].serial = microinverters[j].serial => i = j
    /\ \A p, q \in DOMAIN microinverters[i].ports :
         microinverters[i].ports[p].number = microinverters[i].ports[q].number => p = q

\* The (serial, port number) pairs of the inventory.
InventoryPairs ==
  UNION {{<<microinverters[i].serial, microinverters[i].ports[p].number>> :
            p \in DOMAIN microinverters[i].ports} : i \in DOMAIN microinverters}

\* Every microinverter found has a first port, and polls (startAddress) and
\* whole-unit writes (first port's address) start from the same slot.
FirstPortAnchors ==
  \A i \in DOMAIN microinverters :
    /\ microinverters[i].ports # <<>>
    /\ microinverters[i].start = microinverters[i].ports[1].start

\* The slots of a microinverter follow each other and repeat no port.
Grouped ==
  \A j, k \in SlotNumbers : (j < k /\ dtuMap[j] \in PortSlots) =>
    /\ dtuMap[j] # dtuMap[k]
    /\ (dtuMap[k] \in PortSlots /\ Decode[dtuMap[j].label] = Decode[dtuMap[k].label]) =>
         \A m \in j .. k : /\ dtuMap[m] \in PortSlots
                           /\ Decode[dtuMap[m].label] = Decode[dtuMap[j].label]
                           /\ m # j => dtuMap[m].port # dtuMap[j].port

\* Microinverter::updateParameters reads port i at startAddress + 0x19 * i,
\* without looking at the address the port is filed under: the two agree when the
\* DTU lists each microinverter's ports in one run.  Both are one slot past the
\* port's own registers (dtu.cpp:81).
ContiguousPorts ==
  Grouped => \A i \in DOMAIN microinverters : \A p \in DOMAIN microinverters[i].ports :
               microinverters[i].ports[p].start = microinverters[i].start + p - 1

\* The scan ends, whatever the DTU answers.
ScanEnds == <>(pc # "scan")

\* What the register map holds of ports, as the client decodes it.
PairsOf(map) ==
  [k \in {j \in SlotNumbers : map[j] \in PortSlots /\ Decode[map[j].label] # Unparsable} |->
     <<Decode[map[k].label], map[k].port>>]

\* The scan implements the abstract prefix discovery: each step takes the pair of the
\* next slot, and of no other, or closes the inventory for good; a buffer that a
\* failed read leaves filled with an older slot is never filed (dtu.cpp:68-113).
Prefix == INSTANCE PrefixDiscovery
            WITH slots <- PairsOf(dtuMap), pairs <- InventoryPairs, open <- lastSuccesful
PrefixSpec == Prefix!Spec
=============================================================================
