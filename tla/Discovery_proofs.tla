-------------------------- MODULE Discovery_proofs --------------------------
(* Theorems about the start-up scan of the register map. *)
EXTENDS Discovery, TLAPS

(* A refused slot leaves registerCount at -1 for every slot that follows, so   *)
(* the backtracking branch of populateMicroinverters (dtu.cpp:83-86) is dead:  *)
(* for every register map, number of slots and pattern of failed reads.        *)
THEOREM BacktrackNeverTaken == Spec => []BacktrackUnreachable
<1>1. Init => BacktrackUnreachable
  BY DEF Init, BacktrackUnreachable
<1>2. BacktrackUnreachable /\ [Next]_vars => BacktrackUnreachable'
  <2> SUFFICES ASSUME BacktrackUnreachable, [Next]_vars
               PROVE  BacktrackUnreachable'
    OBVIOUS
  <2>1. CASE ReadSlot
    BY <2>1 DEF BacktrackUnreachable, ReadSlot, WorthARead
  <2>2. CASE TakeSlot
    BY <2>2 DEF BacktrackUnreachable, TakeSlot, SlotHoldsPort, NextSlot
  <2>3. CASE RefuseSlot
    BY <2>3 DEF BacktrackUnreachable, RefuseSlot, NextSlot
  <2>4. CASE EndScan
    BY <2>4 DEF BacktrackUnreachable, EndScan
  <2>5. CASE UNCHANGED vars
    BY <2>5 DEF BacktrackUnreachable, vars
  <2> QED
    BY <2>1, <2>2, <2>3, <2>4, <2>5 DEF Next
<1> QED
  BY <1>1, <1>2, PTL DEF Spec

-----------------------------------------------------------------------------
(* The two helpers that file a port keep the inventory well formed.          *)
LEMMA FilingTyped ==
  ASSUME NEW inventory \in Seq(Microinverters),
         NEW serial \in Serials, NEW number \in PortNumbers, NEW start \in Nat
  PROVE  /\ WithMicroinverter(inventory, serial, start) \in Seq(Microinverters)
         /\ WithPort(inventory, serial, number, start) \in Seq(Microinverters)
<1>1. WithMicroinverter(inventory, serial, start) \in Seq(Microinverters)
  <2>1. <<>> \in Seq(Ports)
    OBVIOUS
  <2>2. [serial |-> serial, start |-> start, ports |-> <<>>] \in Microinverters
    BY <2>1 DEF Microinverters
  <2> QED
    BY <2>2 DEF WithMicroinverter
<1>2. WithPort(inventory, serial, number, start) \in Seq(Microinverters)
  <2>1. [number |-> number, start |-> start] \in Ports
    BY DEF Ports
  <2>2. ASSUME NEW mi \in Microinverters
        PROVE  [mi EXCEPT !.ports = Append(@, [number |-> number, start |-> start])]
                 \in Microinverters
    <3>1. Append(mi.ports, [number |-> number, start |-> start]) \in Seq(Ports)
      BY <2>1 DEF Microinverters
    <3> QED
      BY <3>1 DEF Microinverters
  <2>3. ASSUME NEW i \in DOMAIN inventory
        PROVE  WithPort(inventory, serial, number, start)[i] \in Microinverters
    BY <2>2, <2>3 DEF WithPort
  <2>4. /\ DOMAIN inventory = 1 .. Len(inventory)
        /\ DOMAIN WithPort(inventory, serial, number, start) = 1 .. Len(inventory)
    BY DEF WithPort
  <2>5. WithPort(inventory, serial, number, start) \in [1 .. Len(inventory) -> Microinverters]
    BY <2>3, <2>4 DEF WithPort
  <2> QED
    BY <2>5
<1> QED
  BY <1>1, <1>2

(* Type correctness of the scan.  It rests on the dead backtracking branch: a  *)
(* step back over two slots would make the first address negative.             *)
THEOREM TypeCorrect == Spec => []TypeOK
<1> USE SlotsAssumption, DecodeAssumption, NoPortAssumption
<1>1. Init => TypeOK
  <2> SUFFICES ASSUME Init PROVE TypeOK
    OBVIOUS
  <2>1. microinverters \in Seq(Microinverters)
    BY DEF Init
  <2> QED
    BY <2>1 DEF Init, TypeOK
<1>2. TypeOK /\ BacktrackUnreachable /\ [Next]_vars => TypeOK'
  <2> SUFFICES ASSUME TypeOK, BacktrackUnreachable, [Next]_vars
               PROVE  TypeOK'
    OBVIOUS
  <2>1. CASE ReadSlot
    <3>1. portStartAddress \in SlotNumbers
      BY <2>1 DEF ReadSlot, TypeOK, SlotNumbers
    <3>2. registers' \in PortSlots \cup {NoPort, Unread}
      BY <2>1, <3>1 DEF ReadSlot, TypeOK
    <3>3. registerCount' \in {-1, RegistersToRead}
      BY <2>1 DEF ReadSlot, TypeOK
    <3>4. timesTried' \in 0 .. MaxTries
      BY <2>1 DEF ReadSlot, TypeOK, WorthARead
    <3> QED
      BY <2>1, <3>2, <3>3, <3>4 DEF ReadSlot, TypeOK
  <2>2. CASE TakeSlot
    <3>1. lastSuccesful /\ registers \in PortSlots
      BY <2>2 DEF TakeSlot, SlotHoldsPort, BacktrackUnreachable
    <3>2. portStartAddress' = portStartAddress + 1 /\ portStartAddress' \in Nat
      BY <2>2, <3>1 DEF TakeSlot, TypeOK
    <3>3. registers.label \in Labels /\ registers.port \in PortNumbers
      BY <3>1 DEF PortSlots
    <3>4. /\ microinverters' \in Seq(Microinverters)
          /\ pc' \in {"scan", "done", "aborted"}
          /\ taken' \in Nat
      <4>1. CASE Decode[registers.label] = Unparsable
        BY <2>2, <4>1 DEF TakeSlot, TypeOK
      <4>2. CASE Decode[registers.label] # Unparsable
        <5>0. portStartAddress + 1 \in Nat
          BY <3>2
        <5>1. Decode[registers.label] \in Serials
          BY <3>3, <4>2
        <5>2. WithMicroinverter(microinverters, Decode[registers.label], portStartAddress + 1)
                \in Seq(Microinverters)
          BY <3>3, <5>0, <5>1, FilingTyped DEF TypeOK
        <5>3. WithPort(WithMicroinverter(microinverters, Decode[registers.label],
                                         portStartAddress + 1),
                       Decode[registers.label], registers.port, portStartAddress + 1)
                \in Seq(Microinverters)
          <6> HIDE DEF TypeOK, WithPort, WithMicroinverter
          <6> QED BY <5>0, <5>1, <5>2, FilingTyped, <3>3
        <5> QED
          BY <2>2, <3>1, <4>2, <5>3 DEF TakeSlot, TypeOK
      <4> QED
        BY <4>1, <4>2
    <3> QED
      BY <2>2, <3>1, <3>2, <3>4 DEF TakeSlot, NextSlot, TypeOK
  <2>3. CASE RefuseSlot
    <3>1. portStartAddress' \in Nat
      BY <2>3 DEF RefuseSlot, TypeOK
    <3>2. /\ timesTried' \in 0 .. MaxTries
          /\ registerCount' \in {-1, RegistersToRead}
          /\ UNCHANGED <<dtuMap, registers>>
      BY <2>3 DEF RefuseSlot, NextSlot
    <3> QED
      BY <2>3, <3>1, <3>2 DEF RefuseSlot, TypeOK
  <2>4. CASE EndScan
    BY <2>4 DEF EndScan, TypeOK
  <2>5. CASE UNCHANGED vars
    BY <2>5 DEF TypeOK, vars
  <2> QED
    BY <2>1, <2>2, <2>3, <2>4, <2>5 DEF Next
<1> QED
  BY <1>1, <1>2, BacktrackNeverTaken, PTL DEF Spec

(* Nothing is read, and nothing enters the inventory, after the first refusal.  *)
THEOREM RefusalIsFinal == Spec => NothingAfterRefusal
<1>1. TypeOK /\ BacktrackUnreachable /\ [Next]_vars =>
        [~lastSuccesful => UNCHANGED <<microinverters, registers, lastSuccesful>>]_vars
  <2> SUFFICES ASSUME TypeOK, BacktrackUnreachable, Next, ~lastSuccesful
               PROVE  UNCHANGED <<microinverters, registers, lastSuccesful>>
    OBVIOUS
  <2>1. ~ReadSlot
    BY DEF ReadSlot, WorthARead
  <2>2. ~TakeSlot
    BY DEF TakeSlot, SlotHoldsPort, BacktrackUnreachable
  <2>3. CASE RefuseSlot
    <3>1. lastSuccesful = FALSE
      BY DEF TypeOK
    <3> QED
      BY <2>3, <3>1 DEF RefuseSlot, NextSlot
  <2>4. CASE EndScan
    BY <2>4 DEF EndScan
  <2> QED
    BY <2>1, <2>2, <2>3, <2>4 DEF Next
<1> QED
  BY <1>1, TypeCorrect, BacktrackNeverTaken, PTL DEF Spec, NothingAfterRefusal
-----------------------------------------------------------------------------
(* What the inventory's properties say of any inventory.                      *)
Unique(inventory) ==
  \A i, j \in DOMAIN inventory :
    /\ inventory[i].serial = inventory[j].serial => i = j
    /\ \A p, q \in DOMAIN inventory[i].ports :
         inventory[i].ports[p].number = inventory[i].ports[q].number => p = q

Anchored(inventory) ==
  \A i \in DOMAIN inventory :
    inventory[i].ports # <<>> /\ inventory[i].start = inventory[i].ports[1].start

PairsIn(inventory) ==
  UNION {{<<inventory[i].serial, inventory[i].ports[p].number>> :
            p \in DOMAIN inventory[i].ports} : i \in DOMAIN inventory}

LacksPort(mi, serial, number) ==
  mi.serial = serial /\ \A p \in DOMAIN mi.ports : mi.ports[p].number # number

\* What the lookup by serial makes of the inventory.
LookedUp(inventory, serial, start, w) ==
  /\ w \in Seq(Microinverters)
  /\ DOMAIN inventory \subseteq DOMAIN w
  /\ \A i \in DOMAIN inventory : w[i] = inventory[i]
  /\ \A i \in DOMAIN w \ DOMAIN inventory :
       /\ w[i].serial = serial /\ w[i].start = start
       /\ w[i].ports = <<>> /\ DOMAIN w[i].ports = {}
       /\ DOMAIN w = DOMAIN inventory \cup {i}
       /\ ~Known(inventory, serial)
  /\ \E i \in DOMAIN w : w[i].serial = serial

(* The lookup by serial: the microinverter is in the inventory afterwards, and *)
(* only if it was not before there is a new one, without ports, at its end.     *)
LEMMA MicroinverterFiled ==
  ASSUME NEW inventory \in Seq(Microinverters), NEW serial \in Serials, NEW start \in Nat,
         NEW w, w = WithMicroinverter(inventory, serial, start)
  PROVE  LookedUp(inventory, serial, start, w)
<1> USE DEF LookedUp
<1>1. w \in Seq(Microinverters)
  <2>1. <<>> \in Seq(Ports)
    OBVIOUS
  <2>2. [serial |-> serial, start |-> start, ports |-> <<>>] \in Microinverters
    BY <2>1 DEF Microinverters
  <2> QED
    BY <2>2 DEF WithMicroinverter
<1>2. CASE Known(inventory, serial)
  BY <1>1, <1>2 DEF WithMicroinverter, Known
<1>3. CASE ~Known(inventory, serial)
  <2> DEFINE new == [serial |-> serial, start |-> start, ports |-> <<>>]
  <2>1. w = Append(inventory, new)
    BY <1>3 DEF WithMicroinverter
  <2> HIDE DEF new
  <2>2. /\ DOMAIN inventory = 1 .. Len(inventory) /\ Len(inventory) \in Nat
        /\ DOMAIN w = 1 .. Len(inventory) + 1
        /\ \A i \in 1 .. Len(inventory) : w[i] = inventory[i]
        /\ w[Len(inventory) + 1] = new
    BY <2>1
  <2>3. new.serial = serial
    BY DEF new
  <2>4. DOMAIN w \ DOMAIN inventory = {Len(inventory) + 1}
    BY <2>2
  <2>5. new.start = start /\ new.ports = <<>> /\ DOMAIN new.ports = {}
    BY DEF new
  <2> QED
    BY <1>1, <1>3, <2>2, <2>3, <2>4, <2>5
<1> QED
  BY <1>2, <1>3

(* The port is appended where it is missing, and nothing else changes.          *)
LEMMA PortFiled ==
  ASSUME NEW w \in Seq(Microinverters), NEW serial \in Serials,
         NEW number \in PortNumbers, NEW start \in Nat,
         NEW f, f = WithPort(w, serial, number, start)
  PROVE  /\ DOMAIN f = DOMAIN w
         /\ \A i \in DOMAIN w :
              /\ f[i].serial = w[i].serial /\ f[i].start = w[i].start
              /\ f[i].ports = IF LacksPort(w[i], serial, number)
                              THEN Append(w[i].ports, [number |-> number, start |-> start])
                              ELSE w[i].ports
<1>1. ASSUME NEW i \in DOMAIN w PROVE w[i] \in Microinverters
  BY <1>1
<1> QED
  BY <1>1 DEF WithPort, LacksPort, Microinverters

(* Appending a port to the ports of a microinverter.                             *)
LEMMA PortAppended ==
  ASSUME NEW ports \in Seq(Ports), NEW number \in PortNumbers, NEW start \in Nat,
         NEW longer, longer = Append(ports, [number |-> number, start |-> start])
  PROVE  /\ longer # <<>>
         /\ DOMAIN longer = DOMAIN ports \cup {Len(ports) + 1}
         /\ Len(ports) + 1 \notin DOMAIN ports
         /\ \A p \in DOMAIN ports : longer[p] = ports[p]
         /\ longer[Len(ports) + 1].number = number /\ longer[Len(ports) + 1].start = start
         /\ longer[1].start = IF ports = <<>> THEN start ELSE ports[1].start
<1>1. DOMAIN ports = 1 .. Len(ports) /\ Len(ports) \in Nat
  OBVIOUS
<1>2. DOMAIN longer = 1 .. Len(ports) + 1 /\ Len(longer) = Len(ports) + 1
  OBVIOUS
<1>3. \A p \in DOMAIN ports : longer[p] = ports[p]
  OBVIOUS
<1>4. longer[Len(ports) + 1] = [number |-> number, start |-> start]
  OBVIOUS
<1>5. ports = <<>> => Len(ports) = 0
  OBVIOUS
<1>6. ports # <<>> => 1 \in DOMAIN ports
  OBVIOUS
<1>7. longer # <<>>
  BY <1>1, <1>2
<1> QED
  BY <1>1, <1>2, <1>3, <1>4, <1>5, <1>6, <1>7

(* Filing a port keeps the entries unique and anchored, and adds its pair.        *)
LEMMA Filed ==
  ASSUME NEW inventory \in Seq(Microinverters), NEW serial \in Serials,
         NEW number \in PortNumbers, NEW start \in Nat,
         NEW w, w = WithMicroinverter(inventory, serial, start),
         NEW f, f = WithPort(w, serial, number, start)
  PROVE  /\ Unique(inventory) => Unique(f)
         /\ Anchored(inventory) => Anchored(f)
         /\ PairsIn(f) = PairsIn(inventory) \cup {<<serial, number>>}
<1>0. LookedUp(inventory, serial, start, w)
  BY MicroinverterFiled
<1>1. /\ w \in Seq(Microinverters)
      /\ DOMAIN inventory \subseteq DOMAIN w
      /\ \A i \in DOMAIN inventory : w[i] = inventory[i]
      /\ \A i \in DOMAIN w \ DOMAIN inventory :
           /\ w[i].serial = serial /\ w[i].start = start
       /\ w[i].ports = <<>> /\ DOMAIN w[i].ports = {}
           /\ DOMAIN w = DOMAIN inventory \cup {i}
           /\ ~Known(inventory, serial)
      /\ \E i \in DOMAIN w : w[i].serial = serial
  BY <1>0 DEF LookedUp
<1>2. /\ DOMAIN f = DOMAIN w
      /\ \A i \in DOMAIN w :
           /\ f[i].serial = w[i].serial /\ f[i].start = w[i].start
           /\ f[i].ports = IF LacksPort(w[i], serial, number)
                           THEN Append(w[i].ports, [number |-> number, start |-> start])
                           ELSE w[i].ports
  BY <1>1, PortFiled
<1>3. ASSUME NEW i \in DOMAIN w PROVE w[i].ports \in Seq(Ports)
  <2>1. w[i] \in Microinverters
    BY <1>1
  <2> QED
    BY <2>1 DEF Microinverters
<1> DEFINE last(i) == Len(w[i].ports) + 1
<1>4. ASSUME NEW i \in DOMAIN w, LacksPort(w[i], serial, number)
      PROVE  /\ f[i].ports # <<>>
             /\ DOMAIN f[i].ports = DOMAIN w[i].ports \cup {last(i)}
             /\ last(i) \notin DOMAIN w[i].ports
             /\ \A p \in DOMAIN w[i].ports : f[i].ports[p] = w[i].ports[p]
             /\ f[i].ports[last(i)].number = number
             /\ f[i].ports[1].start = IF w[i].ports = <<>> THEN start ELSE w[i].ports[1].start
  <2>1. f[i].ports = Append(w[i].ports, [number |-> number, start |-> start])
    BY <1>2, <1>4
  <2> QED
    BY <1>3, <2>1, PortAppended
<1>5. ASSUME NEW i \in DOMAIN w, ~LacksPort(w[i], serial, number) PROVE f[i].ports = w[i].ports
  BY <1>2, <1>5
<1> HIDE DEF last
<1>6. ASSUME Unique(inventory) PROVE Unique(f)
  <2>1. Unique(w)
    <3>0. ASSUME NEW i \in DOMAIN w, i \notin DOMAIN inventory
          PROVE  /\ w[i].serial = serial
                 /\ \A j \in DOMAIN inventory : inventory[j].serial # serial
                 /\ \A j \in DOMAIN w : j \in DOMAIN inventory \/ j = i
      <4>1. i \in DOMAIN w \ DOMAIN inventory
        BY <3>0
      <4>2. w[i].serial = serial /\ DOMAIN w = DOMAIN inventory \cup {i} /\ ~Known(inventory, serial)
        BY <1>1, <4>1
      <4> QED
        BY <4>2 DEF Known
    <3>1. ASSUME NEW i \in DOMAIN w, NEW j \in DOMAIN w, w[i].serial = w[j].serial PROVE i = j
      <4>1. CASE i \in DOMAIN inventory /\ j \in DOMAIN inventory
        BY <1>1, <1>6, <3>1, <4>1 DEF Unique
      <4>2. CASE i \notin DOMAIN inventory /\ j \in DOMAIN inventory
        BY <1>1, <3>0, <3>1, <4>2
      <4>3. CASE i \in DOMAIN inventory /\ j \notin DOMAIN inventory
        BY <1>1, <3>0, <3>1, <4>3
      <4>4. CASE i \notin DOMAIN inventory /\ j \notin DOMAIN inventory
        BY <3>0, <4>4
      <4> QED
        BY <4>1, <4>2, <4>3, <4>4
    <3>2. ASSUME NEW i \in DOMAIN w, NEW p \in DOMAIN w[i].ports, NEW q \in DOMAIN w[i].ports,
                 w[i].ports[p].number = w[i].ports[q].number
          PROVE  p = q
      <4>1. i \in DOMAIN inventory
        BY <1>1, <3>2
      <4> QED
        BY <1>1, <1>6, <3>2, <4>1 DEF Unique
    <3> QED
      BY <3>1, <3>2 DEF Unique
  <2>2. ASSUME NEW i \in DOMAIN f, NEW p \in DOMAIN f[i].ports, NEW q \in DOMAIN f[i].ports,
               f[i].ports[p].number = f[i].ports[q].number
        PROVE  p = q
    <3>1. CASE LacksPort(w[i], serial, number)
      BY <1>2, <1>4, <2>1, <2>2, <3>1 DEF Unique, LacksPort
    <3>2. CASE ~LacksPort(w[i], serial, number)
      BY <1>2, <1>5, <2>1, <2>2, <3>2 DEF Unique
    <3> QED
      BY <3>1, <3>2
  <2> QED
    BY <1>2, <2>1, <2>2 DEF Unique
<1>7. ASSUME Anchored(inventory) PROVE Anchored(f)
  <2> SUFFICES ASSUME NEW i \in DOMAIN f
               PROVE  f[i].ports # <<>> /\ f[i].start = f[i].ports[1].start
    BY DEF Anchored
  <2>1. CASE i \in DOMAIN inventory
    <3>1. w[i].ports # <<>> /\ w[i].start = w[i].ports[1].start
      BY <1>1, <1>7, <2>1 DEF Anchored
    <3> QED
      BY <1>2, <1>4, <1>5, <3>1
  <2>2. CASE i \notin DOMAIN inventory
    <3>1. /\ w[i].serial = serial /\ w[i].start = start
          /\ w[i].ports = <<>> /\ DOMAIN w[i].ports = {}
      BY <1>1, <1>2, <2>2
    <3>2. LacksPort(w[i], serial, number)
      BY <3>1 DEF LacksPort
    <3> QED
      BY <1>2, <1>4, <3>1, <3>2
  <2> QED
    BY <2>1, <2>2
<1>8. PairsIn(f) = PairsIn(inventory) \cup {<<serial, number>>}
  <2>1. ASSUME NEW i \in DOMAIN f, NEW p \in DOMAIN f[i].ports
        PROVE  <<f[i].serial, f[i].ports[p].number>> \in PairsIn(inventory) \cup {<<serial, number>>}
    <3>1. CASE p \in DOMAIN w[i].ports
      <4>1. i \in DOMAIN inventory
        BY <1>1, <1>2, <3>1
      <4>2. f[i].ports[p] = inventory[i].ports[p] /\ f[i].serial = inventory[i].serial
            /\ p \in DOMAIN inventory[i].ports
        BY <1>1, <1>2, <1>4, <1>5, <3>1, <4>1
      <4> QED
        BY <4>1, <4>2 DEF PairsIn
    <3>2. CASE p \notin DOMAIN w[i].ports
      <4>1. LacksPort(w[i], serial, number)
        BY <1>2, <1>5, <3>2
      <4>2. f[i].ports[p].number = number
        BY <1>2, <1>4, <3>2, <4>1
      <4> QED
        BY <1>2, <4>1, <4>2 DEF LacksPort
    <3> QED
      BY <3>1, <3>2
  <2>2. ASSUME NEW i \in DOMAIN inventory, NEW p \in DOMAIN inventory[i].ports
        PROVE  <<inventory[i].serial, inventory[i].ports[p].number>> \in PairsIn(f)
    <3>1. i \in DOMAIN f /\ p \in DOMAIN f[i].ports /\ f[i].ports[p] = inventory[i].ports[p]
      BY <1>1, <1>2, <1>4, <1>5
    <3>2. f[i].serial = inventory[i].serial
      BY <1>1, <1>2
    <3> QED
      BY <3>1, <3>2 DEF PairsIn
  <2>3. <<serial, number>> \in PairsIn(f)
    <3>1. PICK i \in DOMAIN w : w[i].serial = serial
      BY <1>1
    <3>2. \E p \in DOMAIN f[i].ports : f[i].ports[p].number = number
      <4>1. CASE LacksPort(w[i], serial, number)
        BY <1>4, <4>1
      <4>2. CASE ~LacksPort(w[i], serial, number)
        BY <1>5, <3>1, <4>2 DEF LacksPort
      <4> QED
        BY <4>1, <4>2
    <3>3. f[i].serial = serial /\ i \in DOMAIN f
      BY <1>2, <3>1
    <3> QED
      BY <3>2, <3>3 DEF PairsIn
  <2>4. PairsIn(f) \subseteq PairsIn(inventory) \cup {<<serial, number>>}
    BY <2>1 DEF PairsIn
  <2>5. PairsIn(inventory) \subseteq PairsIn(f)
    BY <2>2 DEF PairsIn
  <2> QED
    BY <2>3, <2>4, <2>5
<1> QED
  BY <1>6, <1>7, <1>8

(* The only step that changes the inventory files the slot after the one the scan *)
(* was at, under the serial and the port number that the buffer holds.           *)
LEMMA OnlyTakingFiles ==
  ASSUME TypeOK, BacktrackUnreachable, [Next]_vars
  PROVE  \/ microinverters' = microinverters
         \/ /\ TakeSlot
            /\ Decode[registers.label] \in Serials /\ registers.port \in PortNumbers
            /\ portStartAddress + 1 \in Nat
            /\ microinverters' =
                 WithPort(WithMicroinverter(microinverters, Decode[registers.label],
                                            portStartAddress + 1),
                          Decode[registers.label], registers.port, portStartAddress + 1)
<1> USE DecodeAssumption
<1>1. CASE TakeSlot
  <2>1. lastSuccesful /\ registers \in PortSlots
    BY <1>1 DEF TakeSlot, SlotHoldsPort, BacktrackUnreachable
  <2>2. registers.label \in Labels /\ registers.port \in PortNumbers
    BY <2>1 DEF PortSlots
  <2>3. portStartAddress + 1 \in Nat
    BY DEF TypeOK
  <2>4. CASE Decode[registers.label] = Unparsable
    BY <1>1, <2>4 DEF TakeSlot
  <2>5. CASE Decode[registers.label] # Unparsable
    <3>1. Decode[registers.label] \in Serials
      BY <2>2, <2>5
    <3> QED
      BY <1>1, <2>1, <2>2, <2>3, <2>5, <3>1 DEF TakeSlot
  <2> QED
    BY <2>4, <2>5
<1>2. CASE ReadSlot \/ RefuseSlot \/ EndScan \/ UNCHANGED vars
  BY <1>2 DEF ReadSlot, RefuseSlot, EndScan, vars
<1> QED
  BY <1>1, <1>2 DEF Next

(* One entry per serial number and one port per port number, for every register  *)
(* map: the same microinverter may turn up in slots far apart.                    *)
THEOREM EachEntryOnce == Spec => []EntriesUnique
<1>1. Init => Unique(microinverters)
  BY DEF Init, Unique
<1>2. ASSUME TypeOK, BacktrackUnreachable, Unique(microinverters), [Next]_vars
      PROVE  Unique(microinverters')
  <2>1. CASE microinverters' = microinverters
    BY <1>2, <2>1
  <2>2. CASE microinverters' # microinverters
    <3>1. microinverters \in Seq(Microinverters)
      BY <1>2 DEF TypeOK
    <3> QED
      BY <1>2, <2>2, <3>1, OnlyTakingFiles, Filed
  <2> QED
    BY <2>1, <2>2
<1>3. Unique(microinverters) <=> EntriesUnique
  BY DEF Unique, EntriesUnique
<1>4. Unique(microinverters') <=> EntriesUnique'
  BY DEF Unique, EntriesUnique
<1>5. Init => EntriesUnique
  BY <1>1, <1>3
<1>6. TypeOK /\ BacktrackUnreachable /\ EntriesUnique /\ [Next]_vars => EntriesUnique'
  BY <1>2, <1>3, <1>4
<1> QED
  BY <1>5, <1>6, TypeCorrect, BacktrackNeverTaken, PTL DEF Spec

(* A microinverter's own start address is that of its first port, which it always *)
(* has: polls and whole-unit writes go to the same slot.                          *)
THEOREM AnchoredAtFirstPort == Spec => []FirstPortAnchors
<1>1. Init => Anchored(microinverters)
  BY DEF Init, Anchored
<1>2. ASSUME TypeOK, BacktrackUnreachable, Anchored(microinverters), [Next]_vars
      PROVE  Anchored(microinverters')
  <2>1. CASE microinverters' = microinverters
    BY <1>2, <2>1
  <2>2. CASE microinverters' # microinverters
    <3>1. microinverters \in Seq(Microinverters)
      BY <1>2 DEF TypeOK
    <3> QED
      BY <1>2, <2>2, <3>1, OnlyTakingFiles, Filed
  <2> QED
    BY <2>1, <2>2
<1>3. Anchored(microinverters) <=> FirstPortAnchors
  BY DEF Anchored, FirstPortAnchors
<1>4. Anchored(microinverters') <=> FirstPortAnchors'
  BY DEF Anchored, FirstPortAnchors
<1>5. Init => FirstPortAnchors
  BY <1>1, <1>3
<1>6. TypeOK /\ BacktrackUnreachable /\ FirstPortAnchors /\ [Next]_vars => FirstPortAnchors'
  BY <1>2, <1>3, <1>4
<1> QED
  BY <1>5, <1>6, TypeCorrect, BacktrackNeverTaken, PTL DEF Spec
-----------------------------------------------------------------------------
(* While no slot has been refused the scan is at the slot after the last one it   *)
(* took, and a buffer with a read of this slot behind it holds this slot.         *)
Following ==
  /\ (pc # "aborted" /\ lastSuccesful) => taken = portStartAddress
  /\ registerCount # -1 => /\ portStartAddress \in SlotNumbers
                           /\ registers = dtuMap[portStartAddress]

(* Every step of the scan keeps Following. *)
LEMMA FollowingStep == TypeOK /\ BacktrackUnreachable /\ Following /\ [Next]_vars => Following'
<1> SUFFICES ASSUME TypeOK, BacktrackUnreachable, Following, [Next]_vars
             PROVE  Following'
  OBVIOUS
<1>1. CASE ReadSlot
  <2>1. portStartAddress \in SlotNumbers /\ registerCount = -1
    BY <1>1, SlotsAssumption DEF ReadSlot, TypeOK, SlotNumbers, WorthARead
  <2> QED
    BY <1>1, <2>1 DEF ReadSlot, Following
<1>2. CASE TakeSlot
  <2>1. lastSuccesful /\ pc = "scan" /\ taken = portStartAddress
    BY <1>2 DEF TakeSlot, SlotHoldsPort, BacktrackUnreachable, Following
  <2>2. /\ portStartAddress' = portStartAddress + 1 /\ registerCount' = -1
        /\ pc' = "aborted" \/ taken' = taken + 1
    BY <1>2, <2>1 DEF TakeSlot, NextSlot
  <2> QED
    BY <2>1, <2>2 DEF Following
<1>3. CASE RefuseSlot
  BY <1>3 DEF RefuseSlot, NextSlot, Following
<1>4. CASE EndScan
  BY <1>4 DEF EndScan, Following
<1>5. CASE UNCHANGED vars
  BY <1>5 DEF vars, Following
<1> QED
  BY <1>1, <1>2, <1>3, <1>4, <1>5 DEF Next

(* The scan implements the abstract prefix discovery, for every register map and  *)
(* every pattern of failed reads: taking a slot takes its pair, the first refusal  *)
(* closes the inventory, and every other step leaves it as it is.                  *)
THEOREM ImplementsPrefix == Spec => PrefixSpec
<1> USE DecodeAssumption, NoPortAssumption, SlotsAssumption
<1>1. Init => Prefix!Init
  <2> SUFFICES ASSUME Init PROVE Prefix!Init
    OBVIOUS
  <2> DEFINE holding == {j \in SlotNumbers : /\ dtuMap[j] \in PortSlots
                                             /\ Decode[dtuMap[j].label] # Unparsable}
  <2>1. ASSUME NEW k \in holding
        PROVE  <<Decode[dtuMap[k].label], dtuMap[k].port>> \in Serials \X PortNumbers
    BY <2>1 DEF PortSlots
  <2>2. PairsOf(dtuMap) \in [holding -> Serials \X PortNumbers]
    BY <2>1 DEF PairsOf
  <2>3. holding \in SUBSET (0 .. NumSlots - 1)
    BY DEF SlotNumbers
  <2>4. InventoryPairs = {}
    BY DEF Init, InventoryPairs
  <2> HIDE DEF holding
  <2> QED
    BY <2>2, <2>3, <2>4 DEF Init, Prefix!Init
<1>2. TypeOK /\ BacktrackUnreachable /\ Following /\ [Next]_vars => [Prefix!Next]_(Prefix!vars)
  <2> SUFFICES ASSUME TypeOK, BacktrackUnreachable, Following, [Next]_vars
               PROVE  [Prefix!Next]_(Prefix!vars)
    OBVIOUS
  <2>1. CASE microinverters' = microinverters /\ dtuMap' = dtuMap /\ taken' = taken
             /\ lastSuccesful' = lastSuccesful
    <3>1. InventoryPairs' = InventoryPairs /\ PairsOf(dtuMap)' = PairsOf(dtuMap)
      BY <2>1 DEF InventoryPairs, PairsOf
    <3> QED
      BY <2>1, <3>1 DEF Prefix!vars
  <2>2. CASE ReadSlot \/ EndScan \/ UNCHANGED vars
    BY <2>1, <2>2 DEF ReadSlot, EndScan, vars
  <2>3. CASE RefuseSlot
    <3>1. CASE lastSuccesful = FALSE
      BY <2>1, <2>3, <3>1 DEF RefuseSlot, NextSlot
    <3>2. CASE lastSuccesful = TRUE
      <4>1. InventoryPairs' = InventoryPairs /\ PairsOf(dtuMap)' = PairsOf(dtuMap)
        BY <2>3 DEF RefuseSlot, NextSlot, InventoryPairs, PairsOf
      <4> QED
        BY <2>3, <3>2, <4>1 DEF RefuseSlot, Prefix!Close, Prefix!Next
    <3> QED
      BY <3>1, <3>2 DEF TypeOK
  <2>4. CASE TakeSlot
    <3>1. /\ pc = "scan" /\ lastSuccesful /\ lastSuccesful' = TRUE
          /\ registers \in PortSlots /\ registerCount # -1
          /\ taken = portStartAddress /\ dtuMap' = dtuMap
      BY <2>4 DEF TakeSlot, NextSlot, SlotHoldsPort, BacktrackUnreachable, Following
    <3>2. lastSuccesful = TRUE
      BY <3>1 DEF TypeOK
    <3>3. CASE Decode[registers.label] = Unparsable
      BY <2>1, <2>4, <3>1, <3>2, <3>3 DEF TakeSlot
    <3>4. CASE Decode[registers.label] # Unparsable
      <4>1. taken \in SlotNumbers /\ registers = dtuMap[taken]
        BY <3>1 DEF Following
      <4>2. /\ registers.label \in Labels /\ registers.port \in PortNumbers
            /\ Decode[registers.label] \in Serials /\ portStartAddress + 1 \in Nat
        BY <3>1, <3>4 DEF PortSlots, TypeOK
      <4>3. /\ taken \in DOMAIN PairsOf(dtuMap)
            /\ PairsOf(dtuMap)[taken] = <<Decode[registers.label], registers.port>>
        BY <3>1, <3>4, <4>1 DEF PairsOf
      <4>4. microinverters' =
              WithPort(WithMicroinverter(microinverters, Decode[registers.label],
                                         portStartAddress + 1),
                       Decode[registers.label], registers.port, portStartAddress + 1)
        BY <2>4, <3>1, <3>4 DEF TakeSlot
      <4>5. microinverters \in Seq(Microinverters)
        BY DEF TypeOK
      <4>6. PairsIn(microinverters') =
              PairsIn(microinverters) \cup {<<Decode[registers.label], registers.port>>}
        BY <4>2, <4>4, <4>5, Filed
      <4>7. /\ PairsIn(microinverters) = InventoryPairs
            /\ PairsIn(microinverters') = InventoryPairs'
            /\ PairsOf(dtuMap)' = PairsOf(dtuMap)
        BY <3>1 DEF PairsIn, InventoryPairs, PairsOf
      <4>8. taken' = taken + 1
        BY <2>4, <3>4 DEF TakeSlot
      <4> QED
        BY <3>1, <3>2, <4>3, <4>6, <4>7, <4>8 DEF Prefix!Take, Prefix!Next
    <3> QED
      BY <3>3, <3>4
  <2> QED
    BY <2>2, <2>3, <2>4 DEF Next
<1>3. Init => Following
  BY DEF Init, Following
<1> QED
  BY <1>1, <1>2, <1>3, FollowingStep, TypeCorrect, BacktrackNeverTaken, PTL
     DEF Spec, PrefixSpec, Prefix!Spec
-----------------------------------------------------------------------------
\* The ports are those of slots that follow each other from slot start - 1, all before
\* slot n, each filed under the address after its slot.
RunOf(serial, start, ports, n) ==
  \A p \in DOMAIN ports :
    /\ ports[p].start = start + p - 1
    /\ start + p - 2 \in SlotNumbers /\ start + p - 2 < n
    /\ dtuMap[start + p - 2] \in PortSlots
    /\ Decode[dtuMap[start + p - 2].label] = serial
    /\ dtuMap[start + p - 2].port = ports[p].number

SlotsOf(start, ports) == {start + p - 2 : p \in DOMAIN ports}

\* Each entry is a run, and every slot before slot n is in one of them.
Runs(inventory, n) ==
  /\ \A i \in DOMAIN inventory :
       RunOf(inventory[i].serial, inventory[i].start, inventory[i].ports, n)
  /\ \A k \in 0 .. n - 1 :
       \E i \in DOMAIN inventory : k \in SlotsOf(inventory[i].start, inventory[i].ports)

(* A run stays one when slots are added after it.                                            *)
LEMMA RunOfMore ==
  ASSUME NEW serial, NEW start \in Nat, NEW ports \in Seq(Ports), NEW k \in SlotNumbers,
         RunOf(serial, start, ports, k)
  PROVE  RunOf(serial, start, ports, k + 1)
<1>1. k \in Nat /\ SlotNumbers \subseteq Int
  BY SlotsAssumption DEF SlotNumbers
<1> QED
  BY <1>1 DEF RunOf

\* Slot k is the next after a run and holds the port.
Follows(serial, start, ports, k, number) ==
  /\ RunOf(serial, start, ports, k) /\ k = start + Len(ports) - 1
  /\ dtuMap[k] \in PortSlots
  /\ Decode[dtuMap[k].label] = serial /\ dtuMap[k].port = number

\* The longer list is a run too, by that slot.
LongerBy(serial, start, ports, longer, k) ==
  /\ RunOf(serial, start, longer, k + 1)
  /\ SlotsOf(start, longer) = SlotsOf(start, ports) \cup {k}

(* The slot that follows a run makes it longer by that slot.                                  *)
LEMMA RunAppended ==
  ASSUME NEW serial, NEW start \in Nat, NEW ports \in Seq(Ports), NEW k \in SlotNumbers,
         NEW number \in PortNumbers, Follows(serial, start, ports, k, number),
         NEW longer, longer = Append(ports, [number |-> number, start |-> k + 1])
  PROVE  LongerBy(serial, start, ports, longer, k)
<1> USE DEF Follows
<1>1. k \in Nat /\ k + 1 \in Nat /\ SlotNumbers \subseteq Int
  BY SlotsAssumption DEF SlotNumbers
<1>2. PICK n \in Nat : n = Len(ports)
  OBVIOUS
<1>3. /\ DOMAIN ports = 1 .. n /\ DOMAIN longer = 1 .. n \cup {n + 1}
      /\ \A p \in 1 .. n : longer[p] = ports[p]
      /\ longer[n + 1].number = number /\ longer[n + 1].start = k + 1
  BY <1>1, <1>2, PortAppended
<1>4. k = start + (n + 1) - 2 /\ k + 1 = start + (n + 1) - 1
  BY <1>1, <1>2
<1>5. ASSUME NEW p \in DOMAIN longer
      PROVE  /\ longer[p].start = start + p - 1
             /\ start + p - 2 \in SlotNumbers /\ start + p - 2 < k + 1
             /\ dtuMap[start + p - 2] \in PortSlots
             /\ Decode[dtuMap[start + p - 2].label] = serial
             /\ dtuMap[start + p - 2].port = longer[p].number
  <2>1. CASE p \in 1 .. n
    <3>1. RunOf(serial, start, ports, k + 1)
      BY RunOfMore
    <3> QED
      BY <1>3, <2>1, <3>1 DEF RunOf
  <2>2. CASE p = n + 1
    <3>1. start + p - 2 = k /\ start + p - 1 = k + 1
      BY <1>4, <2>2
    <3>2. k < k + 1
      BY <1>1
    <3> QED
      BY <1>3, <2>2, <3>1, <3>2
  <2> QED
    BY <1>3, <1>5, <2>1, <2>2
<1>6. SlotsOf(start, longer) = SlotsOf(start, ports) \cup {k}
  BY <1>3, <1>4 DEF SlotsOf
<1> QED
  BY <1>5, <1>6 DEF RunOf, LongerBy

(* If the map lists each microinverter's ports in one run, then the next slot, when its       *)
(* microinverter is known, follows the last port of it and holds a port it lacks.            *)
LEMMA NextOfRun ==
  ASSUME TypeOK, NEW k \in SlotNumbers, dtuMap[k] \in PortSlots, Grouped,
         Unique(microinverters), Anchored(microinverters), Runs(microinverters, k),
         NEW i \in DOMAIN microinverters,
         NEW serial, serial = Decode[dtuMap[k].label], microinverters[i].serial = serial
  PROVE  /\ LacksPort(microinverters[i], serial, dtuMap[k].port)
         /\ k = microinverters[i].start + Len(microinverters[i].ports) - 1
<1>1. /\ microinverters[i] \in Microinverters /\ k \in Nat /\ SlotNumbers \subseteq Nat
      /\ \A j \in SlotNumbers : j \in Nat
  BY SlotsAssumption DEF TypeOK, SlotNumbers
<1>2. PICK start \in Nat, ports \in Seq(Ports) :
        start = microinverters[i].start /\ ports = microinverters[i].ports
  BY <1>1 DEF Microinverters
<1>3. RunOf(serial, start, ports, k)
  BY <1>2 DEF Runs
<1>4. PICK n \in Nat : n = Len(ports) /\ DOMAIN ports = 1 .. n
  OBVIOUS
<1>5. ASSUME NEW p \in 1 .. n, NEW j, j = start + p - 2
      PROVE  /\ j \in Nat /\ j < k /\ dtuMap[j].port = ports[p].number
             /\ \A m \in j .. k : /\ dtuMap[m] \in PortSlots
                                  /\ Decode[dtuMap[m].label] = serial
                                  /\ m # j => dtuMap[m].port # dtuMap[j].port
  <2>1. /\ j \in SlotNumbers /\ j < k /\ dtuMap[j] \in PortSlots
        /\ Decode[dtuMap[j].label] = serial /\ dtuMap[j].port = ports[p].number
    BY <1>3, <1>4, <1>5 DEF RunOf
  <2>2. \A m \in j .. k : /\ dtuMap[m] \in PortSlots
                          /\ Decode[dtuMap[m].label] = serial
                          /\ m # j => dtuMap[m].port # dtuMap[j].port
    BY <2>1 DEF Grouped
  <2> QED
    BY <1>1, <2>1, <2>2
<1>6. LacksPort(microinverters[i], serial, dtuMap[k].port)
  <2>1. ASSUME NEW p \in 1 .. n PROVE ports[p].number # dtuMap[k].port
    <3>1. PICK j : j = start + p - 2
      OBVIOUS
    <3>2. j \in Nat /\ j < k
      BY <1>5, <3>1
    <3>3. k \in j .. k /\ k # j
      BY <1>1, <3>2
    <3> QED
      BY <1>5, <3>1, <3>3
  <2> QED
    BY <1>2, <1>4, <2>1 DEF LacksPort
<1>7. k = start + n - 1
  <2>1. n \in 1 .. n
    <3>1. ports # <<>>
      BY <1>2 DEF Anchored
    <3> QED
      BY <1>4, <3>1
  <2>2. PICK j : j = start + n - 2
    OBVIOUS
  <2>3. j \in Nat /\ j < k /\ \A m \in j .. k : Decode[dtuMap[m].label] = serial
    BY <1>5, <2>1, <2>2
  <2>4. k - 1 \in 0 .. k - 1 /\ k - 1 \in j .. k
    BY <1>1, <2>3
  <2>5. PICK other \in DOMAIN microinverters :
          k - 1 \in SlotsOf(microinverters[other].start, microinverters[other].ports)
    BY <2>4 DEF Runs
  <2>6. PICK p \in DOMAIN microinverters[other].ports : k - 1 = microinverters[other].start + p - 2
    BY <2>5 DEF SlotsOf
  <2>7. Decode[dtuMap[k - 1].label] = microinverters[other].serial
    BY <2>6 DEF Runs, RunOf
  <2>8. Decode[dtuMap[k - 1].label] = serial
    BY <2>3, <2>4
  <2>9. other = i
    <3>1. microinverters[other].serial = microinverters[i].serial
      BY <2>7, <2>8
    <3> QED
      BY <3>1 DEF Unique
  <2>10. p \in 1 .. n /\ k - 1 = start + p - 2
    BY <1>2, <1>4, <2>6, <2>9
  <2>11. start + n - 2 < k
    BY <2>2, <2>3
  <2> QED
    BY <1>1, <2>10, <2>11
<1> QED
  BY <1>2, <1>4, <1>6, <1>7

(* Filing the next slot keeps the runs.                                                     *)
LEMMA RunsStep ==
  ASSUME TypeOK, NEW k \in SlotNumbers, dtuMap[k] \in PortSlots, Grouped,
         NEW serial \in Serials, serial = Decode[dtuMap[k].label],
         NEW number \in PortNumbers, number = dtuMap[k].port,
         Unique(microinverters), Anchored(microinverters), Runs(microinverters, k),
         NEW f, f = WithPort(WithMicroinverter(microinverters, serial, k + 1),
                             serial, number, k + 1)
  PROVE  Runs(f, k + 1)
<1>1. k \in Nat /\ k + 1 \in Nat /\ microinverters \in Seq(Microinverters)
  BY SlotsAssumption DEF SlotNumbers, TypeOK
<1>2. PICK w : w = WithMicroinverter(microinverters, serial, k + 1)
  OBVIOUS
<1>3. LookedUp(microinverters, serial, k + 1, w)
  BY <1>1, <1>2, MicroinverterFiled
<1>4. w \in Seq(Microinverters) /\ f = WithPort(w, serial, number, k + 1)
  BY <1>2, <1>3 DEF LookedUp
<1>5. /\ DOMAIN f = DOMAIN w
      /\ \A i \in DOMAIN w :
           /\ f[i].serial = w[i].serial /\ f[i].start = w[i].start
           /\ f[i].ports = IF LacksPort(w[i], serial, number)
                           THEN Append(w[i].ports, [number |-> number, start |-> k + 1])
                           ELSE w[i].ports
  BY <1>1, <1>4, PortFiled
<1>6. ASSUME NEW i \in DOMAIN w
      PROVE  /\ w[i].start \in Nat /\ w[i].ports \in Seq(Ports)
             /\ RunOf(w[i].serial, w[i].start, w[i].ports, k)
             /\ w[i].serial = serial => /\ LacksPort(w[i], serial, number)
                                        /\ k = w[i].start + Len(w[i].ports) - 1
  <2>1. w[i] \in Microinverters
    BY <1>4
  <2>2. w[i].start \in Nat /\ w[i].ports \in Seq(Ports)
    BY <2>1 DEF Microinverters
  <2>3. CASE i \in DOMAIN microinverters
    <3>1. w[i] = microinverters[i]
      BY <1>3, <2>3 DEF LookedUp
    <3>2. RunOf(w[i].serial, w[i].start, w[i].ports, k)
      BY <2>3, <3>1 DEF Runs
    <3>3. ASSUME microinverters[i].serial = serial
          PROVE  /\ LacksPort(microinverters[i], serial, number)
                 /\ k = microinverters[i].start + Len(microinverters[i].ports) - 1
      BY <2>3, <3>3, NextOfRun
    <3> QED
      BY <2>2, <3>1, <3>2, <3>3
  <2>4. CASE i \notin DOMAIN microinverters
    <3>1. w[i].serial = serial /\ w[i].start = k + 1 /\ w[i].ports = <<>> /\ DOMAIN w[i].ports = {}
      BY <1>3, <2>4 DEF LookedUp
    <3>2. k = w[i].start + Len(w[i].ports) - 1
      <4>1. Len(w[i].ports) = 0
        BY <3>1
      <4>2. k = (k + 1) + 0 - 1
        BY <1>1
      <4> QED
        BY <3>1, <4>1, <4>2
    <3>3. LacksPort(w[i], serial, number)
      BY <3>1 DEF LacksPort
    <3>4. RunOf(w[i].serial, w[i].start, w[i].ports, k)
      BY <3>1 DEF RunOf
    <3> QED
      BY <2>2, <3>2, <3>3, <3>4
  <2> QED
    BY <2>3, <2>4
<1>7. ASSUME NEW i \in DOMAIN w
      PROVE  /\ RunOf(f[i].serial, f[i].start, f[i].ports, k + 1)
             /\ SlotsOf(f[i].start, f[i].ports) =
                  SlotsOf(w[i].start, w[i].ports) \cup (IF w[i].serial = serial THEN {k} ELSE {})
  <2>1. CASE w[i].serial = serial
    <3>1. PICK start \in Nat, ports \in Seq(Ports) : start = w[i].start /\ ports = w[i].ports
      BY <1>6
    <3>2. RunOf(serial, start, ports, k) /\ k = start + Len(ports) - 1
      BY <1>6, <2>1, <3>1
    <3>3. PICK longer : longer = Append(ports, [number |-> number, start |-> k + 1])
      OBVIOUS
    <3>4. RunOf(serial, start, longer, k + 1) /\ SlotsOf(start, longer) = SlotsOf(start, ports) \cup {k}
      <4>1. Follows(serial, start, ports, k, number)
        BY <3>2 DEF Follows
      <4>2. LongerBy(serial, start, ports, longer, k)
        BY <3>3, <4>1, RunAppended
      <4> QED
        BY <4>2 DEF LongerBy
    <3>5. f[i].serial = serial /\ f[i].start = start /\ f[i].ports = longer
      <4>1. LacksPort(w[i], serial, number)
        BY <1>6, <2>1
      <4>2. f[i].ports = Append(w[i].ports, [number |-> number, start |-> k + 1])
        BY <1>5, <4>1
      <4> QED
        BY <1>5, <2>1, <3>1, <3>3, <4>2
    <3>6. /\ RunOf(f[i].serial, f[i].start, f[i].ports, k + 1)
          /\ SlotsOf(f[i].start, f[i].ports) = SlotsOf(w[i].start, w[i].ports) \cup {k}
      BY <3>1, <3>4, <3>5, Zenon
    <3> QED
      BY <2>1, <3>6
  <2>2. CASE w[i].serial # serial
    <3>1. f[i].serial = w[i].serial /\ f[i].start = w[i].start /\ f[i].ports = w[i].ports
      BY <1>5, <2>2 DEF LacksPort
    <3>2. RunOf(w[i].serial, w[i].start, w[i].ports, k + 1)
      BY <1>6, RunOfMore
    <3>3. /\ RunOf(f[i].serial, f[i].start, f[i].ports, k + 1)
          /\ SlotsOf(f[i].start, f[i].ports) = SlotsOf(w[i].start, w[i].ports)
      BY <3>1, <3>2, Zenon
    <3> QED
      BY <2>2, <3>3
  <2> QED
    BY <2>1, <2>2
<1>8. ASSUME NEW j \in 0 .. k
      PROVE  \E i \in DOMAIN f : j \in SlotsOf(f[i].start, f[i].ports)
  <2>1. CASE j = k
    <3>1. PICK i \in DOMAIN w : w[i].serial = serial
      BY <1>3 DEF LookedUp
    <3> QED
      BY <1>5, <1>7, <2>1, <3>1
  <2>2. CASE j # k
    <3>1. j \in 0 .. k - 1
      BY <1>1, <2>2
    <3>2. PICK i \in DOMAIN microinverters :
            j \in SlotsOf(microinverters[i].start, microinverters[i].ports)
      BY <3>1 DEF Runs
    <3>3. i \in DOMAIN w /\ w[i] = microinverters[i]
      BY <1>3 DEF LookedUp
    <3> QED
      BY <1>5, <1>7, <3>2, <3>3
  <2> QED
    BY <2>1, <2>2
<1>9. \A j \in 0 .. (k + 1) - 1 :
        \E i \in DOMAIN f : j \in SlotsOf(f[i].start, f[i].ports)
  <2>1. (k + 1) - 1 = k
    BY <1>1
  <2> QED
    BY <1>8, <2>1
<1>10. \A i \in DOMAIN f : RunOf(f[i].serial, f[i].start, f[i].ports, k + 1)
  BY <1>5, <1>7
<1> QED
  BY <1>9, <1>10, Zenon DEF Runs

(* The address startAddress + 0x19 * i that Microinverter::updateParameters reads is the one   *)
(* that port i is filed under, which it does not look at, for every register map that lists    *)
(* each microinverter's ports in one run (microinverter.cpp:40-104).  Either is one slot past  *)
(* the port's own (dtu.cpp:81).                                                              *)
THEOREM PortsContiguous == Spec => []ContiguousPorts
<1> DEFINE Inv == Grouped => Runs(microinverters, taken)
<1> USE SlotsAssumption
<1>1. Init => Inv
  BY DEF Init, Runs
<1>2. TypeOK /\ BacktrackUnreachable /\ Following /\ EntriesUnique /\ FirstPortAnchors
        /\ Inv /\ [Next]_vars => Inv'
  <2> SUFFICES ASSUME TypeOK, BacktrackUnreachable, Following, EntriesUnique, FirstPortAnchors,
                      Inv, [Next]_vars, Grouped'
               PROVE  Runs(microinverters, taken)'
    OBVIOUS
  <2>1. dtuMap' = dtuMap
    BY DEF Next, ReadSlot, TakeSlot, RefuseSlot, EndScan, NextSlot, vars
  <2>2. Grouped /\ Runs(microinverters, taken)
    BY <2>1 DEF Grouped
  <2>3. Runs(microinverters', taken') => Runs(microinverters, taken)'
    BY <2>1 DEF Runs, RunOf, SlotsOf
  <2>4. CASE microinverters' = microinverters /\ taken' = taken
    BY <2>2, <2>3, <2>4
  <2>5. CASE TakeSlot /\ Decode[registers.label] # Unparsable
    <3>1. /\ pc = "scan" /\ lastSuccesful /\ registers \in PortSlots /\ registerCount # -1
          /\ taken = portStartAddress /\ taken' = taken + 1
      BY <2>5 DEF TakeSlot, NextSlot, SlotHoldsPort, BacktrackUnreachable, Following
    <3>2. PICK k \in SlotNumbers : k = taken /\ registers = dtuMap[k]
      BY <3>1 DEF Following
    <3>3. PICK serial \in Serials, number \in PortNumbers :
            serial = Decode[dtuMap[k].label] /\ number = dtuMap[k].port
      BY <2>5, <3>1, <3>2, DecodeAssumption DEF PortSlots
    <3>4. microinverters' = WithPort(WithMicroinverter(microinverters, serial, k + 1),
                                     serial, number, k + 1)
      BY <2>5, <3>1, <3>2, <3>3 DEF TakeSlot
    <3>5. Unique(microinverters) /\ Anchored(microinverters)
      BY DEF EntriesUnique, FirstPortAnchors, Unique, Anchored
    <3>6. Runs(microinverters', k + 1)
      BY <2>2, <3>1, <3>2, <3>3, <3>4, <3>5, RunsStep
    <3> QED
      BY <2>3, <3>1, <3>2, <3>6
  <2>6. CASE ~(TakeSlot /\ Decode[registers.label] # Unparsable)
    <3>1. microinverters' = microinverters /\ taken' = taken
      BY <2>6 DEF Next, ReadSlot, TakeSlot, RefuseSlot, EndScan, NextSlot, vars
    <3> QED
      BY <2>4, <3>1
  <2> QED
    BY <2>5, <2>6
<1>3. Inv => ContiguousPorts
  BY DEF Runs, RunOf, ContiguousPorts
<1>4. Init => Following
  BY DEF Init, Following
<1> QED
  BY <1>1, <1>2, <1>3, <1>4, FollowingStep, TypeCorrect, BacktrackNeverTaken,
     EachEntryOnce, AnchoredAtFirstPort, PTL DEF Spec
=============================================================================
