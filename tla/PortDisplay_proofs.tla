------------------------- MODULE PortDisplay_proofs -------------------------
(* Theorems about the choice between the two currents of a port, the counters of    *)
(* what it produces and the names that are printed of it.                          *)
EXTENDS PortDisplay, Recursion

\* How a total is made, member by member.
Summing(f, counters, D) ==
  f = [s \in SUBSET D |-> IF s = {} THEN 0
                          ELSE LET x == CHOOSE x \in s : TRUE
                               IN counters[x] + f[s \ {x}]]

(* Such sums are defined.                                                        *)
LEMMA SummingIsDefined ==
  ASSUME NEW P, NEW D \in SUBSET P, IsFiniteSet(D), NEW counters \in [P -> Nat]
  PROVE  \E f \in [SUBSET D -> Nat] : Summing(f, counters, D)
<1> DEFINE ch == [s \in SUBSET D |-> CHOOSE x \in s : TRUE]
           step == [x \in D |-> [sum \in Nat |-> counters[x] + sum]]
<1>1. \A s \in SUBSET D : s # {} => ch[s] \in s
  OBVIOUS
<1>2. step \in [D -> [Nat -> Nat]]
  OBVIOUS
<1>3. PICK f : ByFolding(f, D, ch, Nat, 0, step)
  <2> HIDE DEF ch, step
  <2>1. 0 \in Nat
    OBVIOUS
  <2> QED
    BY <1>1, <1>2, <2>1, FoldDefines, Zenon
<1>4. ASSUME NEW s \in SUBSET D
      PROVE  f[s] = IF s = {} THEN 0 ELSE LET x == CHOOSE x \in s : TRUE
                                          IN counters[x] + f[s \ {x}]
  <2>1. f[s] = IF s = {} THEN 0 ELSE step[ch[s]][f[s \ {ch[s]}]]
    BY <1>3 DEF ByFolding
  <2>2. f[s \ {ch[s]}] \in Nat
    BY <1>3 DEF ByFolding
  <2>3. s # {} => ch[s] \in D
    BY <1>1
  <2>4. ch[s] = CHOOSE x \in s : TRUE
    OBVIOUS
  <2> HIDE DEF ch
  <2> QED
    BY <2>1, <2>2, <2>3, <2>4
<1>5. f \in [SUBSET D -> Nat]
  BY <1>3 DEF ByFolding
<1> QED
  BY <1>4, <1>5 DEF Summing

\* A total is the last of them.
LEMMA TotalIs ==
  ASSUME NEW D, NEW counters
  PROVE  Total(counters, D) = (CHOOSE f : Summing(f, counters, D))[D]
BY Zenon DEF Total, FoldFunctionOnSet, MapThenFoldSet, Summing

(* Counters none of which is above its counterpart have a total that is not either. *)
LEMMA TotalsCompare ==
  ASSUME NEW P, NEW D \in SUBSET P, IsFiniteSet(D), NEW a \in [P -> Nat], NEW b \in [P -> Nat],
         \A x \in D : a[x] <= b[x]
  PROVE  Total(a, D) \in Nat /\ Total(b, D) \in Nat /\ Total(a, D) <= Total(b, D)
<1> DEFINE fa == CHOOSE f : Summing(f, a, D)
           fb == CHOOSE f : Summing(f, b, D)
           ch == [s \in SUBSET D |-> CHOOSE x \in s : TRUE]
           Good == {s \in SUBSET D : fa[s] \in Nat /\ fb[s] \in Nat /\ fa[s] <= fb[s]}
<1>1. Summing(fa, a, D) /\ Summing(fb, b, D)
  BY SummingIsDefined, Zenon
<1>2. ASSUME NEW f, NEW c, Summing(f, c, D), NEW s \in SUBSET D
      PROVE  IF s = {} THEN f[s] = 0 ELSE f[s] = c[ch[s]] + f[s \ {ch[s]}]
  BY <1>2 DEF Summing
<1>3. \A s \in SUBSET D : s # {} => ch[s] \in s
  OBVIOUS
<1> HIDE DEF fa, fb, ch
<1>4. {} \in Good
  <2>1. fa[{}] = 0 /\ fb[{}] = 0
    BY <1>1 DEF Summing
  <2> QED
    BY <2>1
<1>5. ASSUME NEW s \in SUBSET D, s # {}, s \ {ch[s]} \in Good
      PROVE  s \in Good
  <2>1. fa[s] = a[ch[s]] + fa[s \ {ch[s]}] /\ fb[s] = b[ch[s]] + fb[s \ {ch[s]}]
    BY <1>1, <1>2, <1>5
  <2>2. ch[s] \in D /\ a[ch[s]] \in Nat /\ b[ch[s]] \in Nat /\ a[ch[s]] <= b[ch[s]]
    BY <1>3, <1>5
  <2> QED
    BY <1>5, <2>1, <2>2
<1> HIDE DEF Good
<1>6. \A s \in SUBSET D : s \in Good
  BY <1>3, <1>4, <1>5, SubsetInduction
<1>7. fa[D] \in Nat /\ fb[D] \in Nat /\ fa[D] <= fb[D]
  BY <1>6 DEF Good
<1> QED
  BY <1>7, TotalIs DEF fa, fb
-----------------------------------------------------------------------------
(* The power of ten that a register is below is one of five.                       *)
LEMMA PowerIsAbove ==
  ASSUME NEW n \in Nat, n < 65536
  PROVE  n < PowerAbove(n) /\ PowerAbove(n) \in {10, 100, 1000, 10000, 100000}
<1> DEFINE above == {p \in {10, 100, 1000, 10000, 100000} : n < p}
<1>1. above \in SUBSET Nat /\ above # {}
  <2>1. 100000 \in above
    OBVIOUS
  <2>2. \A p \in above : p \in Nat
    OBVIOUS
  <2> QED
    BY <2>1, <2>2
<1>2. Min(above) \in above
  <2> HIDE DEF above
  <2> QED
    BY <1>1, MinIsMember
<1> QED
  BY <1>2 DEF PowerAbove

(* The two registers of a counter, written one after the other in decimal and read  *)
(* back (portParametersInt.cpp), give the counter exactly as long as the high one is *)
(* 0.                                                                              *)
THEOREM ReadBack ==
  \A e \in Nat : ReadValue(e) \in Nat /\ (ReadValue(e) = e <=> e < RegisterBase)
<1> SUFFICES ASSUME NEW e \in Nat
             PROVE  ReadValue(e) \in Nat /\ (ReadValue(e) = e <=> e < RegisterBase)
  OBVIOUS
<1> DEFINE h == High(e)
           l == Low(e)
           p == PowerAbove(l)
<1>1. h \in Nat /\ l \in Nat /\ l < 65536 /\ e = 65536 * h + l
  BY CounterAssumption DEF High, Low
<1>2. p \in {10, 100, 1000, 10000, 100000}
  BY <1>1, PowerIsAbove
<1>3. ReadValue(e) = h * p + l
  BY DEF ReadValue
<1> HIDE DEF h, l, p
<1>4. h * p \in Nat /\ (h * p = 65536 * h <=> h = 0)
  BY <1>1, <1>2
<1>5. e < RegisterBase <=> h = 0
  BY <1>1, CounterAssumption
<1> QED
  BY <1>1, <1>3, <1>4, <1>5
-----------------------------------------------------------------------------
\* Every energy that is met fits the low register.
OneRegister == \A e \in Energies : e < RegisterBase

\* What a counter may be.
LEMMA EnergiesAreNat == \A e \in Energies : e \in Nat
BY CounterAssumption

\* The part of the state that the totals are about.
CountersTyped ==
  /\ energy \in [Slots -> Energies]
  /\ value \in [PortIds -> Nat]
  /\ updated \subseteq PortIds

\* A port that an update has read shows no more than its slot has counted there.
NotAhead == \A port \in updated : value[port] <= energy[FiledSlot(port)]

\* The slots of a port.
LEMMA SlotsOfPort == \A port \in PortIds : port \in Slots /\ FiledSlot(port) \in Slots
BY PortsAssumption DEF PortIds, Slots, FiledSlot

\* Every step keeps the counters numbers,
LEMMA CountersStep == ASSUME CountersTyped, [Next]_vars PROVE CountersTyped'
<1>1. ASSUME NEW slot \in Slots, SetParameters(slot)
      PROVE  energy' \in [Slots -> Energies] /\ value' \in [PortIds -> Nat]
  <2>1. ReadValue(energy[slot]) \in Nat
    BY ReadBack, EnergiesAreNat DEF CountersTyped
  <2> QED
    BY <1>1, <2>1 DEF SetParameters, CountersTyped
<1>2. CASE ScanPort
  BY <1>1, <1>2, SlotsOfPort DEF ScanPort, SetParameters, CountersTyped
<1>3. CASE UpdatePort
  BY <1>1, <1>3, SlotsOfPort DEF UpdatePort, SetParameters, CountersTyped
<1>4. CASE UpdateFails \/ Turn \/ PrintParameters
  BY <1>4 DEF UpdateFails, Turn, PrintParameters, readings, CountersTyped
<1>5. CASE \E port \in PortIds : Produce(port)
  BY <1>5, SlotsOfPort DEF Produce, readings, CountersTyped
<1>6. CASE UNCHANGED vars
  BY <1>6 DEF vars, CountersTyped
<1> QED
  BY <1>2, <1>3, <1>4, <1>5, <1>6 DEF Next

\* so they are numbers.
LEMMA CountersInvariant == Spec => []CountersTyped
<1>1. Init => CountersTyped
  BY DEF Init, CountersTyped
<1> QED
  BY <1>1, CountersStep, PTL DEF Spec

\* Nothing is read by an update while the scan goes on.
ScanFirst == phase = "scan" => updated = {}

\* No step goes back to the scan.
LEMMA ScanFirstInvariant == Spec => []ScanFirst
<1>1. Init => ScanFirst
  BY DEF Init, ScanFirst
<1>2. ScanFirst /\ [Next]_vars => ScanFirst'
  BY DEF ScanFirst, Next, ScanPort, UpdatePort, SetParameters, UpdateFails, Turn, PrintParameters,
         Produce, readings, vars
<1> QED
  BY <1>1, <1>2, PTL DEF Spec

\* Every step keeps what an update has shown at or below the counter, and lets it only
\* rise: by the second phase of the loop no port is decoded from its own slot again.
LEMMA NotAheadStep ==
  ASSUME OneRegister, CountersTyped, ScanFirst, NotAhead, [Next]_vars
  PROVE  NotAhead' /\ \A port \in updated : value[port] <= value'[port]
<1>0. /\ \A port \in PortIds : value[port] \in Nat
      /\ \A slot \in Slots : energy[slot] \in Nat
      /\ updated \subseteq PortIds
  BY EnergiesAreNat DEF CountersTyped
<1>1. CASE ScanPort
  <2>1. updated = {} /\ updated' = {}
    BY <1>1 DEF ScanPort, ScanFirst
  <2> QED
    BY <2>1 DEF NotAhead
<1>2. CASE UpdatePort
  <2>1. next \in PortIds /\ FiledSlot(next) \in Slots
    BY <1>2, SlotsOfPort DEF UpdatePort, SetParameters
  <2>2. ReadValue(energy[FiledSlot(next)]) = energy[FiledSlot(next)]
    BY <2>1, ReadBack, EnergiesAreNat DEF CountersTyped, OneRegister
  <2>3. /\ value' = [value EXCEPT ![next] = energy[FiledSlot(next)]]
        /\ energy' = energy /\ updated' = updated \cup {next}
    BY <1>2, <2>2 DEF UpdatePort, SetParameters
  <2>4. value' \in [PortIds -> Nat] /\ value'[next] = energy[FiledSlot(next)]
    BY <1>0, <2>1, <2>3 DEF CountersTyped
  <2>5. ASSUME NEW port \in updated'
        PROVE  value'[port] <= energy'[FiledSlot(port)]
    <3>1. CASE port = next
      BY <1>0, <2>1, <2>3, <2>4, <3>1
    <3>2. CASE port # next
      BY <1>0, <2>3, <2>5, <3>2 DEF CountersTyped, NotAhead
    <3> QED
      BY <3>1, <3>2
  <2>6. ASSUME NEW port \in updated
        PROVE  value[port] <= value'[port]
    <3>1. CASE port = next
      BY <1>0, <2>1, <2>4, <2>6, <3>1 DEF NotAhead
    <3>2. CASE port # next
      BY <1>0, <2>3, <2>6, <3>2 DEF CountersTyped
    <3> QED
      BY <3>1, <3>2
  <2> QED
    BY <2>5, <2>6 DEF NotAhead
<1>3. CASE UpdateFails \/ Turn \/ PrintParameters
  BY <1>0, <1>3 DEF UpdateFails, Turn, PrintParameters, readings, NotAhead
<1>4. CASE \E port \in PortIds : Produce(port)
  <2>1. PICK port \in PortIds : Produce(port)
    BY <1>4
  <2>2. PICK e \in Energies : e > energy[port] /\ energy' = [energy EXCEPT ![port] = e]
    BY <2>1 DEF Produce
  <2>3. value' = value /\ updated' = updated /\ e \in Nat /\ port \in Slots
    BY <2>1, SlotsOfPort, EnergiesAreNat DEF Produce, readings
  <2>4. \A slot \in Slots : energy[slot] <= energy'[slot] /\ energy'[slot] \in Nat
    BY <1>0, <2>2, <2>3 DEF CountersTyped
  <2>5. ASSUME NEW other \in updated
        PROVE  value[other] <= energy'[FiledSlot(other)] /\ value[other] <= value[other]
    <3>1. other \in PortIds /\ FiledSlot(other) \in Slots
      BY <1>0, SlotsOfPort
    <3> QED
      BY <1>0, <2>4, <3>1 DEF NotAhead
  <2> QED
    BY <2>3, <2>5 DEF NotAhead
<1>5. CASE UNCHANGED vars
  BY <1>0, <1>5 DEF vars, NotAhead
<1> QED
  BY <1>1, <1>2, <1>3, <1>4, <1>5 DEF Next

\* so it never is ahead.
LEMMA NotAheadInvariant == ASSUME OneRegister PROVE Spec => []NotAhead
<1>1. Init => NotAhead
  BY DEF Init, NotAhead
<1>2. CountersTyped /\ ScanFirst /\ NotAhead /\ [Next]_vars => NotAhead'
  BY NotAheadStep
<1> QED
  BY <1>1, <1>2, CountersInvariant, ScanFirstInvariant, PTL DEF Spec

\* The ports of a microinverter are among all ports.
LEMMA PortsOfOne ==
  ASSUME NEW ports \in Microinverters
  PROVE  ports \in SUBSET PortIds /\ IsFiniteSet(ports)
<1>1. ports \in SUBSET PortIds
  BY CounterAssumption
<1>2. IsFiniteSet(PortIds)
  <2>1. 1 \in Int /\ NumPorts \in Int
    BY PortsAssumption
  <2> QED
    BY <2>1, FS_Interval DEF PortIds
<1> QED
  BY <1>1, <1>2, FS_Subset

(* Once updates have read all ports of a microinverter, a total that is put together    *)
(* from values of different passes is never more than what is counted in the slots that  *)
(* it is read from, as long as counters fit one register, for any division of the ports  *)
(* among microinverters (microinverter.cpp, getTotalProduction and updateParameters).   *)
THEOREM NeverAhead == ASSUME OneRegister PROVE Spec => []TotalNotAhead
<1>1. CountersTyped /\ NotAhead => TotalNotAhead
  <2> SUFFICES ASSUME CountersTyped, NotAhead, NEW ports \in Microinverters, ports \subseteq updated
               PROVE  TotalProduction(ports) <= CountedWhereFiled(ports)
    BY DEF TotalNotAhead
  <2> DEFINE counted == [port \in PortIds |-> energy[FiledSlot(port)]]
  <2>1. value \in [PortIds -> Nat] /\ counted \in [PortIds -> Nat]
    BY SlotsOfPort, EnergiesAreNat DEF CountersTyped
  <2>2. ports \in SUBSET PortIds /\ IsFiniteSet(ports)
    BY PortsOfOne
  <2>3. \A port \in ports : value[port] <= counted[port]
    BY <2>2 DEF NotAhead
  <2>4. Total(value, ports) <= Total(counted, ports)
    <3> HIDE DEF counted
    <3> QED
      BY <2>1, <2>2, <2>3, TotalsCompare
  <2> QED
    BY <2>4 DEF TotalProduction, CountedWhereFiled
<1> QED
  BY <1>1, CountersInvariant, NotAheadInvariant, PTL

(* Under the same condition the total of such a microinverter never falls, in whichever  *)
(* order its ports are read and wherever updates break off (port.cpp, dtu.cpp).         *)
THEOREM NeverFalls == ASSUME OneRegister PROVE Spec => TotalNeverFalls
<1>1. CountersTyped /\ CountersTyped' /\ ScanFirst /\ NotAhead /\ [Next]_vars =>
        [\A ports \in Microinverters :
           ports \subseteq updated => TotalProduction(ports)' >= TotalProduction(ports)]_vars
  <2> SUFFICES ASSUME CountersTyped, CountersTyped', ScanFirst, NotAhead, [Next]_vars,
                      NEW ports \in Microinverters, ports \subseteq updated
               PROVE  TotalProduction(ports)' >= TotalProduction(ports)
    OBVIOUS
  <2>1. value \in [PortIds -> Nat] /\ value' \in [PortIds -> Nat]
    BY DEF CountersTyped
  <2>2. ports \in SUBSET PortIds /\ IsFiniteSet(ports)
    BY PortsOfOne
  <2>3. \A port \in ports : value[port] <= value'[port]
    BY <2>2, NotAheadStep
  <2>4. /\ Total(value, ports) \in Nat /\ Total(value', ports) \in Nat
        /\ Total(value, ports) <= Total(value', ports)
    BY <2>1, <2>2, <2>3, TotalsCompare
  <2>5. TotalProduction(ports) = Total(value, ports) /\ TotalProduction(ports)' = Total(value', ports)
    BY DEF TotalProduction
  <2> QED
    BY <2>4, <2>5
<1> QED
  BY <1>1, CountersInvariant, ScanFirstInvariant, NotAheadInvariant, PTL DEF Spec, TotalNeverFalls
-----------------------------------------------------------------------------
\* The part of the state that the choice is about.
ChoiceTyped ==
  /\ parameters \in [PortIds -> SUBSET Names]
  /\ currentFixed \in [PortIds -> BOOLEAN]
  /\ next \in Nat \ {0}
  /\ phase \in {"scan", "update", "print"}

\* Past the scan every port is decided, and during it those already read.
ChoiceInv == ChoiceTyped /\ OneCurrent

(* What one reading does to the port it is of, and that the others keep theirs. *)
LEMMA OneDecision ==
  ASSUME ChoiceInv, NEW port \in PortIds, NEW reading, FixCurrent(port, reading)
  PROVE  /\ parameters' \in [PortIds -> SUBSET Names]
         /\ currentFixed' = [currentFixed EXCEPT ![port] = TRUE]
         /\ \A other \in PortIds : other # port => parameters'[other] = parameters[other]
         /\ IF currentFixed[port]
            THEN parameters'[port] = parameters[port]
            ELSE \E name \in Erased(reading) : parameters'[port] = Names \ {name}
<1>1. CASE currentFixed[port]
  BY <1>1 DEF FixCurrent, ChoiceInv, ChoiceTyped
<1>2. CASE ~currentFixed[port]
  <2>1. parameters[port] = Names
    BY <1>2 DEF ChoiceInv, OneCurrent
  <2> QED
    BY <1>2, <2>1 DEF FixCurrent, ChoiceInv, ChoiceTyped
<1> QED
  BY <1>1, <1>2

\* What a port is read from: its own slot as long as it is undecided.
LEMMA PortRead ==
  ASSUME ChoiceInv, ScanPort \/ UpdatePort
  PROVE  /\ next \in PortIds /\ next' = next + 1
         /\ phase' = phase /\ phase # "print" /\ UNCHANGED printing
         /\ \E slot \in Slots : \E reading \in Readings[Model[slot]] :
              FixCurrent(next, reading) /\ (currentFixed[next] \/ slot = next)
<1>1. CASE ScanPort
  BY <1>1, SlotsOfPort DEF ScanPort, SetParameters
<1>2. CASE UpdatePort
  <2>1. currentFixed[next]
    BY <1>2 DEF UpdatePort, SetParameters, ChoiceInv, OneCurrent
  <2> QED
    BY <1>2, <2>1, SlotsOfPort DEF UpdatePort, SetParameters
<1> QED
  BY <1>1, <1>2

\* Every step keeps the choice of the current,
LEMMA ChoiceStep == ASSUME ChoiceInv, [Next]_vars PROVE ChoiceInv'
<1>1. CASE ScanPort \/ UpdatePort
  <2>1. PICK slot \in Slots :
            \E reading \in Readings[Model[slot]] : FixCurrent(next, reading)
    BY <1>1, PortRead
  <2>9. PICK reading \in Readings[Model[slot]] : FixCurrent(next, reading)
    BY <2>1
  <2>2. next \in PortIds /\ next' = next + 1 /\ phase' = phase
    BY <1>1, PortRead
  <2>3. /\ parameters' \in [PortIds -> SUBSET Names]
        /\ currentFixed' = [currentFixed EXCEPT ![next] = TRUE]
        /\ \A other \in PortIds : other # next => parameters'[other] = parameters[other]
        /\ IF currentFixed[next]
           THEN parameters'[next] = parameters[next]
           ELSE \E name \in Erased(reading) : parameters'[next] = Names \ {name}
    BY <2>9, <2>2, OneDecision
  <2>4. Erased(reading) \subseteq Currents
    BY DEF Erased
  <2>5. ChoiceTyped'
    BY <2>2, <2>3 DEF ChoiceInv, ChoiceTyped
  <2>6. ASSUME NEW port \in PortIds
        PROVE  /\ parameters'[port] \in IF currentFixed'[port]
                                        THEN {Names \ {current} : current \in Currents}
                                        ELSE {Names}
               /\ ~currentFixed'[port] => phase' = "scan" /\ next' <= port
    <3>1. CASE port = next
      BY <2>2, <2>3, <2>4, <3>1 DEF ChoiceInv, ChoiceTyped, OneCurrent
    <3>2. CASE port # next
      BY <2>2, <2>3, <3>2 DEF ChoiceInv, ChoiceTyped, OneCurrent, PortIds
    <3> QED
      BY <3>1, <3>2
  <2> QED
    BY <2>5, <2>6 DEF ChoiceInv, OneCurrent
<1>2. CASE UpdateFails
  <2>1. UNCHANGED <<parameters, currentFixed>> /\ phase = "update" /\ phase' = phase
    BY <1>2 DEF UpdateFails, readings
  <2>2. next' \in Nat \ {0}
    BY <1>2, PortsAssumption DEF UpdateFails, PortIds
  <2> QED
    BY <2>1, <2>2 DEF ChoiceInv, ChoiceTyped, OneCurrent
<1>3. CASE Turn
  BY <1>3, PortsAssumption DEF Turn, readings, ChoiceInv, ChoiceTyped, OneCurrent, PortIds
<1>4. CASE PrintParameters
  BY <1>4 DEF PrintParameters, readings, ChoiceInv, ChoiceTyped, OneCurrent, PortIds
<1>5. CASE \E port \in PortIds : Produce(port)
  BY <1>5 DEF Produce, readings, ChoiceInv, ChoiceTyped, OneCurrent
<1>6. CASE UNCHANGED vars
  BY <1>6 DEF vars, ChoiceInv, ChoiceTyped, OneCurrent
<1> QED
  BY <1>1, <1>2, <1>3, <1>4, <1>5, <1>6 DEF Next

\* so one current is chosen.
LEMMA ChoiceInvariant == Spec => []ChoiceInv
<1>1. Init => ChoiceInv
  BY DEF Init, ChoiceInv, ChoiceTyped, OneCurrent, PortIds
<1> QED
  BY <1>1, ChoiceStep, PTL DEF Spec

(* Beside its other parameters a port keeps both currents until its first         *)
(* reading and exactly one of them after it (port.cpp:98-109), for any ports,     *)
(* kinds of microinverter and readings.                                          *)
THEOREM OneCurrentKept == Spec => []OneCurrent
<1>1. ChoiceInv => OneCurrent
  BY DEF ChoiceInv
<1> QED
  BY <1>1, ChoiceInvariant, PTL

(* No later reading revises the decision (port.cpp:91-93).                        *)
THEOREM DecidedOnce == Spec => DecisionIsFinal
<1>1. ChoiceInv /\ [Next]_vars =>
        [\A port \in PortIds : currentFixed[port] => parameters'[port] = parameters[port]]_vars
  <2> SUFFICES ASSUME ChoiceInv, Next, NEW port \in PortIds, currentFixed[port]
               PROVE  parameters'[port] = parameters[port]
    OBVIOUS
  <2>1. CASE ScanPort \/ UpdatePort
    <3>1. PICK slot \in Slots :
            \E reading \in Readings[Model[slot]] : FixCurrent(next, reading)
      BY <2>1, PortRead
    <3>9. PICK reading \in Readings[Model[slot]] : FixCurrent(next, reading)
      BY <3>1
    <3>2. next \in PortIds
      BY <2>1, PortRead
    <3> QED
      BY <3>9, <3>2, OneDecision
  <2>2. CASE UpdateFails \/ Turn \/ PrintParameters \/ \E other \in PortIds : Produce(other)
    BY <2>2 DEF UpdateFails, Turn, PrintParameters, Produce, readings
  <2> QED
    BY <2>1, <2>2 DEF Next
<1> QED
  BY <1>1, ChoiceInvariant, PTL DEF Spec, DecisionIsFinal

(* A port of an HM keeps the current at the scale of an HM, whenever its first     *)
(* reading comes, if no such reading has power without current (port.cpp:102).     *)
THEOREM HmDecidedRight == Spec => []HmKeepsItsScale
<1>1. Init => HmKeepsItsScale
  BY DEF Init, HmKeepsItsScale, Names, Currents
<1>2. ChoiceInv /\ HmKeepsItsScale /\ [Next]_vars => HmKeepsItsScale'
  <2> SUFFICES ASSUME ChoiceInv, HmKeepsItsScale, [Next]_vars, HmReadings,
                      NEW port \in PortIds, Model[port] = "HM"
               PROVE  "pvCurrentHM" \in parameters'[port]
    BY DEF HmKeepsItsScale, HmReadings
  <2>1. CASE ScanPort \/ UpdatePort
    <3>1. PICK slot \in Slots :
            \E reading \in Readings[Model[slot]] :
              FixCurrent(next, reading) /\ (currentFixed[next] \/ slot = next)
      BY <2>1, PortRead
    <3>9. PICK reading \in Readings[Model[slot]] :
            FixCurrent(next, reading) /\ (currentFixed[next] \/ slot = next)
      BY <3>1
    <3>0. next \in PortIds
      BY <2>1, PortRead
    <3>4. CASE currentFixed[port]
      <4>1. parameters'[port] = parameters[port]
        BY <3>0, <3>9, <3>4, OneDecision
      <4> QED
        BY <4>1 DEF HmKeepsItsScale
    <3>2. CASE port = next /\ ~currentFixed[port]
      <4>1. /\ reading.u \in Nat /\ reading.i \in Nat /\ reading.p \in Nat
            /\ 10 * reading.p < reading.u * reading.i \/ reading.p = 0
        <5>1. slot = next /\ reading \in Readings["HM"]
          BY <3>9, <3>2
        <5> QED
          BY <5>1, PortsAssumption DEF HmReadings
      <4>2. ~MayExceed(reading)
        <5> DEFINE product == reading.u * reading.i
        <5>1. product \in Nat
          BY <4>1
        <5> HIDE DEF product
        <5>2. 10 * reading.p < product \/ reading.p = 0
          BY <4>1 DEF product
        <5>3. ~(10 * reading.p > product) /\ ~(10 * reading.p = product /\ reading.p # 0)
          BY <4>1, <5>1, <5>2
        <5> QED
          BY <5>3 DEF MayExceed, product
      <4>3. Erased(reading) \subseteq {"pvCurrentMI"}
        BY <4>2 DEF Erased, Currents
      <4>4. "pvCurrentHM" \in Names
        BY DEF Names, Currents
      <4> QED
        BY <3>0, <3>9, <3>2, <4>3, <4>4, OneDecision
    <3>3. CASE port # next
      BY <3>0, <3>9, <3>3, OneDecision DEF HmKeepsItsScale
    <3> QED
      BY <3>2, <3>3, <3>4
  <2>2. CASE UpdateFails \/ Turn \/ PrintParameters \/ \E other \in PortIds : Produce(other)
    BY <2>2 DEF UpdateFails, Turn, PrintParameters, Produce, readings, HmKeepsItsScale
  <2>3. CASE UNCHANGED vars
    BY <2>3 DEF vars, HmKeepsItsScale
  <2> QED
    BY <2>1, <2>2, <2>3 DEF Next
<1> QED
  BY <1>1, <1>2, ChoiceInvariant, PTL DEF Spec
-----------------------------------------------------------------------------
\* Past the scan nothing is erased any more.
LEMMA ErasedInScan ==
  ASSUME ChoiceInv, [Next]_vars, phase # "scan"
  PROVE  parameters' = parameters
<1>1. CASE ScanPort \/ UpdatePort
  <2>1. PICK slot \in Slots :
            \E reading \in Readings[Model[slot]] : FixCurrent(next, reading)
    BY <1>1, PortRead
  <2>9. PICK reading \in Readings[Model[slot]] : FixCurrent(next, reading)
    BY <2>1
  <2>2. currentFixed[next]
    BY <1>1, PortRead DEF ChoiceInv, OneCurrent
  <2> QED
    BY <2>9, <2>2 DEF FixCurrent
<1>2. CASE UpdateFails \/ Turn \/ PrintParameters \/ \E port \in PortIds : Produce(port)
  BY <1>2 DEF UpdateFails, Turn, PrintParameters, Produce, readings
<1>3. CASE UNCHANGED vars
  BY <1>3 DEF vars
<1> QED
  BY <1>1, <1>2, <1>3 DEF Next

\* A port has finitely many parameters, whose names are strings.
LEMMA ParametersAreNames ==
  ASSUME ChoiceInv, NEW port \in PortIds
  PROVE  parameters[port] \subseteq STRING /\ IsFiniteSet(parameters[port])
<1>1. parameters[port] \in SUBSET Names
  BY DEF ChoiceInv, OneCurrent
<1>2. IsFiniteSet(Currents)
  <2>1. IsFiniteSet({"pvCurrentMI"})
    BY FS_Singleton
  <2>2. IsFiniteSet({"pvCurrentMI"} \cup {"pvCurrentHM"})
    BY <2>1, FS_AddElement
  <2>3. {"pvCurrentMI"} \cup {"pvCurrentHM"} = Currents
    BY DEF Currents
  <2> QED
    BY <2>2, <2>3
<1>3. IsFiniteSet(Names)
  BY <1>2, FS_Union, NamesAssumption DEF Names
<1>4. Names \subseteq STRING
  BY NamesAssumption
<1> QED
  BY <1>1, <1>3, <1>4, FS_Subset

\* The list as it grows: the part of it that the property needs.
Alike == \A port, other \in PortIds : parameters[port] = parameters[other]
Known(names) == \A port \in PortIds : ToSet(names) \subseteq parameters[port]

ListInv ==
  /\ asked \in AskedLists
  /\ parametersToGet \in Seq(STRING)
  /\ \E more \in Seq(STRING) : parametersToGet = asked \o more
  /\ phase = "scan" => parametersToGet = asked
  /\ IsInjective(asked) => IsInjective(parametersToGet)
  /\ Alike /\ Known(asked) => Known(parametersToGet)

LinesInv ==
  /\ shown \in [PortIds -> Seq(STRING)]
  /\ IsInjective(asked) =>
       /\ \A port \in PortIds : IsInjective(shown[port])
       /\ AllParameters /\ Alike /\ Known(asked) =>
            \A port \in Printed : ToSet(shown[port]) = parameters[port] \ {Serial}

(* What -A makes of the list: nothing is named twice that was not before, and where   *)
(* the list has nothing that the port lacks it has all the port's parameters after.   *)
LEMMA ListExtended ==
  ASSUME ChoiceInv, parametersToGet \in Seq(STRING), NEW port \in PortIds
  PROVE  /\ \E more \in Seq(STRING) : Extended(port) = parametersToGet \o more
         /\ ToSet(Extended(port)) \subseteq ToSet(parametersToGet) \cup parameters[port]
         /\ IsInjective(parametersToGet) => IsInjective(Extended(port))
         /\ AllParameters /\ IsInjective(parametersToGet)
              /\ ToSet(parametersToGet) \subseteq parameters[port]
              => ToSet(Extended(port)) = parameters[port]
<1> DEFINE list == parametersToGet
           missing == parameters[port] \ ToSet(list)
           added == SetToSeq(missing)
<1>1. parameters[port] \subseteq STRING /\ IsFiniteSet(parameters[port])
  BY ParametersAreNames
<1>2. missing \in SUBSET parameters[port] /\ IsFiniteSet(missing)
  BY <1>1, FS_Subset
<1>3. /\ added \in Seq(missing) /\ IsInjective(added) /\ ToSet(added) = missing
  BY <1>2, SetAsSequence
<1>4. added \in Seq(STRING)
  <2>1. missing \subseteq STRING
    BY <1>1
  <2> HIDE DEF missing, added
  <2> QED
    BY <1>3, <2>1, WiderSeq
<1>5. /\ ToSet(list \o added) = ToSet(list) \cup missing
      /\ IsInjective(list) => IsInjective(list \o added)
  <2>1. ToSet(list) \cap ToSet(added) = {}
    BY <1>3
  <2>2. list \in Seq(STRING)
    OBVIOUS
  <2> HIDE DEF list, added, missing
  <2>3. /\ ToSet(list \o added) = ToSet(list) \cup ToSet(added)
        /\ IsInjective(list) /\ IsInjective(added) /\ ToSet(list) \cap ToSet(added) = {}
             => IsInjective(list \o added)
    BY <1>4, <2>2, Joined
  <2> QED
    BY <1>3, <2>1, <2>3
<1>6. CASE AllParameters /\ Len(list) < Cardinality(parameters[port])
  <2>1. Extended(port) = list \o added
    BY <1>6 DEF Extended
  <2> QED
    BY <1>4, <1>5, <2>1
<1>7. CASE ~(AllParameters /\ Len(list) < Cardinality(parameters[port]))
  <2>1. Extended(port) = list
    BY <1>7 DEF Extended
  <2>2. list = list \o <<>> /\ <<>> \in Seq(STRING)
    OBVIOUS
  <2>3. ASSUME AllParameters, IsInjective(list), ToSet(list) \subseteq parameters[port]
        PROVE  ToSet(list) = parameters[port]
    <3>1. Cardinality(ToSet(list)) = Len(list) /\ Len(list) \in Nat
      BY <2>3, InjectiveLength
    <3>2. /\ Cardinality(parameters[port]) \in Nat
          /\ Cardinality(ToSet(list)) <= Cardinality(parameters[port])
          /\ Cardinality(parameters[port]) = Cardinality(ToSet(list))
               => parameters[port] = ToSet(list)
      BY <1>1, <2>3, FS_Subset, FS_CardinalityType
    <3> QED
      BY <1>7, <2>3, <3>1, <3>2
  <2> QED
    BY <2>1, <2>2, <2>3
<1> QED
  BY <1>6, <1>7

\* Every step keeps the list of what to print,
LEMMA ListStep == ASSUME ChoiceInv, ListInv, [Next]_vars PROVE ListInv'
<1>1. CASE PrintParameters
  <2>1. /\ next \in PortIds /\ phase = "print" /\ phase' = phase
        /\ parametersToGet' = Extended(next)
        /\ asked' = asked /\ parameters' = parameters
    BY <1>1 DEF PrintParameters, readings
  <2>2. /\ \E more \in Seq(STRING) : Extended(next) = parametersToGet \o more
        /\ ToSet(Extended(next)) \subseteq ToSet(parametersToGet) \cup parameters[next]
        /\ IsInjective(parametersToGet) => IsInjective(Extended(next))
    BY <2>1, ListExtended DEF ListInv
  <2>3. /\ parametersToGet' \in Seq(STRING)
        /\ \E more \in Seq(STRING) : parametersToGet' = asked \o more
    <3>1. PICK more \in Seq(STRING) : parametersToGet' = parametersToGet \o more
      BY <2>1, <2>2
    <3>2. PICK before \in Seq(STRING) : parametersToGet = asked \o before
      BY DEF ListInv
    <3>3. asked \in Seq(STRING)
      BY AskedAssumption DEF ListInv
    <3>4. (asked \o before) \o more = asked \o (before \o more)
      BY <3>3
    <3>5. before \o more \in Seq(STRING) /\ asked \o (before \o more) \in Seq(STRING)
      BY <3>3
    <3>6. parametersToGet' = asked \o (before \o more)
      BY <3>1, <3>2, <3>4
    <3> QED
      BY <3>5, <3>6
  <2>4. (Alike /\ Known(asked) => Known(parametersToGet))'
    BY <2>1, <2>2 DEF Alike, Known, ListInv
  <2> QED
    BY <2>1, <2>2, <2>3, <2>4 DEF ListInv
<1>2. CASE ScanPort \/ UpdatePort
  <2>1. UNCHANGED <<parametersToGet, asked, phase>>
    BY <1>2, PortRead DEF printing
  <2>2. phase # "scan" => parameters' = parameters
    BY ErasedInScan
  <2> QED
    BY <2>1, <2>2 DEF ListInv, Alike, Known
<1>3. CASE UpdateFails \/ Turn \/ \E port \in PortIds : Produce(port)
  <2>1. UNCHANGED <<parametersToGet, asked, parameters>> /\ (phase' = "scan" => phase = "scan")
    BY <1>3 DEF UpdateFails, Turn, Produce, printing, readings
  <2> QED
    BY <2>1 DEF ListInv, Alike, Known
<1>4. CASE UNCHANGED vars
  BY <1>4 DEF vars, ListInv, Alike, Known
<1> QED
  BY <1>1, <1>2, <1>3, <1>4 DEF Next

\* so the list is what was asked for.
LEMMA ListInvariant == Spec => []ListInv
<1>1. Init => ListInv
  <2> SUFFICES ASSUME Init PROVE ListInv
    OBVIOUS
  <2>1. asked \in Seq(STRING) /\ asked \in AskedLists /\ parametersToGet = asked
    BY AskedAssumption DEF Init
  <2>2. asked = asked \o <<>> /\ <<>> \in Seq(STRING)
    BY <2>1
  <2> QED
    BY <2>1, <2>2 DEF ListInv
<1> QED
  BY <1>1, ChoiceInvariant, ListStep, PTL DEF Spec

\* A line that is printed, and what the list has when it is.
LEMMA LinePrinted ==
  ASSUME ChoiceInv, ListInv, PrintParameters
  PROVE  LET line == Line(next, parametersToGet')
         IN  /\ line \in Seq(STRING)
             /\ IsInjective(asked) => IsInjective(line)
             /\ IsInjective(asked) /\ AllParameters /\ Alike /\ Known(asked)
                  => ToSet(line) = parameters[next] \ {Serial}
<1> DEFINE line == Line(next, parametersToGet')
           wanted == parameters[next] \ {Serial}
<1>1. next \in PortIds /\ parametersToGet' = Extended(next)
  BY DEF PrintParameters
<1>2. ListInv'
  BY ListStep DEF Next
<1>3. parametersToGet' \in Seq(STRING) /\ asked' = asked
  BY <1>2 DEF ListInv, PrintParameters
<1>4. /\ line \in Seq(STRING)
      /\ ToSet(line) = ToSet(parametersToGet') \cap wanted
      /\ IsInjective(parametersToGet') => IsInjective(line)
  <2> HIDE DEF wanted
  <2> SUFFICES /\ Selected(parametersToGet', wanted) \in Seq(STRING)
               /\ ToSet(Selected(parametersToGet', wanted)) = ToSet(parametersToGet') \cap wanted
               /\ IsInjective(parametersToGet') => IsInjective(Selected(parametersToGet', wanted))
    BY DEF Line, wanted
  <2> QED
    BY <1>3, SelectedMembers
<1>5. IsInjective(asked) => IsInjective(parametersToGet')
  BY <1>2, <1>3 DEF ListInv
<1>6. ASSUME IsInjective(asked), AllParameters, Alike, Known(asked)
      PROVE  ToSet(parametersToGet') = parameters[next]
  <2>1. IsInjective(parametersToGet) /\ ToSet(parametersToGet) \subseteq parameters[next]
    BY <1>1, <1>6 DEF ListInv, Known
  <2>2. ToSet(Extended(next)) = parameters[next]
    BY <1>1, <1>6, <2>1, ListExtended DEF ListInv
  <2> QED
    BY <1>1, <2>2
<1> QED
  BY <1>4, <1>5, <1>6

\* Every step keeps the lines that were printed,
LEMMA LinesStep == ASSUME ChoiceInv, ListInv, LinesInv, [Next]_vars PROVE LinesInv'
<1>1. CASE PrintParameters
  <2> DEFINE line == Line(next, parametersToGet')
  <2>1. /\ next \in PortIds /\ next' = next + 1 /\ phase = "print" /\ phase' = phase
        /\ shown' = [shown EXCEPT ![next] = line]
        /\ asked' = asked /\ parameters' = parameters
    BY <1>1 DEF PrintParameters, readings
  <2>2. /\ line \in Seq(STRING)
        /\ IsInjective(asked) => IsInjective(line)
        /\ IsInjective(asked) /\ AllParameters /\ Alike /\ Known(asked)
             => ToSet(line) = parameters[next] \ {Serial}
    BY <1>1, LinePrinted
  <2> HIDE DEF line
  <2>3. \A port \in Printed' : port \in Printed \/ port = next
    BY <2>1, PortsAssumption DEF Printed, PortIds
  <2>4. /\ shown' \in [PortIds -> Seq(STRING)] /\ shown'[next] = line
        /\ \A port \in PortIds : port # next => shown'[port] = shown[port]
    BY <2>1, <2>2 DEF LinesInv
  <2>5. ASSUME IsInjective(asked), NEW port \in PortIds
        PROVE  IsInjective(shown'[port])
    BY <2>2, <2>4, <2>5 DEF LinesInv
  <2>6. ASSUME IsInjective(asked), AllParameters, Alike, Known(asked), NEW port \in Printed'
        PROVE  ToSet(shown'[port]) = parameters[port] \ {Serial}
    <3>1. CASE port = next
      BY <2>2, <2>4, <2>6, <3>1
    <3>2. CASE port # next
      <4>1. port \in Printed /\ port \in PortIds
        BY <2>3, <2>6, <3>2 DEF Printed
      <4> QED
        BY <2>4, <2>6, <3>2, <4>1 DEF LinesInv
    <3> QED
      BY <3>1, <3>2
  <2> QED
    BY <2>1, <2>4, <2>5, <2>6 DEF LinesInv, Alike, Known
<1>2. CASE ScanPort \/ UpdatePort
  <2>1. UNCHANGED <<shown, asked, phase>>
    BY <1>2, PortRead DEF printing
  <2>2. phase # "print" \/ parameters' = parameters
    BY ErasedInScan
  <2>3. phase # "print"
    BY <1>2, PortRead
  <2>4. Printed' = {}
    BY <2>1, <2>3 DEF Printed
  <2> QED
    BY <2>1, <2>4 DEF LinesInv
<1>3. CASE UpdateFails \/ Turn
  <2>1. UNCHANGED <<shown, asked, parameters>>
    BY <1>3 DEF UpdateFails, Turn, printing, readings
  <2>2. Printed' = {}
    <3>1. phase' # "print" \/ next' = 1
      BY <1>3 DEF UpdateFails, Turn
    <3> QED
      BY <3>1, PortsAssumption DEF Printed, PortIds
  <2> QED
    BY <2>1, <2>2 DEF LinesInv
<1>4. CASE (\E port \in PortIds : Produce(port)) \/ UNCHANGED vars
  <2>1. UNCHANGED <<shown, asked, parameters, next, phase>>
    BY <1>4 DEF Produce, vars, printing, readings
  <2> QED
    BY <2>1 DEF LinesInv, Alike, Known, Printed
<1> QED
  BY <1>1, <1>2, <1>3, <1>4 DEF Next

\* so the lines are what was asked for.
LEMMA LinesInvariant == Spec => []LinesInv
<1>1. Init => LinesInv
  <2>1. <<>> \in Seq(STRING) /\ IsInjective(<<>>)
    BY DEF IsInjective
  <2> QED
    BY <2>1 DEF Init, LinesInv, Printed
<1> QED
  BY <1>1, ChoiceInvariant, ListInvariant, LinesStep, PTL DEF Spec

(* A line shows nothing twice that the command line names once, and with -A all that    *)
(* its port has if the ports have the same (port.cpp:166-200), for any number of       *)
(* ports, any parameters and any list, in every pass of the loop.                      *)
THEOREM LinesRight == Spec => []LinesAsAsked
<1>1. ChoiceInv /\ LinesInv => LinesAsAsked
  <2> SUFFICES ASSUME LinesInv, NEW port \in Printed, IsInjective(asked)
               PROVE  /\ IsInjective(shown[port])
                      /\ AllParameters /\ Alike /\ Known(asked)
                           => ToSet(shown[port]) = parameters[port] \ {Serial}
    BY DEF LinesAsAsked, Alike, Known
  <2> QED
    BY DEF LinesInv, Printed
<1> QED
  BY <1>1, ChoiceInvariant, LinesInvariant, PTL

(* Every variable keeps its type, and the list of names begins with the names that were   *)
(* asked for.                                                                          *)
THEOREM TypeCorrect == Spec => []TypeOK
<1>1. ChoiceInv /\ CountersTyped /\ ListInv /\ LinesInv => TypeOK
  <2> SUFFICES ASSUME ChoiceInv, CountersTyped, ListInv, LinesInv
               PROVE  TypeOK
    OBVIOUS
  <2>1. IsPrefix(asked, parametersToGet)
    <3>1. PICK more \in Seq(STRING) : parametersToGet = asked \o more
      BY DEF ListInv
    <3>2. asked \in Seq(STRING)
      BY AskedAssumption DEF ListInv
    <3> QED
      BY <3>1, <3>2 DEF IsPrefix
  <2>2. parameters \in [PortIds -> SUBSET Names]
    BY DEF ChoiceInv, ChoiceTyped
  <2> QED
    BY <2>1, <2>2 DEF TypeOK, ChoiceInv, ChoiceTyped, CountersTyped, ListInv, LinesInv
<1> QED
  BY <1>1, ChoiceInvariant, CountersInvariant, ListInvariant, LinesInvariant, PTL
=============================================================================
