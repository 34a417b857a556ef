--------------------------- MODULE Polling_proofs ---------------------------
(***************************************************************************)
(* Theorems about the reading loop: its type, and that the age shown with a  *)
(* microinverter bounds the age of its statuses.                             *)
(*                                                                           *)
(* The second needs the limit of the protocol: up to 20 ports the statuses    *)
(* are read with one request, and from 21 ports on the first request is for   *)
(* 126 registers and never answered.  So a request that is answered covers    *)
(* all the ports, and only then is the age cleared.                           *)
(***************************************************************************)
EXTENDS Polling, TLAPS

USE InventoryAssumption

(* Inside the two updates the microinverter at hand was found.                 *)
LEMMA CurrentTyped ==
  ASSUME TypeOK, pc \in {"parameters", "statuses"}
  PROVE  /\ Current \in Micros
         /\ NumPorts[Current] \in Nat \ {0}
         /\ at \in DOMAIN chosen
BY DEF TypeOK

(* A chunk's ports take the number of the pass, the other ports keep theirs.   *)
LEMMA RefreshedTyped ==
  ASSUME TypeOK, pc \in {"parameters", "statuses"}, NEW stride,
         NEW data, DOMAIN data = Micros,
         \A m \in Micros : data[m] \in [PortsOf(m) -> 0 .. MaxPasses]
  PROVE  /\ DOMAIN Refreshed(data, stride) = Micros
         /\ \A m \in Micros : Refreshed(data, stride)[m] \in [PortsOf(m) -> 0 .. MaxPasses]
<1>0. DOMAIN Refreshed(data, stride) = Micros
  BY DEF Refreshed
<1> SUFFICES ASSUME NEW m \in Micros
             PROVE  Refreshed(data, stride)[m] \in [PortsOf(m) -> 0 .. MaxPasses]
  BY <1>0
<1>1. pass \in 0 .. MaxPasses /\ Current \in Micros
  BY DEF TypeOK
<1>2. CASE m = Current
  BY <1>1, <1>2 DEF Refreshed
<1>3. CASE m # Current
  BY <1>1, <1>3 DEF Refreshed
<1> QED
  BY <1>0, <1>2, <1>3

(* A chunk makes progress and stays inside the ports.                          *)
LEMMA ChunkSize ==
  ASSUME TypeOK, pc \in {"parameters", "statuses"}, portsRead < NumPorts[Current],
         NEW stride \in {ParamStride, StatusStride}
  PROVE  /\ PortsToRead(stride) \in 1 .. NumPorts[Current] - portsRead
         /\ portsRead + PortsToRead(stride) \in Nat
<1>1. NumPorts[Current] \in Nat /\ portsRead \in Nat
  BY CurrentTyped DEF TypeOK
<1>2. 127 \div stride \in Nat \ {0}
  <2>1. CASE stride = 25
    BY <2>1
  <2>2. CASE stride = 6
    BY <2>2
  <2> QED
    BY <2>1, <2>2 DEF ParamStride, StatusStride
<1> QED
  BY <1>1, <1>2 DEF PortsToRead

(* The loop keeps to its types: inside an update the index is within the choice *)
(* and the lookup has found the microinverter (dtu.cpp:142-146), however the     *)
(* choice was filled in.                                                         *)
THEOREM TypeCorrect == Spec => []TypeOK
<1>1. Init => TypeOK
  BY DEF Init, TypeOK, Micros
<1>2. TypeOK /\ [Next]_vars => TypeOK'
  <2> SUFFICES ASSUME TypeOK, [Next]_vars
               PROVE  TypeOK'
    OBVIOUS
  <2> USE DEF TypeOK
  <2>1. CASE StartPass
    BY <2>1 DEF StartPass, PortsOf, Current
  <2>2. CASE SelectKnown
    BY <2>2 DEF SelectKnown, PortsOf, Current
  <2>3. CASE SelectUnknown
    BY <2>3 DEF SelectUnknown, PortsOf, Current
  <2>4. CASE SelectNone
    BY <2>4 DEF SelectNone, PortsOf, Current
  <2>5. CASE ReadParameters
    <3>1. portsRead' \in Nat
      BY <2>5, ChunkSize DEF ReadParameters
    <3>2. \A m \in Micros : paramPass'[m] \in [PortsOf(m) -> 0 .. MaxPasses]
      BY <2>5, RefreshedTyped DEF ReadParameters
    <3>3. DOMAIN paramPass' = Micros
      BY <2>5, RefreshedTyped DEF ReadParameters
    <3> QED
      BY <2>5, <3>1, <3>2, <3>3 DEF ReadParameters, PortsOf, Current
  <2>6. CASE ParametersFail
    BY <2>6 DEF ParametersFail, PortsOf, Current
  <2>7. CASE ParametersDone
    BY <2>7 DEF ParametersDone, PortsOf, Current
  <2>8. CASE ReadStatuses
    <3>1. portsRead' \in Nat
      BY <2>8, ChunkSize DEF ReadStatuses
    <3>2. \A m \in Micros : statusPass'[m] \in [PortsOf(m) -> 0 .. MaxPasses]
      BY <2>8, RefreshedTyped DEF ReadStatuses
    <3>3. DOMAIN statusPass' = Micros
      BY <2>8, RefreshedTyped DEF ReadStatuses
    <3> QED
      BY <2>8, <3>1, <3>2, <3>3 DEF ReadStatuses, PortsOf, Current
  <2>9. CASE StatusesFail
    BY <2>9 DEF StatusesFail, PortsOf, Current
  <2>10. CASE StatusesDone
    BY <2>10 DEF StatusesDone, PortsOf, Current
  <2>11. CASE Show
    BY <2>11 DEF Show, PortsOf, Current
  <2>12. CASE UNCHANGED vars
    BY <2>12 DEF vars, PortsOf, Current
  <2> QED
    BY <2>1, <2>2, <2>3, <2>4, <2>5, <2>6, <2>7, <2>8, <2>9, <2>10, <2>11, <2>12 DEF Next
<1> QED
  BY <1>1, <1>2, PTL DEF Spec
-----------------------------------------------------------------------------
\* In this pass the microinverter has had its turn.
Updated(m) ==
  \/ pc \in {"print", "loop"}
  \/ \E i \in DOMAIN chosen : i < at /\ chosen[i] = m

\* Who a pass is about: the choice, and before an empty one is filled in, all.
Subject(m) == Chosen(m) \/ chosen = <<>>

\* Until its turn in a pass has come, a microinverter owes one pass of age.
AgeOwed ==
  \A m \in Micros : Subject(m) =>
    \A p \in PortsOf(m) :
      pass - statusPass[m][p] <= age[m] + IF Updated(m) THEN 0 ELSE 1

\* An update of statuses that has read anything has read all the ports.
AllOrNothing ==
  pc = "statuses" =>
    \/ portsRead = 0
    \/ /\ portsRead = NumPorts[Current]
       /\ \A p \in PortsOf(Current) : statusPass[Current][p] = pass

\* Once a pass has begun, the choice is filled in if there is anything at all.
Filled == pc # "loop" => chosen # <<>> \/ Micros = {}

AgeInv == AgeOwed /\ AllOrNothing /\ Filled

(* The statuses are read with a single request, or not at all.                 *)
LEMMA OneRequest ==
  ASSUME MaxReadRegisters = 125, TypeOK, pc = "statuses", portsRead = 0,
         MayAnswer(StatusStride)
  PROVE  PortsToRead(StatusStride) = NumPorts[Current]
<1>1. NumPorts[Current] \in Nat \ {0}
  BY CurrentTyped
<1>2. 127 \div 6 = 21
  OBVIOUS
<1> QED
  BY <1>1, <1>2 DEF MayAnswer, RegistersToRead, PortsToRead, StatusStride

\* Every step keeps the ages what they are said to be.
LEMMA AgeStep ==
  ASSUME MaxReadRegisters = 125, TypeOK, TypeOK', AgeInv, [Next]_vars
  PROVE  AgeInv'
<1> USE DEF AgeInv
<1>0. /\ \A m \in Micros : age[m] \in Nat
      /\ \A m \in Micros : \A p \in PortsOf(m) : statusPass[m][p] \in Nat
      /\ pass \in Nat /\ at \in Nat /\ Len(chosen) \in Nat
      /\ DOMAIN chosen = 1 .. Len(chosen)
  BY DEF TypeOK
<1>1. CASE StartPass
  <2>1. AgeOwed'
    <3> SUFFICES ASSUME NEW m \in Micros, Subject(m)', NEW p \in PortsOf(m)'
                 PROVE  (pass - statusPass[m][p] <= age[m] + IF Updated(m) THEN 0 ELSE 1)'
      BY DEF AgeOwed
    <3>1. /\ pass' = pass + 1 /\ statusPass' = statusPass /\ age' = age
          /\ p \in PortsOf(m)
      BY <1>1 DEF StartPass, PortsOf
    <3>2. Subject(m)
      BY <1>1 DEF StartPass, Subject, Chosen
    <3>3. Updated(m) /\ ~Updated(m)'
      BY <1>0, <1>1 DEF StartPass, Updated, TypeOK
    <3> QED
      BY <1>0, <3>1, <3>2, <3>3 DEF AgeOwed
  <2> QED
    BY <1>1, <2>1 DEF StartPass, AllOrNothing, Filled, Micros
<1>2. CASE SelectKnown
  BY <1>0, <1>2 DEF SelectKnown, AgeOwed, AllOrNothing, Filled, Updated, Subject, Chosen
<1>3. CASE SelectUnknown
  <2>1. ASSUME NEW m \in Micros
        PROVE  Updated(m)' <=> Updated(m)
    BY <1>0, <1>3 DEF SelectUnknown, Updated, Current
  <2> QED
    BY <1>0, <1>3, <2>1 DEF SelectUnknown, AgeOwed, AllOrNothing, Filled, Subject, Chosen
<1>4. CASE SelectNone
  <2>1. ASSUME NEW m \in Micros, Subject(m)
        PROVE  Updated(m)
    BY <1>0, <1>4, <2>1 DEF SelectNone, Updated, Subject, Chosen, Filled
  <2> QED
    BY <1>0, <1>4, <2>1 DEF SelectNone, AgeOwed, AllOrNothing, Filled, Updated, Subject, Chosen
<1>5. CASE ReadParameters
  BY <1>0, <1>5 DEF ReadParameters, AgeOwed, AllOrNothing, Filled, Updated, Subject, Chosen
<1>6. CASE ParametersFail
  <2>1. \A m \in Micros : age'[m] >= age[m]
    BY <1>0, <1>6 DEF ParametersFail, TypeOK
  <2>2. AgeOwed'
    <3> SUFFICES ASSUME NEW m \in Micros, Subject(m)', NEW p \in PortsOf(m)'
                 PROVE  (pass - statusPass[m][p] <= age[m] + IF Updated(m) THEN 0 ELSE 1)'
      BY DEF AgeOwed
    <3>1. /\ pass' = pass /\ statusPass' = statusPass /\ p \in PortsOf(m)
          /\ Subject(m) /\ (Updated(m)' <=> Updated(m)) /\ age'[m] \in Nat
      BY <1>6 DEF ParametersFail, PortsOf, Subject, Chosen, Updated, TypeOK
    <3> QED
      BY <1>0, <2>1, <3>1 DEF AgeOwed
  <2> QED
    BY <1>6, <2>2 DEF ParametersFail, AllOrNothing, Filled
<1>7. CASE ParametersDone
  BY <1>0, <1>7 DEF ParametersDone, AgeOwed, AllOrNothing, Filled, Updated, Subject, Chosen
<1>8. CASE ReadStatuses
  <2>1. portsRead = 0
    BY <1>0, <1>8, CurrentTyped DEF ReadStatuses, AllOrNothing
  <2>2. PortsToRead(StatusStride) = NumPorts[Current]
    BY <1>8, <2>1, OneRequest DEF ReadStatuses
  <2>3. portsRead' = NumPorts[Current] /\ Current' = Current
    BY <1>8, <2>1, <2>2, CurrentTyped DEF ReadStatuses, Current
  <2>4. \A p \in PortsOf(Current) : statusPass'[Current][p] = pass
    BY <1>8, <2>1, <2>2, CurrentTyped DEF ReadStatuses, Refreshed, Chunk, PortsOf, TypeOK
  <2>5. \A m \in Micros : m # Current => statusPass'[m] = statusPass[m] /\ age'[m] = age[m]
    BY <1>8 DEF ReadStatuses, Refreshed, TypeOK
  <2>6. age'[Current] = 0
    BY <1>8, CurrentTyped DEF ReadStatuses, TypeOK
  <2>7. AgeOwed'
    <3> SUFFICES ASSUME NEW m \in Micros, Subject(m)', NEW p \in PortsOf(m)'
                 PROVE  (pass - statusPass[m][p] <= age[m] + IF Updated(m) THEN 0 ELSE 1)'
      BY DEF AgeOwed
    <3>1. /\ pass' = pass /\ p \in PortsOf(m) /\ Subject(m)
          /\ Updated(m)' <=> Updated(m)
      BY <1>8 DEF ReadStatuses, PortsOf, Subject, Chosen, Updated
    <3>2. CASE m = Current
      BY <1>0, <2>4, <2>6, <3>1, <3>2
    <3>3. CASE m # Current
      BY <1>0, <2>5, <3>1, <3>3 DEF AgeOwed
    <3> QED
      BY <3>2, <3>3
  <2>8. AllOrNothing'
    BY <1>8, <2>3, <2>4 DEF ReadStatuses, AllOrNothing, PortsOf
  <2> QED
    BY <1>8, <2>7, <2>8 DEF ReadStatuses, Filled
<1>9. CASE StatusesFail
  <2>1. age'[Current] = age[Current] + 1
    BY <1>9, CurrentTyped DEF StatusesFail, TypeOK
  <2>2. \A m \in Micros : m # Current => age'[m] = age[m] /\ (Updated(m)' <=> Updated(m))
    BY <1>0, <1>9, CurrentTyped DEF StatusesFail, TypeOK, Updated, Current
  <2>3. AgeOwed'
    <3> SUFFICES ASSUME NEW m \in Micros, Subject(m)', NEW p \in PortsOf(m)'
                 PROVE  (pass - statusPass[m][p] <= age[m] + IF Updated(m) THEN 0 ELSE 1)'
      BY DEF AgeOwed
    <3>1. /\ pass' = pass /\ statusPass' = statusPass /\ p \in PortsOf(m) /\ Subject(m)
      BY <1>9 DEF StatusesFail, PortsOf, Subject, Chosen
    <3>2. CASE m = Current
      BY <1>0, <2>1, <3>1, <3>2 DEF AgeOwed
    <3>3. CASE m # Current
      BY <1>0, <2>2, <3>1, <3>3 DEF AgeOwed
    <3> QED
      BY <3>2, <3>3
  <2> QED
    BY <1>9, <2>3 DEF StatusesFail, AllOrNothing, Filled
<1>10. CASE StatusesDone
  <2>1. \A p \in PortsOf(Current) : statusPass[Current][p] = pass
    BY <1>0, <1>10, CurrentTyped DEF StatusesDone, AllOrNothing
  <2>2. \A m \in Micros : m # Current => (Updated(m)' <=> Updated(m))
    BY <1>0, <1>10, CurrentTyped DEF StatusesDone, Updated, Current
  <2>3. AgeOwed'
    <3> SUFFICES ASSUME NEW m \in Micros, Subject(m)', NEW p \in PortsOf(m)'
                 PROVE  (pass - statusPass[m][p] <= age[m] + IF Updated(m) THEN 0 ELSE 1)'
      BY DEF AgeOwed
    <3>1. /\ pass' = pass /\ statusPass' = statusPass /\ age' = age
          /\ p \in PortsOf(m) /\ Subject(m)
      BY <1>10 DEF StatusesDone, PortsOf, Subject, Chosen
    <3>2. CASE m = Current
      BY <1>0, <2>1, <3>1, <3>2
    <3>3. CASE m # Current
      BY <1>0, <2>2, <3>1, <3>3 DEF AgeOwed
    <3> QED
      BY <3>2, <3>3
  <2> QED
    BY <1>10, <2>3 DEF StatusesDone, AllOrNothing, Filled
<1>11. CASE Show
  BY <1>0, <1>11 DEF Show, AgeOwed, AllOrNothing, Filled, Updated, Subject, Chosen
<1>12. CASE UNCHANGED vars
  BY <1>12 DEF vars, AgeOwed, AllOrNothing, Filled, Updated, Subject, Chosen, Current, PortsOf
<1> QED
  BY <1>1, <1>2, <1>3, <1>4, <1>5, <1>6, <1>7, <1>8, <1>9, <1>10, <1>11, <1>12 DEF Next

(* The age shown for a chosen microinverter is at least the number of passes    *)
(* since its statuses were read (microinverter.cpp:43, 70 and 74), for every     *)
(* number of ports, every choice and every pattern of failures, because no       *)
(* request for more than the 125 registers of the protocol is ever answered.     *)
THEOREM AgeIsHonest ==
  ASSUME MaxReadRegisters = 125
  PROVE  Spec => []AgeBoundsStatuses
<1>1. Init => AgeInv
  BY DEF Init, AgeInv, AgeOwed, AllOrNothing, Filled, Updated, Micros
<1>2. TypeOK /\ TypeOK' /\ AgeInv /\ [Next]_vars => AgeInv'
  BY AgeStep
<1>3. TypeOK /\ AgeInv => AgeBoundsStatuses
  <2> SUFFICES ASSUME TypeOK, AgeInv, pc = "print", NEW m \in Micros, Chosen(m),
                      NEW p \in PortsOf(m)
               PROVE  pass - statusPass[m][p] <= age[m]
    BY DEF AgeBoundsStatuses
  <2>1. pass - statusPass[m][p] <= age[m] + 0
    BY DEF AgeInv, AgeOwed, Updated, Subject
  <2> QED
    BY <2>1 DEF TypeOK
<1> QED
  BY <1>1, <1>2, <1>3, TypeCorrect, PTL DEF Spec
-----------------------------------------------------------------------------
\* One microinverter's data, as an update goes through it: older towards the end,
\* with the first `done' ports of this pass.
Graded(d, n, done) ==
  /\ \A p, q \in 1 .. n : p < q => d[p] >= d[q]
  /\ \A p \in 1 .. n : d[p] <= pass
  /\ \A p \in 1 .. n : p <= done => d[p] = pass

AllGraded(data) == \A m \in Micros : Graded(data[m], NumPorts[m], 0)

PrefixInv ==
  /\ AllGraded(paramPass) /\ AllGraded(statusPass)
  /\ pc = "parameters" => Graded(paramPass[Current], NumPorts[Current], portsRead)
  /\ pc = "statuses" => Graded(statusPass[Current], NumPorts[Current], portsRead)

(* One more chunk keeps the data graded, with the chunk's ports done too.       *)
LEMMA RefreshedGraded ==
  ASSUME TypeOK, pc \in {"parameters", "statuses"}, portsRead < NumPorts[Current],
         NEW stride \in {ParamStride, StatusStride},
         NEW data, DOMAIN data = Micros,
         \A m \in Micros : data[m] \in [PortsOf(m) -> 0 .. MaxPasses],
         AllGraded(data),
         Graded(data[Current], NumPorts[Current], portsRead)
  PROVE  /\ AllGraded(Refreshed(data, stride))
         /\ Graded(Refreshed(data, stride)[Current], NumPorts[Current],
                   portsRead + PortsToRead(stride))
<1>1. /\ Current \in Micros /\ NumPorts[Current] \in Nat
      /\ portsRead \in Nat /\ pass \in Nat
  BY CurrentTyped DEF TypeOK
<1>2. PortsToRead(stride) \in Nat
  BY ChunkSize, <1>1
<1>3. \A m \in Micros : m # Current => Refreshed(data, stride)[m] = data[m]
  BY DEF Refreshed
<1>4. \A p \in 1 .. NumPorts[Current] :
        Refreshed(data, stride)[Current][p] =
          IF p <= portsRead + PortsToRead(stride) THEN pass ELSE data[Current][p]
  BY <1>1, <1>2 DEF Refreshed, Chunk, PortsOf, Graded
<1>5. \A p \in 1 .. NumPorts[Current] : data[Current][p] \in Nat
  BY <1>1 DEF PortsOf
<1>6. Graded(Refreshed(data, stride)[Current], NumPorts[Current],
             portsRead + PortsToRead(stride))
  <2> DEFINE d == data[Current]
             r == Refreshed(data, stride)[Current]
             n == NumPorts[Current]
             done == portsRead + PortsToRead(stride)
  <2>1. \A p \in 1 .. n : r[p] = IF p <= done THEN pass ELSE d[p]
    BY <1>4
  <2>2. /\ \A p, q \in 1 .. n : p < q => d[p] >= d[q]
        /\ \A p \in 1 .. n : d[p] <= pass
    BY DEF Graded
  <2>3. \A p \in 1 .. n : d[p] \in Nat
    BY <1>5
  <2>4. n \in Nat /\ done \in Nat /\ pass \in Nat
    BY <1>1, <1>2
  <2> HIDE DEF d, r, n, done
  <2>5. /\ \A p, q \in 1 .. n : p < q => r[p] >= r[q]
        /\ \A p \in 1 .. n : r[p] <= pass
        /\ \A p \in 1 .. n : p <= done => r[p] = pass
    BY <2>1, <2>2, <2>3, <2>4
  <2> QED
    BY <2>5 DEF Graded, d, r, n, done
<1>7. Graded(Refreshed(data, stride)[Current], NumPorts[Current], 0)
  BY <1>6, <1>1, <1>2 DEF Graded
<1> QED
  BY <1>3, <1>6, <1>7 DEF AllGraded

(* What was graded in one pass is graded in the next, with nothing done yet.    *)
LEMMA GradedLater ==
  ASSUME TypeOK, pass' = pass + 1, NEW data,
         \A m \in Micros : data[m] \in [PortsOf(m) -> 0 .. MaxPasses],
         AllGraded(data)
  PROVE  \A m \in Micros : /\ \A p, q \in 1 .. NumPorts[m] : p < q => data[m][p] >= data[m][q]
                           /\ \A p \in 1 .. NumPorts[m] : data[m][p] <= pass'
<1>1. pass \in Nat
  BY DEF TypeOK
<1>2. \A m \in Micros : \A p \in 1 .. NumPorts[m] : data[m][p] \in Nat
  BY DEF PortsOf
<1> QED
  BY <1>1, <1>2 DEF AllGraded, Graded

\* Every step keeps the values behind a failed read older than those before it.
LEMMA PrefixStep ==
  ASSUME TypeOK, TypeOK', PrefixInv, [Next]_vars
  PROVE  PrefixInv'
<1> USE DEF PrefixInv
<1>0. /\ \A m \in Micros : NumPorts[m] \in Nat
      /\ \A m \in Micros : /\ paramPass[m] \in [PortsOf(m) -> 0 .. MaxPasses]
                           /\ statusPass[m] \in [PortsOf(m) -> 0 .. MaxPasses]
  BY DEF TypeOK
<1>1. CASE StartPass
  <2>1. AllGraded(paramPass)'
    <3>1. paramPass' = paramPass /\ pass' = pass + 1
      BY <1>1 DEF StartPass
    <3>2. \A m \in Micros :
            /\ \A p, q \in 1 .. NumPorts[m] : p < q => paramPass[m][p] >= paramPass[m][q]
            /\ \A p \in 1 .. NumPorts[m] : paramPass[m][p] <= pass'
      BY <1>0, <3>1, GradedLater
    <3> QED
      BY <1>0, <3>1, <3>2 DEF AllGraded, Graded
  <2>2. AllGraded(statusPass)'
    <3>1. statusPass' = statusPass /\ pass' = pass + 1
      BY <1>1 DEF StartPass
    <3>2. \A m \in Micros :
            /\ \A p, q \in 1 .. NumPorts[m] : p < q => statusPass[m][p] >= statusPass[m][q]
            /\ \A p \in 1 .. NumPorts[m] : statusPass[m][p] <= pass'
      BY <1>0, <3>1, GradedLater
    <3> QED
      BY <1>0, <3>1, <3>2 DEF AllGraded, Graded
  <2> QED
    BY <1>1, <2>1, <2>2 DEF StartPass
<1>2. CASE SelectKnown
  BY <1>2 DEF SelectKnown, AllGraded, Graded, Current
<1>3. CASE SelectUnknown
  BY <1>3 DEF SelectUnknown, AllGraded, Graded
<1>4. CASE SelectNone
  BY <1>4 DEF SelectNone, AllGraded, Graded
<1>5. CASE ReadParameters
  <2>1. /\ AllGraded(paramPass')
        /\ Graded(paramPass'[Current], NumPorts[Current], portsRead')
    BY <1>5, RefreshedGraded DEF ReadParameters, TypeOK
  <2> QED
    BY <1>5, <2>1 DEF ReadParameters, AllGraded, Graded, Current
<1>6. CASE ParametersFail
  BY <1>6, CurrentTyped DEF ParametersFail, AllGraded, Graded, Current
<1>7. CASE ParametersDone
  BY <1>7, CurrentTyped DEF ParametersDone, AllGraded, Graded, Current
<1>8. CASE ReadStatuses
  <2>1. /\ AllGraded(statusPass')
        /\ Graded(statusPass'[Current], NumPorts[Current], portsRead')
    BY <1>8, RefreshedGraded DEF ReadStatuses, TypeOK
  <2> QED
    BY <1>8, <2>1 DEF ReadStatuses, AllGraded, Graded, Current
<1>9. CASE StatusesFail
  BY <1>9 DEF StatusesFail, AllGraded, Graded
<1>10. CASE StatusesDone
  BY <1>10 DEF StatusesDone, AllGraded, Graded
<1>11. CASE Show
  BY <1>11 DEF Show, AllGraded, Graded
<1>12. CASE UNCHANGED vars
  BY <1>12 DEF vars, AllGraded, Graded, Current
<1> QED
  BY <1>1, <1>2, <1>3, <1>4, <1>5, <1>6, <1>7, <1>8, <1>9, <1>10, <1>11, <1>12 DEF Next

(* At every moment a port is at least as fresh as the ports after it, whichever  *)
(* chunks failed in whichever passes (microinverter.cpp:42-51 and 69-81), for     *)
(* any limit on the registers of a request.                                      *)
THEOREM FreshnessIsPrefix == Spec => []FreshPrefix
<1>1. Init => PrefixInv
  BY DEF Init, PrefixInv, AllGraded, Graded, PortsOf, Micros
<1>2. TypeOK /\ TypeOK' /\ PrefixInv /\ [Next]_vars => PrefixInv'
  BY PrefixStep
<1>3. PrefixInv => FreshPrefix
  BY DEF PrefixInv, AllGraded, Graded, FreshPrefix, PortsOf
<1> QED
  BY <1>1, <1>2, <1>3, TypeCorrect, PTL DEF Spec
-----------------------------------------------------------------------------
(* With at most 20 ports to a microinverter no request of either update asks for *)
(* more than the protocol allows (microinverter.cpp:32 and 59): the parameters    *)
(* never do, with their 5 blocks of 25, the statuses only from 21 ports on.       *)
THEOREM SmallRequests ==
  ASSUME MaxReadRegisters = 125, \A m \in Micros : NumPorts[m] <= 20
  PROVE  Spec => []RequestsLegal
<1>1. TypeOK => RequestsLegal
  <2> SUFFICES ASSUME TypeOK, pc \in {"parameters", "statuses"},
                      portsRead < NumPorts[Current]
               PROVE  /\ RegistersToRead(ParamStride) \in 1 .. MaxReadRegisters
                      /\ pc = "statuses" =>
                           RegistersToRead(StatusStride) \in 1 .. MaxReadRegisters
    BY DEF RequestsLegal
  <2> DEFINE remaining == NumPorts[Current] - portsRead
  <2>1. /\ Current \in Micros
        /\ NumPorts[Current] \in Nat
        /\ portsRead \in Nat
    <3>1. portsRead \in Nat
      BY DEF TypeOK
    <3> QED
      BY <3>1, CurrentTyped
  <2>2. remaining \in 1 .. 20
    <3>1. NumPorts[Current] <= 20
      BY <2>1
    <3> HIDE InventoryAssumption
    <3>2. portsRead < NumPorts[Current]
      OBVIOUS
    <3> QED
      BY ONLY <2>1, <3>1, <3>2 DEF remaining
  <2> HIDE DEF remaining
  <2>3. PortsToRead(ParamStride) = IF remaining < 5 THEN remaining ELSE 5
    <3>1. 127 \div 25 = 5
      OBVIOUS
    <3> QED
      BY <3>1 DEF PortsToRead, ParamStride, remaining
  <2>4. PortsToRead(StatusStride) = IF remaining < 21 THEN remaining ELSE 21
    <3>1. 127 \div 6 = 21
      OBVIOUS
    <3> QED
      BY <3>1 DEF PortsToRead, StatusStride, remaining
  <2>5. PortsToRead(ParamStride) \in 1 .. 5 /\ PortsToRead(StatusStride) \in 1 .. 20
    BY <2>2, <2>3, <2>4
  <2>6. \A n \in 1 .. 5 : 25 * n \in 1 .. 125
    OBVIOUS
  <2>7. \A n \in 1 .. 20 : 6 * n \in 1 .. 125
    OBVIOUS
  <2> QED
    BY <2>5, <2>6, <2>7 DEF RegistersToRead, ParamStride, StatusStride
<1> QED
  BY <1>1, TypeCorrect, PTL DEF Spec
=============================================================================
