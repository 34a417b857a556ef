---------------------------- MODULE PortDisplay ----------------------------
(***************************************************************************)
(* What a port makes of its registers, and what is printed of it: Port's     *)
(* fixCurrent, setParametersFromMicroinverterArray and printParameters,      *)
(* PortParameterInt::getValueFromRegisters and                               *)
(* Microinverter::getTotalProduction (src/src/hoymiles/port.cpp,             *)
(* microinverter.cpp, portParameters/).                                      *)
(*                                                                         *)
(* One register holds the current of the panel, in steps of 0.1 A on an MI    *)
(* microinverter and of 0.01 A on an HM.  The client does not know which it   *)
(* has: every port starts with both parameters, and the first reading         *)
(* decides, once and for all, which of them is erased.                       *)
(*                                                                         *)
(* A port counts what it produces in two registers, which are made one number *)
(* of; a microinverter's total is the sum over its ports.  They are read while *)
(* they count, and the update of a microinverter may break off.               *)
(*                                                                         *)
(* The ports are in the slots of the register map one after the other.  The    *)
(* scan decodes a port from its own slot, but files it under the address of    *)
(* the one after it, and that is where all updates read it from.              *)
(*                                                                         *)
(* All ports share one list of names to print, that of the command line, and  *)
(* -A extends it while printing.                                             *)
(***************************************************************************)
EXTENDS Integers, Sequences, FiniteSets, Selection

CONSTANTS NumPorts,       \* the ports of all microinverters, as they are printed
          Microinverters, \* the ports of each
          Model,          \* what is in each slot: "MI", "HM" or, past the last port, "none"
          Readings,       \* per model, the register values there may be
          Common,         \* the parameters beside the two currents
          AskedLists,     \* what -P may be given
          AllParameters,  \* -A
          Energies,       \* values that a counter passes through
          RegisterBase    \* values of a register (2^16)

PortIds == 1 .. NumPorts
Slots == 1 .. NumPorts + 1
Currents == {"pvCurrentMI", "pvCurrentHM"}
Names == Common \cup Currents
Serial == "microinverterSerialNumber"

ASSUME PortsAssumption ==
  /\ NumPorts \in Nat
  /\ Model \in [Slots -> {"MI", "HM", "none"}]
  /\ \A port \in PortIds : Model[port] # "none"
  /\ \A kind \in {"MI", "HM", "none"} : Readings[kind] \subseteq [u : Nat, i : Nat, p : Nat]
  /\ AllParameters \in BOOLEAN
ASSUME CounterAssumption ==
  /\ UNION Microinverters = PortIds
  /\ Energies \subseteq Nat /\ RegisterBase = 65536
ASSUME NamesAssumption ==
  /\ IsFiniteSet(Common) /\ Names \subseteq STRING /\ Common \cap Currents = {}
  /\ {Serial, "pvVoltage", "pvPower"} \subseteq Common
ASSUME AskedAssumption == \A asked \in AskedLists : asked \in Seq(STRING)

VARIABLES
  parameters,       \* Port::parameters, by name
  currentFixed,     \* Port::currentFixed
  energy,           \* the counter in each slot: what its port has produced
  value,            \* PortParameterInt::value of each port's totalProduction
  updated,          \* history: the ports that an update has read
  parametersToGet,  \* the one list of names
  asked,            \* history: that list as it was given
  shown,            \* history: the names on the line that each port has in print
  next,             \* the port to be read or printed next
  phase             \* "scan", "update" or "print"

vars == <<parameters, currentFixed, energy, value, updated,
          parametersToGet, asked, shown, next, phase>>
readings == <<parameters, currentFixed, value, updated>>
printing == <<parametersToGet, asked, shown>>
-----------------------------------------------------------------------------
\* The two registers of a counter.
High(e) == e \div RegisterBase
Low(e) == e % RegisterBase

\* The first power of ten that is above a register.
PowerAbove(n) == Min({p \in {10, 100, 1000, 10000, 100000} : n < p})

\* Mutant: the low register comes first.
ReadValueLowFirst(e) == Low(e) * PowerAbove(High(e)) + High(e)

\* The registers are written in decimal one after the other and read back as one
\* number.
ReadValue(e) == High(e) * PowerAbove(Low(e)) + Low(e)

Init ==
  /\ parameters = [port \in PortIds |-> Names]
  /\ currentFixed = [port \in PortIds |-> FALSE]
  /\ energy \in [Slots -> Energies]
  /\ value = [port \in PortIds |-> 0]
  /\ updated = {}
  /\ parametersToGet \in AskedLists
  /\ asked = parametersToGet
  /\ shown = [port \in PortIds |-> <<>>]
  /\ next = 1
  /\ phase = "scan"

\* Power above voltage times current, the current taken at the scale of an MI:
\* p / 10 > (u / 10) * (i / 10).  In single precision an equality of numbers that
\* are not 0 may come out either way.
MayExceed(reading) == \/ 10 * reading.p > reading.u * reading.i
                      \/ 10 * reading.p = reading.u * reading.i /\ reading.p # 0
MayNotExceed(reading) == 10 * reading.p <= reading.u * reading.i

\* Mutant: the two branches are swapped.
ErasedSwapped(reading) ==
  {name \in Currents : \/ name = "pvCurrentMI" /\ MayExceed(reading)
                       \/ name = "pvCurrentHM" /\ MayNotExceed(reading)}

\* The parameter that fixCurrent may erase.
Erased(reading) ==
  {name \in Currents : \/ name = "pvCurrentHM" /\ MayExceed(reading)
                       \/ name = "pvCurrentMI" /\ MayNotExceed(reading)}

\* Mutant: the decision is not noted.
FixCurrentUnmarked(port, reading) ==
  \E name \in Erased(reading) :
    /\ parameters' = [parameters EXCEPT ![port] = @ \ {name}]
    /\ UNCHANGED currentFixed

\* fixCurrent after a reading.  Its second test, on one of the currents missing,
\* never applies: they are both there until this has decided.
FixCurrent(port, reading) ==
  IF currentFixed[port]
  THEN UNCHANGED <<parameters, currentFixed>>
  ELSE \E name \in Erased(reading) :
         /\ parameters' = [parameters EXCEPT ![port] = @ \ {name}]
         /\ currentFixed' = [currentFixed EXCEPT ![port] = TRUE]

\* The slot whose address a port is filed under: the scan has moved on by then.
FiledSlot(port) == port + 1

\* setParametersFromMicroinverterArray, on the registers of a slot
SetParameters(slot) ==
  /\ next \in PortIds
  /\ value' = [value EXCEPT ![next] = ReadValue(energy[slot])]
  /\ \E reading \in Readings[Model[slot]] : FixCurrent(next, reading)
  /\ next' = next + 1
  /\ UNCHANGED <<energy, printing, phase>>

\* The scan, by which every port is read first.
ScanPort == phase = "scan" /\ SetParameters(next) /\ UNCHANGED updated

\* Microinverter::updateParameters.  One request reads several ports; here each is read
\* at a moment of its own, and any of them may be the first that fails.
UpdatePort ==
  /\ phase = "update"
  /\ SetParameters(FiledSlot(next))
  /\ updated' = updated \cup {next}

\* The counters go on by themselves.
Produce(port) ==
  /\ \E e \in Energies : e > energy[port] /\ energy' = [energy EXCEPT ![port] = e]
  /\ UNCHANGED <<readings, printing, next, phase>>

\* Mutant: the ports past the failure are decoded from an empty buffer.
UpdateFailsBlank ==
  /\ phase = "update"
  /\ next \in PortIds
  /\ \E ports \in Microinverters, last \in PortIds :
       /\ {next, last} \subseteq ports
       /\ \A port \in ports : port <= last
       /\ next' = last + 1
       /\ value' = [port \in PortIds |-> IF port \in next .. last THEN 0 ELSE value[port]]
  /\ UNCHANGED <<parameters, currentFixed, updated, energy, printing, phase>>

\* The rest of a microinverter's update fails: its ports keep what they had, and the
\* update goes on with the next microinverter.
UpdateFails ==
  /\ phase = "update"
  /\ next \in PortIds
  /\ \E ports \in Microinverters, last \in PortIds :
       /\ {next, last} \subseteq ports
       /\ \A port \in ports : port <= last
       /\ next' = last + 1
  /\ UNCHANGED <<readings, energy, printing, phase>>

Turn ==
  /\ next \notin PortIds
  /\ phase' = IF phase = "update" THEN "print" ELSE "update"
  /\ next' = 1
  /\ UNCHANGED <<readings, energy, printing>>

\* Mutant: what is in the list already is not looked for.
ExtendedTwice(port) ==
  IF AllParameters /\ Len(parametersToGet) < Cardinality(parameters[port])
  THEN parametersToGet \o SetToSeq(parameters[port])
  ELSE parametersToGet

\* With -A a list shorter than the port's parameters takes up the missing ones.
Extended(port) ==
  IF AllParameters /\ Len(parametersToGet) < Cardinality(parameters[port])
  THEN parametersToGet \o SetToSeq(parameters[port] \ ToSet(parametersToGet))
  ELSE parametersToGet

\* What the line of a port shows of a list: the names that getParameterByName finds.
Line(port, names) == Selected(names, parameters[port] \ {Serial})

\* printParameters
PrintParameters ==
  /\ phase = "print"
  /\ next \in PortIds
  /\ parametersToGet' = Extended(next)
  /\ shown' = [shown EXCEPT ![next] = Line(next, parametersToGet')]
  /\ next' = next + 1
  /\ UNCHANGED <<readings, energy, asked, phase>>

Next == \/ ScanPort \/ UpdatePort \/ UpdateFails \/ Turn \/ PrintParameters
        \/ \E port \in PortIds : Produce(port)

Spec == Init /\ [][Next]_vars

\* getTotalProduction, and what has been counted in the slots that the updates read.
Total(counters, ports) == FoldFunctionOnSet(LAMBDA n, sum : n + sum, 0, counters, ports)
TotalProduction(ports) == Total(value, ports)
CountedWhereFiled(ports) == Total([port \in PortIds |-> energy[FiledSlot(port)]], ports)
-----------------------------------------------------------------------------
TypeOK ==
  /\ parameters \in [PortIds -> SUBSET Names]
  /\ currentFixed \in [PortIds -> BOOLEAN]
  /\ energy \in [Slots -> Energies]
  /\ value \in [PortIds -> Nat]
  /\ updated \subseteq PortIds
  /\ shown \in [PortIds -> Seq(STRING)]
  /\ asked \in AskedLists
  /\ IsPrefix(asked, parametersToGet)
  /\ next \in Nat \ {0}
  /\ phase \in {"scan", "update", "print"}

\* A port that is printed has one current parameter, and one only, beside all its
\* others: whatever was read of it, it never shows two currents or none, and nothing
\* else is ever erased (port.cpp:98-109).
OneCurrent ==
  \A port \in PortIds :
    /\ parameters[port] \in IF currentFixed[port]
                            THEN {Names \ {current} : current \in Currents}
                            ELSE {Names}
    /\ ~currentFixed[port] => phase = "scan" /\ next <= port

\* The decision is taken by the first reading and never revised (port.cpp:91-93).
DecisionIsFinal ==
  [][\A port \in PortIds : currentFixed[port] => parameters'[port] = parameters[port]]_vars

\* An HM is never shown at the scale of an MI, as long as it gives a power of 0 with
\* a current of 0: its power is then below ten times voltage by current (port.cpp:102).
HmReadings == \A reading \in Readings["HM"] :
                10 * reading.p < reading.u * reading.i \/ reading.p = 0
HmKeepsItsScale ==
  HmReadings => \A port \in PortIds :
                  Model[port] = "HM" => "pvCurrentHM" \in parameters[port]

\* The ports that have their lines in this pass.
Printed == {port \in PortIds : phase = "print" /\ port < next}

\* A line never shows a value twice unless the command line names it twice; and with -A
\* it shows all that its port has, if all ports have the same and the command line names
\* some of that, each once (port.cpp:166-200): the ports share the list, and one is only
\* looked through for more names while it is shorter than what the port has.
LinesAsAsked ==
  LET alike == \A port, other \in PortIds : parameters[port] = parameters[other]
      known == \A port \in PortIds : ToSet(asked) \subseteq parameters[port]
  IN \A port \in Printed :
       IsInjective(asked) =>
         /\ IsInjective(shown[port])
         /\ AllParameters /\ alike /\ known =>
              ToSet(shown[port]) = parameters[port] \ {Serial}

\* -A shows all parameters of every port ("Fetch all parameters", main.cpp:58).
AllShown ==
  AllParameters => \A port \in Printed : parameters[port] \ {Serial} \subseteq ToSet(shown[port])

\* Once updates have read all ports of a microinverter, its total never falls, although
\* ports are read at different times and updates break off: what the option -T is for
\* ("Show total production for microinverters", main.cpp:78).
TotalNeverFalls ==
  [][\A ports \in Microinverters :
       ports \subseteq updated => TotalProduction(ports)' >= TotalProduction(ports)]_vars

\* A total put together from new and old values is never more than what has been counted
\* where the updates read it (microinverter.cpp:40).
TotalNotAhead ==
  \A ports \in Microinverters :
    ports \subseteq updated => TotalProduction(ports) <= CountedWhereFiled(ports)
=============================================================================
