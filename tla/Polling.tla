------------------------------ MODULE Polling ------------------------------
(***************************************************************************)
(* The reading loop of main: Dtu::updateMicroinverters calls, for each        *)
(* chosen microinverter, updateParameters and updateStatusParameters, and     *)
(* Dtu::printMicroinverters then shows the values with their `age'            *)
(* (src/src/hoymiles/dtu.cpp, microinverter.cpp, src/src/main.cpp).           *)
(*                                                                           *)
(* The ports of a microinverter are read in chunks, one request each, and a   *)
(* chunk that fails ends the update: the ports before it are fresh, the rest  *)
(* keep what they had.  A port's data is represented by the number of the     *)
(* pass it was read in; 0 is what the constructor left.                       *)
(***************************************************************************)
EXTENDS Integers, Sequences

CONSTANTS Serials,           \* serial numbers, of microinverters or mistyped
          Inventory,         \* the microinverters found, in order of discovery
          NumPorts,          \* ports of each microinverter
          Choices,           \* what -m may be given: sequences of serials
          MaxReadRegisters,  \* MODBUS_MAX_READ_REGISTERS (125)
          MaxPasses          \* bound on the passes of the endless loop

Micros == {Inventory[i] : i \in DOMAIN Inventory}

ASSUME InventoryAssumption ==
  /\ Inventory \in Seq(Serials)
  /\ NumPorts \in [Micros -> Nat \ {0}]
  /\ Choices \subseteq Seq(Serials)
  /\ MaxReadRegisters \in Nat /\ MaxPasses \in Nat

VARIABLES
  pc,           \* "loop", "select", "parameters", "statuses" or "print"
  pass,         \* passes begun
  chosen,       \* microinvertersToGet: filled in when it is empty
  at,           \* the position in chosen
  portsRead,    \* ports of the microinverter at hand done in this update
  age,          \* Microinverter::age
  paramPass,    \* history: pass in which a port's parameters were last read
  statusPass    \* history: the same for its statuses

vars == <<pc, pass, chosen, at, portsRead, age, paramPass, statusPass>>

PortsOf(m) == 1 .. NumPorts[m]
-----------------------------------------------------------------------------
Init ==
  /\ pc = "loop"
  /\ pass = 0
  /\ chosen \in Choices
  /\ at = 1
  /\ portsRead = 0
  /\ age = [m \in Micros |-> 0]
  /\ paramPass = [m \in Micros |-> [p \in PortsOf(m) |-> 0]]
  /\ statusPass = [m \in Micros |-> [p \in PortsOf(m) |-> 0]]

\* One more round of main's loop; an empty choice becomes everything there is.
StartPass ==
  /\ pc = "loop"
  /\ pass < MaxPasses
  /\ pc' = "select"
  /\ pass' = pass + 1
  /\ chosen' = IF chosen = <<>> THEN Inventory ELSE chosen
  /\ at' = 1
  /\ UNCHANGED <<portsRead, age, paramPass, statusPass>>

Current == chosen[at]

\* Mutant: the outcome of the lookup is not looked at.
SelectAny ==
  /\ pc = "select"
  /\ at <= Len(chosen)
  /\ pc' = "parameters"
  /\ portsRead' = 0
  /\ UNCHANGED <<pass, chosen, at, age, paramPass, statusPass>>

\* The lookup by serial: a number that no microinverter has is passed over.
SelectKnown ==
  /\ pc = "select"
  /\ at <= Len(chosen)
  /\ Current \in Micros
  /\ pc' = "parameters"
  /\ portsRead' = 0
  /\ UNCHANGED <<pass, chosen, at, age, paramPass, statusPass>>

SelectUnknown ==
  /\ pc = "select"
  /\ at <= Len(chosen)
  /\ Current \notin Micros
  /\ at' = at + 1
  /\ UNCHANGED <<pc, pass, chosen, portsRead, age, paramPass, statusPass>>

SelectNone ==
  /\ pc = "select"
  /\ at > Len(chosen)
  /\ pc' = "print"
  /\ UNCHANGED <<pass, chosen, at, portsRead, age, paramPass, statusPass>>
-----------------------------------------------------------------------------
\* Registers of a port's parameters and of its statuses.
ParamStride == 25
StatusStride == 6

\* Mutant: the limit is not lowered by one stride.
PortsToReadTooMany(stride) ==
  LET remaining == NumPorts[Current] - portsRead
      full == 127 \div stride + 1
  IN IF remaining < full THEN remaining ELSE full

\* The chunk loops: ports are added while the registers stay under the limit
\* of 128 less one stride, so a full chunk has 127 \div stride ports: 5 blocks of
\* 25 parameter registers, or 21 blocks of 6 status registers.
PortsToRead(stride) ==
  LET remaining == NumPorts[Current] - portsRead
      full == 127 \div stride
  IN IF remaining < full THEN remaining ELSE full

RegistersToRead(stride) == stride * PortsToRead(stride)

\* Mutant: a chunk starts one port late.
ChunkShifted(stride) == portsRead + 2 .. portsRead + 1 + PortsToRead(stride)

Chunk(stride) == portsRead + 1 .. portsRead + PortsToRead(stride)

\* The ports of a chunk take over what was just read.
Refreshed(data, stride) ==
  [data EXCEPT ![Current] = [p \in DOMAIN @ |-> IF p \in Chunk(stride) THEN pass ELSE @[p]]]

\* A request for too many registers fails before it is sent.
MayAnswer(stride) == RegistersToRead(stride) <= MaxReadRegisters

\* updateParameters, one chunk.
ReadParameters ==
  /\ pc = "parameters"
  /\ portsRead < NumPorts[Current]
  /\ MayAnswer(ParamStride)
  /\ paramPass' = Refreshed(paramPass, ParamStride)
  /\ portsRead' = portsRead + PortsToRead(ParamStride)
  /\ UNCHANGED <<pc, pass, chosen, at, age, statusPass>>

ParametersFail ==
  /\ pc = "parameters"
  /\ portsRead < NumPorts[Current]
  /\ age' = [age EXCEPT ![Current] = @ + 1]
  /\ pc' = "statuses"
  /\ portsRead' = 0
  /\ UNCHANGED <<pass, chosen, at, paramPass, statusPass>>

ParametersDone ==
  /\ pc = "parameters"
  /\ portsRead >= NumPorts[Current]
  /\ pc' = "statuses"
  /\ portsRead' = 0
  /\ UNCHANGED <<pass, chosen, at, age, paramPass, statusPass>>

\* updateStatusParameters, one chunk: success clears the age.
ReadStatuses ==
  /\ pc = "statuses"
  /\ portsRead < NumPorts[Current]
  /\ MayAnswer(StatusStride)
  /\ age' = [age EXCEPT ![Current] = 0]
  /\ statusPass' = Refreshed(statusPass, StatusStride)
  /\ portsRead' = portsRead + PortsToRead(StatusStride)
  /\ UNCHANGED <<pc, pass, chosen, at, paramPass>>

\* Mutant: a failure of the statuses does not age the data.
StatusesFailUnaged ==
  /\ pc = "statuses"
  /\ portsRead < NumPorts[Current]
  /\ pc' = "select"
  /\ at' = at + 1
  /\ UNCHANGED <<pass, chosen, portsRead, age, paramPass, statusPass>>

\* Mutant: the failed microinverter is tried again and again.
StatusesFailRetried ==
  /\ pc = "statuses"
  /\ portsRead < NumPorts[Current]
  /\ pc' = "select"
  /\ UNCHANGED <<pass, chosen, at, age, portsRead, paramPass, statusPass>>

StatusesFail ==
  /\ pc = "statuses"
  /\ portsRead < NumPorts[Current]
  /\ age' = [age EXCEPT ![Current] = @ + 1]
  /\ pc' = "select"
  /\ at' = at + 1
  /\ UNCHANGED <<pass, chosen, portsRead, paramPass, statusPass>>

StatusesDone ==
  /\ pc = "statuses"
  /\ portsRead >= NumPorts[Current]
  /\ pc' = "select"
  /\ at' = at + 1
  /\ UNCHANGED <<pass, chosen, portsRead, age, paramPass, statusPass>>

\* printMicroinverters shows what there is and changes nothing here.
Show ==
  /\ pc = "print"
  /\ pc' = "loop"
  /\ UNCHANGED <<pass, chosen, at, portsRead, age, paramPass, statusPass>>
-----------------------------------------------------------------------------
Next == \/ StartPass \/ SelectKnown \/ SelectUnknown \/ SelectNone
        \/ ReadParameters \/ ParametersFail \/ ParametersDone
        \/ ReadStatuses \/ StatusesFail \/ StatusesDone
        \/ Show

Spec == Init /\ [][Next]_vars

\* The loop is sequential code, and every modbus call returns.
FairSpec == Spec /\ WF_vars(Next)
-----------------------------------------------------------------------------
TypeOK ==
  /\ pc \in {"loop", "select", "parameters", "statuses", "print"}
  /\ pass \in 0 .. MaxPasses
  /\ chosen \in Choices \cup {Inventory}
  /\ at \in 1 .. Len(chosen) + 1
  /\ portsRead \in Nat
  /\ age \in [Micros -> Nat]
  /\ DOMAIN paramPass = Micros /\ DOMAIN statusPass = Micros
  /\ \A m \in Micros : /\ paramPass[m] \in [PortsOf(m) -> 0 .. MaxPasses]
                       /\ statusPass[m] \in [PortsOf(m) -> 0 .. MaxPasses]
  /\ pc \in {"parameters", "statuses"} => at <= Len(chosen) /\ Current \in Micros

\* The user asked for this microinverter, or for all of them.
Chosen(m) == \E i \in DOMAIN chosen : chosen[i] = m

\* When the values are shown, the age of a chosen microinverter is at least the
\* number of passes since its statuses were read, whatever failed since: age 0
\* means statuses of this pass (microinverter.cpp:43,70,74).
AgeBoundsStatuses ==
  pc = "print" =>
    \A m \in Micros : Chosen(m) =>
      \A p \in PortsOf(m) : pass - statusPass[m][p] <= age[m]

\* The same for the parameters, which are what is shown under the line
\* "Microinverter Data Age" (dtu.cpp:167).
AgeBoundsParameters ==
  pc = "print" =>
    \A m \in Micros : Chosen(m) =>
      \A p \in PortsOf(m) : pass - paramPass[m][p] <= age[m]

\* An update that breaks off leaves the first ports newer, never a gap: port i is
\* at least as fresh as port i + 1, at every moment and after any failures.
FreshPrefix ==
  \A m \in Micros : \A p, q \in PortsOf(m) :
    p < q => /\ paramPass[m][p] >= paramPass[m][q]
             /\ statusPass[m][p] >= statusPass[m][q]

\* Every request asks for at most what Modbus allows (modbus.h:88, 1 to 125).
RequestsLegal ==
  /\ (pc = "parameters" /\ portsRead < NumPorts[Current]) =>
        RegistersToRead(ParamStride) \in 1 .. MaxReadRegisters
  /\ (pc = "statuses" /\ portsRead < NumPorts[Current]) =>
        RegistersToRead(StatusStride) \in 1 .. MaxReadRegisters

\* Every pass ends by showing its values, whatever fails on the way.
PassEnds == (pc = "select") ~> (pc = "print")
=============================================================================
