------------------------------ MODULE Session ------------------------------
(***************************************************************************)
(* A run of the program: main with its command line (module CommandLine), the *)
(* constructor of Dtu and Dtu::setStatusMicroinverters (src/src/main.cpp,    *)
(* src/src/hoymiles/dtu.cpp).                                                *)
(*                                                                         *)
(* The scan is represented by what Discovery proves and checks of it: the    *)
(* inventory comes from the first slots of the register map.  A pass of the  *)
(* reading loop is one step (module Polling has its inside), and the         *)
(* registers are represented by the slot they belong to.  `layout' lists the *)
(* microinverter in each slot: slot i has its parameters at register         *)
(* 0x4000 + 0x19 * (i - 1) and its statuses at 0xd006 + 6 * (i - 1).         *)
(***************************************************************************)
EXTENDS CommandLine

CONSTANTS Lines,        \* the command lines
          Layouts,      \* the register maps the DTU may have
          Serials,      \* serial numbers
          Garbage,      \* what the uninitialised member rtuId may hold
          DtuAddress    \* the address the DTU has on its serial line

ASSUME LinesAssumption == Lines \subseteq Seq(Arguments)
ASSUME SerialsAssumption == Serials \subseteq Int /\ Layouts \subseteq Seq(Serials)
ASSUME AddressAssumption == Garbage \subseteq Int /\ DtuAddress \in 0 .. 247

Options == [rtu : BOOLEAN, tcp : BOOLEAN, address : Int,
            fetch : BOOLEAN,        \* -A, or a parameter with -P
            list : BOOLEAN, write : BOOLEAN, ignore : BOOLEAN,
            statusKnown : BOOLEAN]  \* -S names onOff or limitActivePower

VARIABLES
  opts,       \* main's variables for the options
  layout,     \* the register map of the DTU
  rtuId,      \* Dtu::rtuId, which this constructor never sets
  pc,
  connected,  \* Dtu::connected
  slave,      \* the unit that requests are addressed to
  inventory,  \* Dtu::microinverters, by serial number
  chosen,     \* microinvertersToChoose
  at,         \* position in chosen of the write
  attempts,   \* history: microinverters written to, in order
  touched,    \* history: slots whose status registers were written
  ending      \* "none", "return" from main, "informed" or "refused" by the
              \* parser, "signal", "abort" or "crash"

vars == <<parse, opts, layout, rtuId, pc, connected, slave, inventory, chosen, at,
          attempts, touched, ending>>

\* The command line and the world, the object Dtu, and what the run does with them.
config == <<parse, opts, layout, rtuId>>
dtu == <<connected, slave, inventory>>
work == <<chosen, at, attempts, touched>>

TcpSlave == 255
-----------------------------------------------------------------------------
\* A slot that holds the first port of a microinverter.
IsFirst(slot) == \A other \in 1 .. slot - 1 : layout[other] # layout[slot]

\* The inventory that the first slots give: the serials in the order of
\* their first slots.  A microinverter is filed under the slot after its first.
InventoryOf(slots) ==
  LET firsts == Selected([slot \in 1 .. slots |-> slot], {slot \in 1 .. slots : IsFirst(slot)})
  IN [i \in DOMAIN firsts |-> layout[firsts[i]]]

FirstSlot(m) == CHOOSE slot \in DOMAIN layout : layout[slot] = m /\ IsFirst(slot)
StartSlot(m) == FirstSlot(m) + 1

\* The values main gives its variables before it parses.
Unset == [rtu |-> FALSE, tcp |-> FALSE, address |-> 1, fetch |-> FALSE, list |-> FALSE,
          write |-> FALSE, ignore |-> FALSE, statusKnown |-> FALSE]

Init ==
  /\ \E line \in Lines : parse = Start(line)
  /\ opts = Unset
  /\ layout = <<>>
  /\ rtuId = -1
  /\ pc = "parse"
  /\ connected = FALSE
  /\ slave = -1
  /\ inventory = <<>>
  /\ chosen = <<>>
  /\ at = 1
  /\ attempts = <<>>
  /\ touched = {}
  /\ ending = "none"

End(how) == pc' = "exit" /\ ending' = how
-----------------------------------------------------------------------------
\* One argument of the command line.
ParseArgument ==
  /\ pc = "parse" /\ InProgress(parse)
  /\ parse' = ParseSingle(parse)
  /\ UNCHANGED <<opts, layout, rtuId, dtu, work, pc, ending>>

\* Any ParseError ends the program, after help, version or a message (main.cpp:99).
ParseThrows ==
  /\ pc = "parse" /\ ~InProgress(parse)
  /\ ~Accepted(parse)
  /\ End(IF Exception(parse) \in Successes THEN "informed" ELSE "refused")
  /\ UNCHANGED <<config, dtu, work>>

\* The status to be written is one of those a port has (getStatusByName).
StatusKnown(p) == /\ Given(p, "S")
                  /\ Head(p.results["S"]).text \in {<<n>> : n \in StatusNames}

\* The options reach main's variables.  Which DTU it will be is open until here.
ParseReturns ==
  /\ pc = "parse" /\ ~InProgress(parse)
  /\ Accepted(parse)
  /\ opts' = [rtu |-> FlagSet(parse, "r"), tcp |-> FlagSet(parse, "t"),
              address |-> IF Given(parse, "a") THEN IntegerOf(Head(parse.results["a"])) ELSE 1,
              fetch |-> Given(parse, "P") \/ FlagSet(parse, "A"),
              list |-> FlagSet(parse, "M"), write |-> FlagSet(parse, "w"),
              ignore |-> FlagSet(parse, "I"),
              statusKnown |-> StatusKnown(parse)]
  /\ chosen' = [i \in DOMAIN parse.results["m"] |-> IntegerOf(parse.results["m"][i])]
  /\ layout' \in Layouts
  /\ rtuId' \in Garbage
  /\ pc' = "connect"
  /\ UNCHANGED <<parse, dtu, at, attempts, touched, ending>>
-----------------------------------------------------------------------------
\* Mutant: every address is taken.
WithSlaveUnchecked(current, id) == id

\* modbus_set_slave: an address out of range is refused, which nobody notices.
WithSlave(current, id) ==
  IF id \in 0 .. 247 \/ (~opts.rtu /\ id = TcpSlave) THEN id ELSE current

\* The unit addressed when the scan begins: the backend's default, for RTU what
\* -a says, and then whatever rtuId holds.
SlaveForScan ==
  LET given == IF opts.rtu THEN WithSlave(-1, opts.address) ELSE TcpSlave
  IN IF rtuId # -1 THEN WithSlave(given, rtuId) ELSE given

ConnectSucceeds ==
  /\ pc = "connect"
  /\ opts.rtu \/ opts.tcp
  /\ connected' = TRUE
  /\ slave' = SlaveForScan
  /\ pc' = "scan"
  /\ UNCHANGED <<config, inventory, work, ending>>

\* Mutant: the inventory is not looked at when the connection has failed.
ConnectFailsButScans ==
  /\ pc = "connect"
  /\ connected' = FALSE
  /\ pc' = "scan"
  /\ UNCHANGED <<config, slave, inventory, work, ending>>

\* No connection, or without -r and -t an uninitialised context that happens to
\* be a null pointer: there is no scan.
ConnectFails ==
  /\ pc = "connect"
  /\ connected' = FALSE
  /\ pc' = "loop"
  /\ UNCHANGED <<config, slave, inventory, work, ending>>

\* Without -r and -t the context is an uninitialised pointer.
ConnectCrashes ==
  /\ pc = "connect"
  /\ ~opts.rtu /\ ~opts.tcp
  /\ End("crash")
  /\ UNCHANGED <<config, dtu, work>>

\* A request reaches the DTU: on a serial line it must carry its address.
Reaches == ~opts.rtu \/ slave = DtuAddress

\* populateMicroinverters: a prefix of the slots, see Discovery.
Scan ==
  /\ pc = "scan"
  /\ \E slots \in 0 .. Len(layout) :
       /\ slots > 0 => Reaches
       /\ inventory' = InventoryOf(slots)
  /\ pc' = "loop"
  /\ UNCHANGED <<config, connected, slave, work, ending>>

\* SIGABRT ends in exit(0): from the assertion on the slave address in the first
\* RTU request, or from std::stoll on a serial number that is not decimal.
Aborts ==
  /\ pc \in {"scan", "update"}
  /\ slave = -1 \/ Reaches
  /\ End("abort")
  /\ UNCHANGED <<config, dtu, work>>
-----------------------------------------------------------------------------
\* Mutant: it is not looked at whether there is anything to fetch.
KeepsPollingUnasked ==
  /\ ~opts.write /\ ~opts.list
  /\ inventory # <<>>
  /\ connected \/ opts.ignore

\* The condition of main's loop.
KeepsPolling ==
  /\ ~opts.write /\ ~opts.list
  /\ inventory # <<>>
  /\ connected \/ opts.ignore
  /\ opts.fetch

LoopAgain ==
  /\ pc = "loop"
  /\ KeepsPolling
  /\ pc' = "update"
  /\ UNCHANGED <<config, dtu, work, ending>>

LoopEnds ==
  /\ pc = "loop"
  /\ ~KeepsPolling
  /\ pc' = "list"
  /\ UNCHANGED <<config, dtu, work, ending>>

\* An empty choice is filled in with the whole inventory.
ChosenNow == IF chosen = <<>> THEN inventory ELSE chosen

\* updateMicroinverters: the choice is filled in, the rest is Polling's.
Update ==
  /\ pc = "update"
  /\ chosen' = ChosenNow
  /\ pc' = "print"
  /\ UNCHANGED <<config, dtu, at, attempts, touched, ending>>

\* Mutant: one pass only.
ShowAndLeave ==
  /\ pc = "print"
  /\ pc' = "list"
  /\ UNCHANGED <<config, dtu, work, ending>>

Show ==
  /\ pc = "print"
  /\ pc' = "loop"
  /\ UNCHANGED <<config, dtu, work, ending>>

\* After the loop: the listing, if asked for, and the choice of a write.
List ==
  /\ pc = "list"
  /\ pc' = "write"
  /\ chosen' = IF opts.write THEN ChosenNow ELSE chosen
  /\ UNCHANGED <<config, dtu, at, attempts, touched, ending>>

\* What a write has for a target: the serials that were found, if the status exists.
Writable == {m \in ToSet(inventory) : opts.statusKnown}

\* Mutant: a write that fails ends the writing.
WriteOneOrStop ==
  /\ pc = "write" /\ opts.write
  /\ at <= Len(chosen)
  /\ IF chosen[at] \in Writable
     THEN /\ attempts' = Append(attempts, chosen[at])
          /\ \/ touched' = touched \cup {StartSlot(chosen[at])} /\ at' = at + 1
             \/ UNCHANGED touched /\ at' = Len(chosen) + 1
     ELSE UNCHANGED <<attempts, touched>> /\ at' = at + 1
  /\ UNCHANGED <<config, dtu, chosen, pc, ending>>

\* setStatusWholeMicroinverter: one register of the block at the start slot.  The
\* write may be carried out or not: nobody looks at the result.
WriteStatus(m) == \/ touched' = touched \cup {StartSlot(m)}
                  \/ UNCHANGED touched

WriteOne ==
  /\ pc = "write" /\ opts.write
  /\ at <= Len(chosen)
  /\ IF chosen[at] \in Writable
     THEN attempts' = Append(attempts, chosen[at]) /\ WriteStatus(chosen[at])
     ELSE UNCHANGED <<attempts, touched>>
  /\ at' = at + 1
  /\ UNCHANGED <<config, dtu, chosen, pc, ending>>

MainReturns ==
  /\ pc = "write"
  /\ ~opts.write \/ at > Len(chosen)
  /\ End("return")
  /\ UNCHANGED <<config, dtu, work>>

\* SIGINT or SIGTERM, at any moment.
Signal ==
  /\ pc # "exit"
  /\ End("signal")
  /\ UNCHANGED <<config, dtu, work>>

Step == \/ ParseArgument \/ ParseThrows \/ ParseReturns
        \/ ConnectSucceeds \/ ConnectFails \/ ConnectCrashes
        \/ Scan \/ Aborts
        \/ LoopAgain \/ LoopEnds \/ Update \/ Show
        \/ List \/ WriteOne \/ MainReturns

Next == Step \/ Signal

Spec == Init /\ [][Next]_vars

\* The program is sequential and each of its calls returns; a signal may never come.
FairSpec == Spec /\ WF_vars(Step)
-----------------------------------------------------------------------------
TypeOK ==
  /\ opts \in Options
  /\ parse \in Parses
  /\ layout \in Layouts \cup {<<>>}
  /\ rtuId \in Garbage \cup {-1}
  /\ pc \in {"parse", "connect", "scan", "loop", "update", "print", "list", "write", "exit"}
  /\ connected \in BOOLEAN
  /\ slave \in {-1, TcpSlave} \cup 0 .. 247
  /\ inventory \in Seq(Serials)
  /\ chosen \in Seq(Int)
  /\ at \in 1 .. Len(chosen) + 1
  /\ attempts \in Seq(Serials)
  /\ touched \subseteq 2 .. Len(layout) + 1
  /\ ending \in {"none", "return", "signal", "abort", "crash", "informed", "refused"}

\* -I never makes the program poll a DTU it is not connected to, although the
\* condition of the loop allows for it (main.cpp:120): what it would poll is
\* found only after a connection (dtu.cpp:25-33).
PollsOnlyConnected == pc \in {"update", "print"} => connected

\* The program connects over a transport that it was told everything of: the address
\* and the device of a serial line, or the IP address, which is what the chain of needs
\* in main is for (main.cpp:34,38,46); with both -r and -t that is the serial line,
\* which replaces the other context (dtu.cpp:16-23).
TransportGiven ==
  connected => IF opts.rtu THEN Given(parse, "a") /\ Given(parse, "d") ELSE Given(parse, "i")

\* The microinverters that a write is about, in order.
Targets == Selected(ChosenNow, Writable)

\* Whatever fails, a write tries every chosen microinverter once, in the order
\* given, and no other; an interruption leaves a prefix of them tried.
WritesInOrder ==
  /\ opts.write => IsPrefix(attempts, Targets)
  /\ (opts.write /\ ending = "return") => attempts = Targets
  /\ ~opts.write => attempts = <<>> /\ touched = {}

\* A run that lists or writes ends by itself, and so does one with nothing to
\* fetch, whatever the DTU does.
OneShotEnds ==
  (pc # "parse" /\ (opts.write \/ opts.list \/ ~opts.fetch)) ~> (pc = "exit")

\* A run that polls goes on until it is killed or breaks off: a connection that
\* has failed for good is polled on, for `connected' is never looked at again.
PollsUntilKilled ==
  [](pc = "update" => ([]<>(pc = "update") \/ <>(ending \in {"signal", "abort"})))

\* Requests on a serial line carry the address given with -a ("Address on RS485",
\* main.cpp:30).
RequestsCarryGivenAddress ==
  (opts.rtu /\ connected /\ opts.address \in 0 .. 247) => slave = opts.address

\* A write changes the status registers of no microinverter that was not chosen
\* ("List of microinverters to work on", main.cpp:70).
WritesReachChosen ==
  \A i \in touched \cap DOMAIN layout : layout[i] \in ToSet(chosen)
=============================================================================
