---------------------------- MODULE ModbusContext ----------------------------
(***************************************************************************)
(* The life of the contexts of libmodbus and of the descriptors they hold:     *)
(* making a context, connecting over TCP, over the protocol independent        *)
(* backend or over a serial line, listening, accepting, closing, freeing, and   *)
(* sending and receiving as far as they recover the link                        *)
(* (src/src/libmodbus/src/modbus.c, modbus-tcp.c, modbus-rtu.c).                *)
(*                                                                           *)
(* A call that sets up a descriptor is a job of several stages, each a call of   *)
(* the operating system that can fail.  The program may make any call at any    *)
(* time, a second connect on a connected context included: the descriptors that  *)
(* it loses that way, and only those, are in `lost'.                             *)
(*                                                                           *)
(* Three calls of the driver of a serial line may fail without the library        *)
(* looking: the line then differs from what the context takes it for, which       *)
(* `slips' remembers.                                                            *)
(***************************************************************************)
EXTENDS Integers, Sequences, FiniteSets

CONSTANTS Contexts,
          Programs,      \* bound: of each context, the kinds it may be of and the settings
                         \* that the program changes
          Descriptors,   \* the numbers the operating system gives out
          Addresses,     \* bound: addresses a name resolves to
          Bauds,         \* rates that a serial line is asked to have
          MaxLost,       \* bound: descriptors that the program loses
          MaxFaults,     \* bound: calls of the operating system that fail, and deaths of peers
          MaxSlips       \* bound: kinds of failures that the library does not look at

Kinds == {"tcp", "pi", "rtu"}
Settings == {"recovery", "byte", "indication", "mode", "rts"}

ASSUMPTION ContextAssumption ==
  /\ Programs \subseteq [Contexts -> [kinds : SUBSET Kinds, settings : SUBSET Settings]]
  /\ Descriptors \subseteq Nat /\ Bauds \subseteq Nat \ {0}
  /\ Addresses \in Nat \ {0} /\ MaxLost \in Nat /\ MaxFaults \in Nat /\ MaxSlips \in Nat

VARIABLES
  program,    \* one of the programs
  ctx,        \* every context, as in NoContext
  open,       \* what every descriptor is: "free", "socket", "listening", "line", "up", "dead"
  listeners,  \* descriptors that modbus_tcp_listen returned and the program has
  lost,       \* open descriptors that nobody knows any more
  job,        \* the call in progress
  line,       \* the serial line: speed, mode, RTS signal, whether it has broken, and
              \* history: what has failed on it unnoticed
  network,    \* whether peers can be reached
  faults

vars == <<program, ctx, open, listeners, lost, job, line, network, faults>>
environment == <<program, line, network>>

NoDescriptor == -1

\* The rates there are constants for.  Any other becomes the default, without a word.
Speeds == {110, 300, 600, 1200, 2400, 4800, 9600, 19200, 38400, 57600, 115200, 230400,
           460800, 500000, 576000, 921600, 1000000, 1152000, 1500000, 2500000, 3000000,
           3500000, 4000000}
Speed(baud) == IF baud \in Speeds THEN baud ELSE 9600

\* The settings a serial line has before any context has changed them.
AsFound == 0

\* No settings at all: what is in the memory of a context that has saved none.
Unset == -1

\* The calls of the driver whose result is dropped: saving the settings of the line,
\* restoring them, and setting RTS, the last as long as it has not been set since.
Unchecked == {"saving", "restoring", "signal"}
MaySlip(call) == Cardinality(line.slips \cup {call}) <= MaxSlips

\* The modes of a serial line; "none" in a build that can set neither it nor RTS.
Modes == {"RS232", "RS485"}

\* The RTS signal while sending, if the library sets it at all, and between sends.
Signals == {"up", "down"}
Resting(rts) == IF rts = "up" THEN "down" ELSE "up"

\* `byte' and `indication' are timeouts, which may be off; that for a response is not.
\* `saved' are the settings of the line to be restored.
NoContext == [kind |-> "none", s |-> NoDescriptor, recovery |-> FALSE,
              byte |-> TRUE, indication |-> FALSE,
              baud |-> 0, saved |-> Unset, mode |-> "RS232", rts |-> "none"]

\* The stages of connecting and listening.
Route ==
  [connect |-> [tcp |-> <<"socket", "options", "address", "connect">>,
                pi  |-> <<"resolve", "socket", "connect">>,
                rtu |-> <<"open", "speed", "attributes">>],
   listen  |-> [tcp |-> <<"socket", "reuse", "address", "bind", "listen">>,
                pi  |-> <<"resolve", "socket", "reuse", "bind", "listen">>]]

\* What a connect tells the program.
Outcomes == {"ok", "error", "unresolved"}

\* `for' is whose connect it is: the program's, or that of a send or receive that
\* recovers.  A receive is in its second stage once it has read some bytes.  `s' is the
\* descriptor in the making, `left' the addresses to try.
Idle == [call |-> "none", ctx |-> "none", stage |-> 1, s |-> NoDescriptor,
         left |-> 0, for |-> "program"]
Job(call, c, for) == [call |-> call, ctx |-> c, stage |-> 1, s |-> NoDescriptor,
                      left |-> IF ctx[c].kind = "pi" THEN Addresses ELSE 1, for |-> for]

KindOf(j) == ctx[j.ctx].kind
Stage == Route[job.call][KindOf(job)][job.stage]
Last == job.stage = Len(Route[job.call][KindOf(job)])

\* connect over TCP and serial lines keeps the descriptor in the context from the
\* start; the others have it in a variable of their own.
Direct(j) == j.call = "connect" /\ KindOf(j) # "pi"

\* The operating system gives out the lowest number that is free.
NoneFree == \A d \in Descriptors : open[d] # "free"
IsNext(d) == open[d] = "free" /\ \A lower \in Descriptors : lower < d => open[lower] # "free"

Known(s) == IF s = NoDescriptor THEN {} ELSE {s}
Fault == faults < MaxFaults /\ faults' = faults + 1
-----------------------------------------------------------------------------
Init ==
  /\ program \in Programs
  /\ ctx = [c \in Contexts |-> NoContext]
  /\ open = [d \in Descriptors |-> "free"]
  /\ listeners = {} /\ lost = {}
  /\ job = Idle
  /\ line = [speed |-> AsFound, rs485 |-> FALSE, rts |-> "up", broken |-> FALSE, slips |-> {}]
  /\ network = TRUE
  /\ faults = 0

\* modbus_new_tcp, modbus_new_tcp_pi.
Create(c, kind) ==
  /\ job = Idle /\ ctx[c].kind = "none"
  /\ kind # "rtu"
  /\ ctx' = [ctx EXCEPT ![c] = [NoContext EXCEPT !.kind = kind]]
  /\ UNCHANGED <<open, listeners, lost, job, environment, faults>>

\* modbus_new_rtu.  There is one serial line, and the program makes one context for it
\* at a time.
CreateRtu(c, baud, mode) ==
  /\ job = Idle /\ ctx[c].kind = "none"
  /\ \A other \in Contexts : ctx[other].kind # "rtu"
  /\ ctx' = [ctx EXCEPT ![c] = [NoContext EXCEPT !.kind = "rtu", !.baud = baud, !.mode = mode]]
  /\ UNCHANGED <<open, listeners, lost, job, environment, faults>>

\* modbus_free closes nothing.
Free(c) ==
  /\ job = Idle /\ ctx[c].kind # "none"
  /\ ctx' = [ctx EXCEPT ![c] = NoContext]
  /\ lost' = lost \cup Known(ctx[c].s)
  /\ UNCHANGED <<open, listeners, job, environment, faults>>

\* A descriptor that works.
Works(c) == ctx[c].s # NoDescriptor /\ open[ctx[c].s] = "up"

\* Mutant: the number of the closed descriptor stays in the context.
ClosedOnly(c) == /\ open' = IF ctx[c].s = NoDescriptor THEN open ELSE [open EXCEPT ![ctx[c].s] = "free"]
                 /\ UNCHANGED <<ctx, line>>

\* Mutant: the settings of the line are not restored.
RestoredNever(c) == UNCHANGED line

\* A serial line that still works gets back the settings that were saved, unless the
\* driver refuses.
Restored(c) ==
  IF ctx[c].kind = "rtu" /\ Works(c)
  THEN \/ line' = [line EXCEPT !.speed = ctx[c].saved]
       \/ MaySlip("restoring") /\ line' = [line EXCEPT !.slips = @ \cup {"restoring"}]
  ELSE UNCHANGED line

\* The backend's close.
Closed(c) ==
  /\ open' = [d \in Descriptors |-> IF d = ctx[c].s THEN "free" ELSE open[d]]
  /\ ctx' = [ctx EXCEPT ![c].s = NoDescriptor]
  /\ Restored(c)

Close(c) ==
  /\ job = Idle /\ ctx[c].kind # "none"
  /\ Closed(c)
  /\ UNCHANGED <<listeners, lost, job, program, network, faults>>

\* modbus_set_error_recovery, modbus_set_byte_timeout and modbus_set_indication_timeout,
\* which turn the timeout off when it is to be 0.  That for a response cannot be.
Set(c, field, on) ==
  /\ job = Idle /\ ctx[c].kind # "none"
  /\ ctx' = [ctx EXCEPT ![c][field] = on]
  /\ UNCHANGED <<open, listeners, lost, job, environment, faults>>

ModeRefused(c, mode) == UNCHANGED <<line, ctx>>

\* modbus_rtu_set_serial_mode.  The driver is asked for the mode of the line and told the new one; both calls
\* fail on a context that is not connected.  RS232 is only set if it was not.  A build
\* without the calls, as this repository's own, refuses.
SetSerialMode(c, mode) ==
  LET asks == mode = "RS485" \/ ctx[c].mode = "RS485"
      done == /\ line' = IF asks THEN [line EXCEPT !.rs485 = (mode = "RS485")] ELSE line
              /\ ctx' = [ctx EXCEPT ![c].mode = mode]
              /\ UNCHANGED faults
  IN /\ job = Idle /\ ctx[c].kind # "none"
     /\ IF ctx[c].kind # "rtu" \/ ctx[c].mode = "none" \/ (asks /\ ~Works(c))
        THEN ModeRefused(c, mode) /\ UNCHANGED faults
        ELSE done \/ (asks /\ Fault /\ ModeRefused(c, mode))
     /\ UNCHANGED <<open, listeners, lost, job, program, network>>

\* RTS is set to a signal; if the driver refuses, it is left at one of `others'.
SetSignal(signal, others) ==
  \/ line' = [line EXCEPT !.rts = signal, !.slips = @ \ {"signal"}]
  \/ /\ MaySlip("signal")
     /\ \E old \in others : line' = [line EXCEPT !.rts = old, !.slips = @ \cup {"signal"}]

\* A send sets the signal, if the library does at all, before and after it writes.
Signalled(c) == IF Works(c) /\ ctx[c].rts # "none"
                THEN SetSignal(Resting(ctx[c].rts), {line.rts, ctx[c].rts})
                ELSE UNCHANGED line

\* modbus_rtu_set_rts, with set_rts as it is by default, which fails unnoticed.
SetRts(c, rts) ==
  /\ job = Idle /\ ctx[c].kind = "rtu" /\ ctx[c].mode # "none"
  /\ ctx' = [ctx EXCEPT ![c].rts = rts]
  /\ IF Works(c) THEN SetSignal(Resting(rts), {line.rts}) ELSE UNCHANGED line
  /\ UNCHANGED <<open, listeners, lost, job, program, network, faults>>
-----------------------------------------------------------------------------
Connect(c) ==
  /\ job = Idle /\ ctx[c].kind # "none"
  /\ job' = Job("connect", c, "program")
  /\ UNCHANGED <<ctx, open, listeners, lost, environment, faults>>

Listen(c) ==
  /\ job = Idle /\ ctx[c].kind \in {"tcp", "pi"}
  /\ job' = Job("listen", c, "program")
  /\ UNCHANGED <<ctx, open, listeners, lost, environment, faults>>

\* Mutant: the descriptor stays in the making.
AfterConnectingUnfinished(outcome) ==
  job' = CASE job.for = "send" -> [job EXCEPT !.call = "send"]
           [] job.for = "program" -> [Idle EXCEPT !.call = outcome, !.ctx = job.ctx]
           [] OTHER -> Idle

\* What follows connecting: the program is told the outcome, a send tries again whether
\* it is connected or not, a receive has failed.
AfterConnecting(outcome) ==
  job' = CASE job.for = "send" -> Job("send", job.ctx, "program")
           [] job.for = "program" -> [Idle EXCEPT !.call = outcome, !.ctx = job.ctx]
           [] OTHER -> Idle

Return ==
  /\ job.call \in Outcomes
  /\ job' = Idle
  /\ UNCHANGED <<ctx, open, listeners, lost, environment, faults>>

\* A line that is opened: its RTS is raised, and its settings are told, or not.
Opened(told) == [line EXCEPT !.rts = "up",
                             !.slips = (@ \ {"signal"}) \cup IF told THEN {} ELSE {"saving"}]

\* A new descriptor, in the context at once or not.  A line that does not tell its
\* settings leaves in the context those saved before, or none.
GetDescriptor ==
  /\ job.call \in {"connect", "listen"} /\ Stage \in {"socket", "open"}
  /\ \E d \in Descriptors, told \in BOOLEAN :
       /\ IsNext(d)
       /\ open' = [open EXCEPT ![d] = IF Stage = "open" THEN "line" ELSE "socket"]
       /\ job' = [job EXCEPT !.s = d, !.stage = @ + 1]
       /\ IF Direct(job)
          THEN /\ ctx' = [ctx EXCEPT ![job.ctx].s = d,
                                     ![job.ctx].saved = IF Stage = "open" /\ told
                                                        THEN line.speed ELSE @]
               /\ lost' = lost \cup Known(ctx[job.ctx].s)
          ELSE UNCHANGED <<ctx, lost>>
       /\ line' = IF Stage = "open" THEN Opened(told) ELSE line
       /\ told \/ (Stage = "open" /\ MaySlip("saving"))
  /\ UNCHANGED <<listeners, program, network, faults>>

\* A stage in between.  The options of a socket are optional for "pi".
Proceed ==
  /\ job.call \in {"connect", "listen"}
  /\ Stage \in {"resolve", "options", "address", "reuse", "bind", "speed"}
  /\ job' = [job EXCEPT !.stage = @ + 1]
  /\ UNCHANGED <<ctx, open, listeners, lost, environment, faults>>

\* connect returns, or select says so within the response timeout; tcsetattr.
ConnectSucceeds ==
  /\ job.call = "connect" /\ Last
  /\ Stage = "connect" => network
  /\ open' = [open EXCEPT ![job.s] = "up"]
  /\ IF Direct(job)
     THEN UNCHANGED <<ctx, lost>>
     ELSE /\ ctx' = [ctx EXCEPT ![job.ctx].s = job.s]
          /\ lost' = lost \cup Known(ctx[job.ctx].s)
  /\ line' = IF Stage = "attributes" THEN [line EXCEPT !.speed = Speed(ctx[job.ctx].baud)]
             ELSE line
  /\ AfterConnecting("ok")
  /\ UNCHANGED <<listeners, program, network, faults>>

ListenSucceeds ==
  /\ job.call = "listen" /\ Last
  /\ listeners' = listeners \cup {job.s}
  /\ open' = [open EXCEPT ![job.s] = "listening"]
  /\ job' = Idle
  /\ UNCHANGED <<ctx, lost, environment, faults>>

\* Mutant: a descriptor in the making stays open when a later stage fails.
GivesUpOpen == UNCHANGED open

\* The descriptor in the making is closed, if there is one.
GivesUp == open' = [d \in Descriptors |-> IF d = job.s THEN "free" ELSE open[d]]

\* Why a stage fails: no descriptor is left, the peer cannot be reached, or a fault.
Cause ==
  \/ Stage \in {"socket", "open"} /\ NoneFree /\ UNCHANGED faults
  \/ Stage = "connect" /\ ~network /\ UNCHANGED faults
  \/ Fault

\* Over TCP and serial lines the call ends; what the context held is forgotten when
\* even the descriptor is not to be had.
DirectStageFails ==
  /\ Direct(job)
  /\ Cause
  /\ GivesUp
  /\ ctx' = [ctx EXCEPT ![job.ctx].s = NoDescriptor]
  /\ lost' = IF job.s = NoDescriptor THEN lost \cup Known(ctx[job.ctx].s) ELSE lost
  /\ AfterConnecting("error")
  /\ UNCHANGED <<listeners, environment>>

\* "pi" goes on with the next address.  A connect without any left is successful if
\* the context has a descriptor, be it from before.
NextAddress ==
  /\ job.call \in {"connect", "listen"} /\ KindOf(job) = "pi" /\ job.stage > 1
  /\ Cause
  /\ GivesUp
  /\ IF job.left > 1
     THEN job' = [job EXCEPT !.left = @ - 1, !.stage = 2, !.s = NoDescriptor]
     ELSE IF job.call = "connect"
     THEN AfterConnecting(IF ctx[job.ctx].s = NoDescriptor THEN "error" ELSE "ok")
     ELSE job' = Idle
  /\ UNCHANGED <<ctx, listeners, lost, environment>>

\* The name is not resolved; a stage of listening on one address fails.
CallFails ==
  /\ job.call \in {"connect", "listen"}
  /\ \/ KindOf(job) = "pi" /\ job.stage = 1
     \/ KindOf(job) = "tcp" /\ job.call = "listen"
  /\ Cause
  /\ GivesUp
  /\ IF job.call = "listen" THEN job' = Idle
     ELSE AfterConnecting("unresolved")
  /\ UNCHANGED <<ctx, listeners, lost, environment>>
-----------------------------------------------------------------------------
\* accept puts what it returns into the context, -1 included.
Accept(c, l) ==
  /\ job = Idle /\ ctx[c].kind \in {"tcp", "pi"} /\ network
  /\ \/ \E d \in Descriptors :
          /\ IsNext(d)
          /\ open' = [open EXCEPT ![d] = "up"]
          /\ ctx' = [ctx EXCEPT ![c].s = d]
          /\ UNCHANGED faults
     \/ /\ IF NoneFree THEN UNCHANGED faults ELSE Fault
        /\ ctx' = [ctx EXCEPT ![c].s = NoDescriptor]
        /\ UNCHANGED open
  /\ lost' = lost \cup Known(ctx[c].s)
  /\ UNCHANGED <<listeners, job, environment>>

CloseListener(l) ==
  /\ job = Idle
  /\ listeners' = listeners \ {l}
  /\ open' = [open EXCEPT ![l] = "free"]
  /\ UNCHANGED <<ctx, lost, job, environment, faults>>

Send(c) ==
  /\ job = Idle /\ ctx[c].kind # "none"
  /\ job' = Job("send", c, "program")
  /\ UNCHANGED <<ctx, open, listeners, lost, environment, faults>>

SendSucceeds ==
  /\ job.call = "send" /\ Works(job.ctx)
  /\ job' = Idle
  /\ Signalled(job.ctx)
  /\ UNCHANGED <<ctx, open, listeners, lost, program, network, faults>>

\* Link recovery: close and connect.
Reconnects == /\ Closed(job.ctx)
              /\ job' = Job("connect", job.ctx, job.call)

\* The errors after which link recovery connects anew: EBADF, ECONNRESET, EPIPE.
Broken(c) == ctx[c].s = NoDescriptor \/ (ctx[c].kind # "rtu" /\ ~Works(c))

\* Without recovery the call fails.  With it a broken TCP connection, or none at all, is
\* made anew; after any other error the send is tried again on the same descriptor.
SendFails ==
  /\ job.call = "send"
  /\ \/ ~Works(job.ctx) /\ UNCHANGED faults
     \/ Works(job.ctx) /\ Fault
  /\ IF ctx[job.ctx].recovery /\ Broken(job.ctx)
     THEN Reconnects
     ELSE /\ job' = IF ctx[job.ctx].recovery THEN job ELSE Idle
          /\ Signalled(job.ctx)
          /\ UNCHANGED <<ctx, open>>
  /\ UNCHANGED <<listeners, lost, program, network>>

\* modbus_receive_confirmation, or the receiving of an answer, and modbus_receive.
Receive(c, call) ==
  /\ job = Idle /\ ctx[c].kind # "none"
  /\ job' = Job(call, c, "program")
  /\ UNCHANGED <<ctx, open, listeners, lost, environment, faults>>

Receiving == job.call \in {"confirmation", "indication"}

\* Some bytes of a message come, and then all of them, be they right or wrong.
BytesCome ==
  /\ Receiving /\ Works(job.ctx)
  /\ job' = IF job.stage = 1 THEN [job EXCEPT !.stage = 2] ELSE Idle
  /\ UNCHANGED <<ctx, open, listeners, lost, environment, faults>>

\* Mutant: the timeout between bytes is not started.
TimedAsAWhole == \/ job.call = "confirmation"
                 \/ ctx[job.ctx].indication

\* Whether select() is given a timeout: what is left of that for the first byte, or the
\* one between bytes.
Timed == \/ job.call = "confirmation"
         \/ ctx[job.ctx].indication
         \/ job.stage = 2 /\ ctx[job.ctx].byte

\* A context that is not connected fails at once; a timeout may flush and fails; the
\* end of a TCP connection is recovered from.
ReceiveFails ==
  /\ Receiving
  /\ Works(job.ctx) => Timed
  /\ IF ctx[job.ctx].recovery /\ ctx[job.ctx].s # NoDescriptor /\ Broken(job.ctx)
     THEN Reconnects
     ELSE job' = Idle /\ UNCHANGED <<ctx, open, line>>
  /\ UNCHANGED <<listeners, lost, program, network, faults>>
-----------------------------------------------------------------------------
PeerDies(d) ==
  /\ open[d] = "up" /\ d \notin lost
  /\ Fault
  /\ open' = [open EXCEPT ![d] = "dead"]
  /\ line' = [line EXCEPT !.broken = @ \/ \E c \in Contexts : ctx[c].kind = "rtu" /\ ctx[c].s = d]
  /\ UNCHANGED <<ctx, listeners, lost, job, program, network>>

NetworkFails ==
  /\ network /\ Fault
  /\ network' = FALSE
  /\ UNCHANGED <<ctx, open, listeners, lost, job, program, line>>

NetworkReturns ==
  /\ ~network
  /\ network' = TRUE
  /\ UNCHANGED <<ctx, open, listeners, lost, job, program, line, faults>>

\* Whether the program may do what would lose the descriptor of a context.
MayLose(c) == Cardinality(lost \cup Known(ctx[c].s)) <= MaxLost

Program(c) ==
  \/ \E kind \in program[c].kinds : Create(c, kind)
  \/ "rtu" \in program[c].kinds /\ \E baud \in Bauds, mode \in {"RS232", "none"} : CreateRtu(c, baud, mode)
  \/ MayLose(c) /\ (Free(c) \/ Connect(c))
  \/ Close(c) \/ Send(c)
  \/ \E call \in {"confirmation", "indication"} : Receive(c, call)
  \/ \E field \in program[c].settings \ {"mode", "rts"}, on \in BOOLEAN : Set(c, field, on)
  \/ "mode" \in program[c].settings /\ \E mode \in Modes : SetSerialMode(c, mode)
  \/ "rts" \in program[c].settings /\ \E rts \in Signals \cup {"none"} : SetRts(c, rts)
  \/ listeners = {} /\ Listen(c)  \* bound: one listener at a time
  \/ MayLose(c) /\ \E l \in listeners : Accept(c, l)

Library ==
  \/ GetDescriptor \/ Proceed \/ ConnectSucceeds \/ ListenSucceeds
  \/ DirectStageFails \/ NextAddress \/ CallFails
  \/ Return \/ SendSucceeds \/ SendFails \/ ReceiveFails

Next == \/ \E c \in Contexts : Program(c)
        \/ \E l \in listeners : CloseListener(l)
        \/ Library \/ BytesCome
        \/ \E d \in Descriptors : PeerDies(d)
        \/ NetworkFails \/ NetworkReturns

Spec == Init /\ [][Next]_vars

\* The library goes on with its call; the network comes back.
FairSpec == Spec /\ WF_vars(Library) /\ WF_vars(NetworkReturns)
-----------------------------------------------------------------------------
TypeOK ==
  /\ program \in Programs
  /\ ctx \in [Contexts -> [kind : Kinds \cup {"none"}, s : Descriptors \cup {NoDescriptor},
                           recovery : BOOLEAN, byte : BOOLEAN, indication : BOOLEAN,
                           baud : Bauds \cup {0}, saved : Speeds \cup {AsFound, Unset},
                           mode : Modes \cup {"none"}, rts : Signals \cup {"none"}]]
  /\ open \in [Descriptors -> {"free", "socket", "listening", "line", "up", "dead"}]
  /\ listeners \subseteq Descriptors /\ lost \subseteq Descriptors
  /\ job.call \in {"none", "connect", "listen", "send", "confirmation", "indication"} \cup Outcomes
  /\ job.call # "none" => job.ctx \in Contexts /\ KindOf(job) # "none"
  /\ job.s \in IF job.call \in {"connect", "listen"} THEN Descriptors \cup {NoDescriptor}
               ELSE {NoDescriptor}
  /\ line \in [speed : Speeds \cup {AsFound, Unset}, rs485 : BOOLEAN, rts : Signals,
              broken : BOOLEAN, slips : SUBSET Unchecked]
  /\ network \in BOOLEAN
  /\ faults \in 0 .. MaxFaults

\* The descriptor of a job that is in no context yet.
InTheMaking == IF job.call # "none" /\ ~Direct(job) THEN Known(job.s) ELSE {}

\* No call leaves a descriptor behind that nobody knows, whichever of its stages
\* fails: only a program that connects or accepts on a connected context, or frees it
\* without closing, loses one (modbus-tcp.c:337-370, :419-441, :529-572, :638-679,
\* modbus-rtu.c:683-862).
NothingLeaks ==
  \A d \in Descriptors :
    open[d] # "free" =>
      d \in listeners \cup lost \cup InTheMaking \cup {ctx[c].s : c \in Contexts}

\* A descriptor that a context or the program has is open, between calls that of a
\* connection which was completed, and nobody else has it: no number that was closed and
\* given out anew is used or closed by its former owner (modbus-tcp.c:457-465, :411-449).
OneOwner ==
  /\ \A c \in Contexts : ctx[c].s # NoDescriptor =>
       /\ open[ctx[c].s] \in IF job.call = "connect" THEN {"up", "dead", "socket", "line"}
                             ELSE {"up", "dead"}
       /\ ctx[c].s \notin lost \cup InTheMaking
       /\ \A other \in Contexts \ {c} : ctx[other].s # ctx[c].s
  /\ \A l \in listeners : open[l] = "listening"
  /\ \A d \in lost \cup InTheMaking : open[d] # "free"
  /\ lost \cap InTheMaking = {}

\* As long as the serial line has not broken, it is what its context takes it for: between
\* calls at the context's speed, with the signal that leaves the bus free if that is the one
\* of an opened line (modbus_rtu_set_rts: "in order to not reserve the RS485 bus"), in RS485
\* mode if the context thinks so; and it is as it was found once no context is connected to
\* it, whichever stage of connecting or call of the driver has failed
\* (modbus-rtu.c:256-290, :621-862, :880-956, :985-1018, :1089-1116) -- except for the
\* three whose failure the library does not look at: with RTS not set the bus may stay
\* reserved (:245, :251), and with settings not saved (:661) or not restored (:1114) the
\* line stays changed.  Speed and mode of a connected line hold even then.
LineAsAgreed ==
  LET OnLine(c) == ctx[c].kind = "rtu" /\ ctx[c].s # NoDescriptor
  IN ~line.broken =>
       /\ \A c \in Contexts :
            /\ job.call # "connect" /\ OnLine(c) =>
                 /\ line.speed = Speed(ctx[c].baud)
                 /\ ctx[c].rts = "down" /\ "signal" \notin line.slips => line.rts = Resting("down")
            /\ ctx[c].kind = "rtu" /\ ctx[c].mode = "RS485" => line.rs485
       /\ lost = {} /\ line.slips \subseteq {"signal"} /\ (\A c \in Contexts : ~OnLine(c)) =>
            line.speed = AsFound

\* Every call ends once the network is back, a send with link recovery too, which is
\* "issued until to be successful" (modbus.c:178).  The exceptions are: sending on a serial
\* line that has broken, which link recovery does not open anew; waiting for the first byte
\* of a request without a timeout, and for the others when that between bytes is off, too;
\* and a program that has lost descriptors.
CallsEnd ==
  job # Idle ~> \/ job = Idle
                \/ lost # {}
                \/ job.call = "send" /\ KindOf(job) = "rtu" /\ ~Works(job.ctx)
                \/ job.call = "indication" /\ ~ctx[job.ctx].indication
                   /\ (job.stage = 1 \/ ~ctx[job.ctx].byte)
=============================================================================
