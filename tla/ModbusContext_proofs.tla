------------------------ MODULE ModbusContext_proofs ------------------------
(* Theorems about the descriptors that contexts hold, for any number of         *)
(* contexts, descriptors and addresses, and any programs.                       *)
EXTENDS ModbusContext, TLAPS

Setting == job.call \in {"connect", "listen"}

\* The stage that gets the descriptor.
DescriptorStage == IF KindOf(job) = "pi" THEN 2 ELSE 1

Calls == {"none", "connect", "listen", "send", "confirmation", "indication"} \cup Outcomes

Jobs == [call : Calls, ctx : Contexts \cup {"none"}, stage : Nat,
         s : Descriptors \cup {NoDescriptor}, left : Nat,
         for : {"program", "send", "confirmation", "indication"}]

\* A job has a descriptor in the making if and only if it is past that stage.
JobInv ==
  /\ job \in Jobs
  /\ job.call # "none" => job.ctx \in Contexts /\ KindOf(job) # "none"
  /\ job.call = "listen" => KindOf(job) # "rtu"
  /\ ~Setting => job.s = NoDescriptor
  /\ Setting => /\ job.stage \in 1 .. Len(Route[job.call][KindOf(job)])
                /\ job.s = NoDescriptor <=> job.stage <= DescriptorStage

\* The context whose descriptor is being connected, if there is one.
Unfinished ==
  {c \in Contexts : c = job.ctx /\ job.call = "connect" /\ Direct(job) /\ job.s # NoDescriptor}

\* What every descriptor is, by who has it: nobody has two kinds of them, and two
\* contexts never have the same.
Owners ==
  /\ \A c \in Contexts : ctx[c].kind = "none" => ctx[c].s = NoDescriptor
  /\ \A c \in Contexts : ctx[c].s # NoDescriptor =>
       open[ctx[c].s] \in IF c \in Unfinished THEN {"socket", "line"} ELSE {"up", "dead"}
  /\ \A c \in Contexts : ctx[c].s \notin lost
  /\ \A c, other \in Contexts : ctx[c].s = ctx[other].s => c = other \/ ctx[c].s = NoDescriptor
  /\ \A c \in Unfinished : ctx[c].s = job.s
  /\ \A l \in listeners : open[l] = "listening"
  /\ \A d \in lost : open[d] \in {"up", "dead"}
  /\ \A d \in InTheMaking : open[d] = "socket"

\* Every open descriptor is known to somebody.
Owned ==
  \A d \in Descriptors : open[d] # "free" =>
    \/ d \in listeners \/ d \in lost \/ d \in InTheMaking
    \/ \E c \in Contexts : ctx[c].s = d
-----------------------------------------------------------------------------
(* The stages of every route, one after the other.                             *)
LEMMA Stages ==
  ASSUME TypeOK, JobInv, Setting
  PROVE  /\ Stage \in {"socket", "open"} => job.stage = DescriptorStage
         /\ Last => job.stage > DescriptorStage
         /\ Stage \in {"resolve", "options", "address", "reuse", "bind", "speed"}
              => ~Last /\ job.stage # DescriptorStage
         /\ Stage = "open" => KindOf(job) = "rtu" /\ job.call = "connect"
         /\ Stage \in {"socket", "open"} => ~Last
<1>1. KindOf(job) \in Kinds
  BY DEF TypeOK, JobInv, Setting, KindOf, Kinds
<1> DEFINE route == Route[job.call][KindOf(job)]
<1>2. /\ Stage = route[job.stage]
      /\ Last <=> job.stage = Len(route)
      /\ job.stage \in 1 .. Len(route)
  BY DEF Stage, Last, JobInv
<1> HIDE DEF route
<1>3. CASE job.call = "connect" /\ KindOf(job) = "tcp"
  <2>1. route = <<"socket", "options", "address", "connect">>
    BY <1>3 DEF Route, route
  <2>2. Len(route) = 4 /\ job.stage \in 1 .. 4
    BY <1>2, <2>1
  <2> QED
    BY <1>2, <1>3, <2>1, <2>2 DEF DescriptorStage
<1>4. CASE job.call = "connect" /\ KindOf(job) = "pi"
  <2>1. route = <<"resolve", "socket", "connect">>
    BY <1>4 DEF Route, route
  <2>2. Len(route) = 3 /\ job.stage \in 1 .. 3
    BY <1>2, <2>1
  <2> QED
    BY <1>2, <1>4, <2>1, <2>2 DEF DescriptorStage
<1>5. CASE job.call = "connect" /\ KindOf(job) = "rtu"
  <2>1. route = <<"open", "speed", "attributes">>
    BY <1>5 DEF Route, route
  <2>2. Len(route) = 3 /\ job.stage \in 1 .. 3
    BY <1>2, <2>1
  <2> QED
    BY <1>2, <1>5, <2>1, <2>2 DEF DescriptorStage
<1>6. CASE job.call = "listen" /\ KindOf(job) = "tcp"
  <2>1. route = <<"socket", "reuse", "address", "bind", "listen">>
    BY <1>6 DEF Route, route
  <2>2. Len(route) = 5 /\ job.stage \in 1 .. 5
    BY <1>2, <2>1
  <2> QED
    BY <1>2, <1>6, <2>1, <2>2 DEF DescriptorStage
<1>7. CASE job.call = "listen" /\ KindOf(job) = "pi"
  <2>1. route = <<"resolve", "socket", "reuse", "bind", "listen">>
    BY <1>7 DEF Route, route
  <2>2. Len(route) = 5 /\ job.stage \in 1 .. 5
    BY <1>2, <2>1
  <2> QED
    BY <1>2, <1>7, <2>1, <2>2 DEF DescriptorStage
<1> QED
  BY <1>1, <1>3, <1>4, <1>5, <1>6, <1>7 DEF Kinds, Setting, JobInv

(* A job keeps its type when its descriptor and its counters are set.           *)
LEMMA JobAdvanced ==
  ASSUME NEW j \in Jobs, NEW d \in Descriptors, NEW n \in Nat
  PROVE  [j EXCEPT !.s = d, !.stage = n] \in Jobs
  BY DEF Jobs

(* It keeps its type when it goes on with the next address.                    *)
LEMMA JobReset ==
  ASSUME NEW j \in Jobs, NEW left \in Nat, NEW n \in Nat
  PROVE  [j EXCEPT !.left = left, !.stage = n, !.s = NoDescriptor] \in Jobs
  BY DEF Jobs
-----------------------------------------------------------------------------
(* What each action does with the job, as far as its stages are concerned.       *)
LEMMA JobStep == ASSUME TypeOK, JobInv, [Next]_vars PROVE JobInv'
<1> USE DEF Calls, Outcomes, Setting, DescriptorStage, KindOf, NoDescriptor
<1> DEFINE SameKinds == \A c \in Contexts : ctx'[c].kind = ctx[c].kind
<1>0. \A c \in Contexts : ctx[c].kind \in Kinds \cup {"none"}
  BY DEF TypeOK
<1>a. job.call # "none" => job.ctx \in Contexts /\ ctx[job.ctx].kind # "none"
  BY DEF TypeOK
<1>1. ASSUME job' = Idle PROVE JobInv'
  BY <1>1 DEF JobInv, Jobs, Idle
<1>2. ASSUME job' = job, SameKinds PROVE JobInv'
  BY <1>a, <1>2 DEF JobInv
<1>3. ASSUME NEW call \in {"connect", "listen", "send", "confirmation", "indication"},
             NEW c \in Contexts, NEW for \in {"program", "send", "confirmation", "indication"},
             ctx[c].kind # "none", call = "listen" => ctx[c].kind # "rtu",
             job' = Job(call, c, for), SameKinds
      PROVE  JobInv'
  <2>1. /\ job'.call = call /\ job'.ctx = c /\ job'.stage = 1 /\ job'.s = NoDescriptor
        /\ job' \in Jobs
    BY <1>3, ContextAssumption DEF Job, Jobs
  <2>2. call \in {"connect", "listen"} => 1 \in 1 .. Len(Route[call][ctx[c].kind])
    <3>1. CASE call = "connect"
      BY <3>1, <1>0, <1>3 DEF Route, Kinds
    <3>2. CASE call = "listen"
      BY <3>2, <1>0, <1>3 DEF Route, Kinds
    <3> QED
      BY <3>1, <3>2
  <2> QED
    BY <2>1, <2>2, <1>3 DEF JobInv
<1>4. ASSUME NEW outcome \in Outcomes, AfterConnecting(outcome),
             SameKinds, job.call \in {"connect", "listen"}
      PROVE  JobInv'
  <2>1. job.ctx \in Contexts /\ ctx[job.ctx].kind # "none"
    BY <1>4 DEF TypeOK
  <2>2. CASE job.for = "send"
    BY <1>3, <1>4, <2>1, <2>2 DEF AfterConnecting
  <2>3. CASE job.for = "program"
    BY <1>4, <2>1, <2>3 DEF AfterConnecting, Idle, JobInv, Jobs
  <2>4. CASE job.for \notin {"send", "program"}
    BY <1>1, <1>4, <2>4 DEF AfterConnecting
  <2> QED
    BY <2>2, <2>3, <2>4
<1>5. ASSUME NEW c \in Contexts, Program(c) PROVE JobInv'
  <2>1. CASE \/ \E kind \in program[c].kinds : Create(c, kind)
             \/ \E baud \in Bauds, mode \in {"RS232", "none"} : CreateRtu(c, baud, mode)
             \/ Free(c) \/ Close(c)
             \/ \E field \in program[c].settings \ {"mode", "rts"}, on \in BOOLEAN : Set(c, field, on)
             \/ \E mode \in Modes : SetSerialMode(c, mode)
             \/ \E rts \in Signals \cup {"none"} : SetRts(c, rts)
             \/ \E l \in listeners : Accept(c, l)
    BY <1>1, <2>1 DEF Create, CreateRtu, Free, Close, Set, SetSerialMode, SetRts, Accept
  <2>2. CASE Connect(c) \/ Listen(c) \/ Send(c) \/ \E call \in {"confirmation", "indication"} : Receive(c, call)
    <3>1. SameKinds /\ ctx[c].kind # "none"
      BY <2>2 DEF Connect, Listen, Send, Receive
    <3>2. CASE Connect(c)
      BY <1>3, <3>1, <3>2 DEF Connect
    <3>3. CASE Listen(c)
      BY <1>3, <3>1, <3>3 DEF Listen
    <3>4. CASE Send(c)
      BY <1>3, <3>1, <3>4 DEF Send
    <3>5. ASSUME NEW call \in {"confirmation", "indication"}, Receive(c, call) PROVE JobInv'
      BY <1>3, <3>1, <3>5 DEF Receive
    <3> QED
      BY <2>2, <3>2, <3>3, <3>4, <3>5
  <2> QED
    BY <1>5, <2>1, <2>2 DEF Program
<1>6. CASE GetDescriptor
  <2>1. PICK d \in Descriptors : job' = [job EXCEPT !.s = d, !.stage = @ + 1]
    BY <1>6 DEF GetDescriptor
  <2>2. SameKinds
    BY <1>6 DEF GetDescriptor, TypeOK
  <2>3. job.stage = DescriptorStage /\ ~Last
    BY <1>6, Stages DEF GetDescriptor
  <2>4. d # NoDescriptor
    BY ContextAssumption
  <2>5. /\ job'.call = job.call /\ job'.ctx = job.ctx /\ job'.s = d /\ job'.stage = job.stage + 1
        /\ job' \in Jobs
    <3>1. job \in Jobs
      BY DEF JobInv
    <3>2. job.stage \in Nat
      BY <3>1 DEF Jobs
    <3>3. job' \in Jobs
      <4> DEFINE n == job.stage + 1
      <4>1. n \in Nat /\ job' = [job EXCEPT !.s = d, !.stage = n]
        BY <2>1, <3>2
      <4> HIDE DEF n
      <4> QED
        BY <3>1, <4>1, JobAdvanced
    <3>4. job'.call = job.call /\ job'.ctx = job.ctx /\ job'.s = d /\ job'.stage = job.stage + 1
      BY <2>1, <3>1 DEF Jobs
    <3> QED
      BY <3>3, <3>4
  <2>6. job.call \in {"connect", "listen"}
    BY <1>6 DEF GetDescriptor
  <2> QED
    <3>1. job.stage + 1 \in 1 .. Len(Route[job.call][KindOf(job)])
      BY <2>3, <2>6 DEF JobInv, Last
    <3>2. KindOf(job)' = KindOf(job)
      BY <1>a, <2>2, <2>5, <2>6
    <3>3. job'.stage > DescriptorStage /\ job'.s # NoDescriptor
      BY <2>3, <2>4, <2>5
    <3> QED
      BY <2>5, <2>6, <3>1, <3>2, <3>3 DEF JobInv
<1>7. CASE Proceed
  <2>1. ~Last /\ job.stage # DescriptorStage
    BY <1>7, Stages DEF Proceed
  <2> QED
    BY <1>7, <1>a, <2>1 DEF Proceed, JobInv, Jobs, Last
<1>8. CASE ConnectSucceeds
  <2>1. SameKinds
    BY <1>8 DEF ConnectSucceeds, TypeOK
  <2> QED
    BY <1>4, <1>8, <2>1 DEF ConnectSucceeds
<1>9. CASE ListenSucceeds \/ Return \/ SendSucceeds
  BY <1>1, <1>9 DEF ListenSucceeds, Return, SendSucceeds
<1>10. CASE DirectStageFails
  <2>1. SameKinds
    BY <1>10 DEF DirectStageFails, TypeOK
  <2> QED
    BY <1>4, <1>10, <2>1 DEF DirectStageFails, Direct
<1>11. CASE NextAddress
  <2>1. SameKinds /\ job.call \in {"connect", "listen"} /\ KindOf(job) = "pi"
    BY <1>11 DEF NextAddress
  <2>2. CASE job.left > 1
    <3>1. job' = [job EXCEPT !.left = @ - 1, !.stage = 2, !.s = NoDescriptor]
      BY <1>11, <2>2 DEF NextAddress
    <3>2. 2 \in 1 .. Len(Route[job.call]["pi"])
      BY <2>1 DEF Route
    <3>3. /\ job'.call = job.call /\ job'.ctx = job.ctx
          /\ job'.s = NoDescriptor /\ job'.stage = 2
          /\ job' \in Jobs
      <4>1. job \in Jobs
        BY DEF JobInv
      <4>2. job.left \in Nat
        BY <4>1 DEF Jobs
      <4>3. job.left - 1 \in Nat
        BY <2>2, <4>2
      <4>4. job' \in Jobs
        BY <3>1, <4>1, <4>3, JobReset
      <4>5. job'.call = job.call /\ job'.ctx = job.ctx /\ job'.s = NoDescriptor /\ job'.stage = 2
        BY <3>1, <4>1 DEF Jobs
      <4> QED
        BY <4>4, <4>5
    <3> QED
      BY <1>a, <2>1, <3>2, <3>3 DEF JobInv
  <2>3. CASE ~(job.left > 1) /\ job.call = "connect"
    <3>1. PICK outcome \in {"error", "ok"} : AfterConnecting(outcome)
      BY <1>11, <2>3 DEF NextAddress
    <3> QED
      BY <1>4, <2>1, <3>1
  <2>4. CASE ~(job.left > 1) /\ job.call # "connect"
    BY <1>1, <1>11, <2>4 DEF NextAddress
  <2> QED
    BY <2>2, <2>3, <2>4
<1>12. CASE CallFails
  <2>1. CASE job.call = "listen"
    BY <1>1, <1>12, <2>1 DEF CallFails
  <2>2. CASE job.call # "listen"
    BY <1>4, <1>12, <2>2 DEF CallFails
  <2> QED
    BY <2>1, <2>2
<1>13. CASE SendFails
  <2>1. CASE ctx[job.ctx].recovery /\ Broken(job.ctx)
    <3>1. SameKinds
      BY <1>13, <2>1 DEF SendFails, Reconnects, Closed, TypeOK
    <3> QED
      BY <1>3, <1>13, <1>a, <2>1, <3>1 DEF SendFails, Reconnects
  <2>2. CASE ~(ctx[job.ctx].recovery /\ Broken(job.ctx))
    BY <1>1, <1>2, <1>13, <2>2 DEF SendFails
  <2> QED
    BY <2>1, <2>2
<1>14. CASE ReceiveFails
  <2>1. CASE ctx[job.ctx].recovery /\ ctx[job.ctx].s # NoDescriptor /\ Broken(job.ctx)
    <3>1. SameKinds
      BY <1>14, <2>1 DEF ReceiveFails, Reconnects, Closed, TypeOK
    <3> QED
      BY <1>3, <1>14, <1>a, <2>1, <3>1 DEF ReceiveFails, Reconnects, Receiving
  <2>2. CASE ~(ctx[job.ctx].recovery /\ ctx[job.ctx].s # NoDescriptor /\ Broken(job.ctx))
    BY <1>1, <1>14, <2>2 DEF ReceiveFails
  <2> QED
    BY <2>1, <2>2
<1>15. CASE BytesCome
  <2>1. job' = Idle \/ job' = [job EXCEPT !.stage = 2]
    BY <1>15 DEF BytesCome
  <2>2. SameKinds /\ job.call \in {"confirmation", "indication"}
    BY <1>15 DEF BytesCome, Receiving
  <2> QED
    BY <1>1, <2>1, <2>2 DEF JobInv, Jobs
<1>16. CASE \/ \E l \in listeners : CloseListener(l)
            \/ \E d \in Descriptors : PeerDies(d)
            \/ NetworkFails \/ NetworkReturns \/ UNCHANGED vars
  BY <1>1, <1>2, <1>16 DEF CloseListener, PeerDies, NetworkFails, NetworkReturns, vars
<1> QED
  BY <1>5, <1>6, <1>7, <1>8, <1>9, <1>10, <1>11, <1>12, <1>13, <1>14, <1>15, <1>16
     DEF Next, Library
-----------------------------------------------------------------------------
ContextRecords ==
  [kind : Kinds \cup {"none"}, s : Descriptors \cup {NoDescriptor},
   recovery : BOOLEAN, byte : BOOLEAN, indication : BOOLEAN,
   baud : Bauds \cup {0}, saved : Speeds \cup {AsFound, Unset},
   mode : Modes \cup {"none"}, rts : Signals \cup {"none"}]

Lines == [speed : Speeds \cup {AsFound, Unset}, rs485 : BOOLEAN, rts : Signals, broken : BOOLEAN,
          slips : SUBSET Unchecked]

(* The fields of a context keep their types when they are set.                  *)
LEMMA ContextSet ==
  ASSUME NEW r \in ContextRecords
  PROVE  /\ \A d \in Descriptors \cup {NoDescriptor} : [r EXCEPT !.s = d] \in ContextRecords
         /\ \A on \in BOOLEAN : /\ [r EXCEPT !["recovery"] = on] \in ContextRecords
                                /\ [r EXCEPT !["byte"] = on] \in ContextRecords
                                /\ [r EXCEPT !["indication"] = on] \in ContextRecords
         /\ \A mode \in Modes : [r EXCEPT !.mode = mode] \in ContextRecords
         /\ \A rts \in Signals \cup {"none"} : [r EXCEPT !.rts = rts] \in ContextRecords
         /\ \A d \in Descriptors, speed \in Speeds \cup {AsFound, Unset} :
              [r EXCEPT !.s = d, !.saved = speed] \in ContextRecords
<1>1. \A d \in Descriptors \cup {NoDescriptor} : [r EXCEPT !.s = d] \in ContextRecords
  BY DEF ContextRecords
<1>2. ASSUME NEW on \in BOOLEAN
      PROVE  /\ [r EXCEPT !["recovery"] = on] \in ContextRecords
             /\ [r EXCEPT !["byte"] = on] \in ContextRecords
             /\ [r EXCEPT !["indication"] = on] \in ContextRecords
  BY DEF ContextRecords
<1>3. \A mode \in Modes : [r EXCEPT !.mode = mode] \in ContextRecords
  BY DEF ContextRecords
<1>4. \A rts \in Signals \cup {"none"} : [r EXCEPT !.rts = rts] \in ContextRecords
  BY DEF ContextRecords
<1>5. \A d \in Descriptors, speed \in Speeds \cup {AsFound, Unset} :
        [r EXCEPT !.s = d, !.saved = speed] \in ContextRecords
  BY DEF ContextRecords
<1> QED
  BY <1>1, <1>2, <1>3, <1>4, <1>5

(* The fields of the serial line keep their types when they are set.           *)
LEMMA LineSet ==
  ASSUME NEW r \in Lines
  PROVE  /\ \A speed \in Speeds \cup {AsFound, Unset} : [r EXCEPT !.speed = speed] \in Lines
         /\ \A on \in BOOLEAN : [r EXCEPT !.rs485 = on] \in Lines /\ [r EXCEPT !.broken = on] \in Lines
         /\ \A slips \in SUBSET Unchecked :
              /\ [r EXCEPT !.slips = slips] \in Lines
              /\ \A rts \in Signals : [r EXCEPT !.rts = rts, !.slips = slips] \in Lines
BY DEF Lines

(* What has failed unnoticed is a set of the calls that can.                      *)
LEMMA LineSlips ==
  ASSUME NEW r \in Lines
  PROVE  /\ \A call \in Unchecked : r.slips \cup {call} \in SUBSET Unchecked
         /\ \A call \in Unchecked : r.slips \ {call} \in SUBSET Unchecked
         /\ {"saving", "restoring", "signal"} = Unchecked
BY DEF Lines, Unchecked

(* A rate without a constant becomes one with one; RTS rests at a signal.      *)
LEMMA Values ==
  /\ \A baud : Speed(baud) \in Speeds
  /\ \A rts : Resting(rts) \in Signals
BY DEF Speed, Speeds, Resting, Signals

(* The line keeps its type when its signal is set, or is not.                     *)
LEMMA SignalSet ==
  ASSUME line \in Lines, NEW signal \in Signals, NEW others \in SUBSET Signals,
         SetSignal(signal, others)
  PROVE  line' \in Lines
<1>1. /\ line.slips \ {"signal"} \in SUBSET Unchecked
      /\ line.slips \cup {"signal"} \in SUBSET Unchecked
  BY LineSlips
<1>2. CASE line' = [line EXCEPT !.rts = signal, !.slips = @ \ {"signal"}]
  BY <1>1, <1>2, LineSet
<1>3. CASE \E old \in others : line' = [line EXCEPT !.rts = old, !.slips = @ \cup {"signal"}]
  <2>1. PICK old \in others : line' = [line EXCEPT !.rts = old, !.slips = line.slips \cup {"signal"}]
    BY <1>3
  <2>2. old \in Signals
    OBVIOUS
  <2> DEFINE slips == line.slips \cup {"signal"}
  <2>3. slips \in SUBSET Unchecked /\ line' = [line EXCEPT !.rts = old, !.slips = slips]
    BY <1>1, <2>1
  <2> HIDE DEF slips
  <2> QED
    BY <2>2, <2>3, LineSet
<1> QED
  BY <1>2, <1>3 DEF SetSignal

States == {"free", "socket", "listening", "line", "up", "dead"}

(* Beside the job, whose type JobInv has.                                       *)
Typed ==
  /\ program \in Programs
  /\ ctx \in [Contexts -> ContextRecords]
  /\ open \in [Descriptors -> States]
  /\ listeners \subseteq Descriptors /\ lost \subseteq Descriptors
  /\ line \in Lines
  /\ network \in BOOLEAN
  /\ faults \in 0 .. MaxFaults

(* The type invariant is Typed and what JobInv says of the job.                *)
LEMMA TypeIsTyped == JobInv => (TypeOK <=> Typed)
  BY DEF TypeOK, Typed, JobInv, Jobs, ContextRecords, Lines, States, Setting, Calls, KindOf

(* Every step keeps the types of the variables beside the job.                 *)
LEMMA TypeStep == ASSUME Typed, JobInv, [Next]_vars PROVE Typed'
<1> USE DEF NoDescriptor
<1>a. TypeOK
  BY TypeIsTyped
<1>0. /\ \A c \in Contexts : /\ program[c].kinds \subseteq Kinds
                             /\ program[c].settings \subseteq Settings
                             /\ Known(ctx[c].s) \subseteq Descriptors
                             /\ ctx[c].s \in Descriptors \cup {NoDescriptor}
                             /\ ctx[c] \in ContextRecords
      /\ job.call # "none" => job.ctx \in Contexts
      /\ job.s \in Descriptors \cup {NoDescriptor}
  BY ContextAssumption DEF Typed, JobInv, Jobs, Known, ContextRecords
<1>1. ASSUME Fault \/ UNCHANGED faults PROVE faults' \in 0 .. MaxFaults
  BY <1>1, ContextAssumption DEF Fault, Typed
<1>2. ASSUME NEW c \in Contexts, Closed(c)
      PROVE  open' \in [Descriptors -> States] /\ ctx' \in [Contexts -> ContextRecords] /\ line' \in Lines
  <2>1. open' \in [Descriptors -> States]
    BY <1>2 DEF Closed, Typed, States
  <2>2. ctx' \in [Contexts -> ContextRecords]
    BY <1>0, <1>2, ContextSet DEF Closed, Typed
  <2>3. ctx[c].saved \in Speeds \cup {AsFound, Unset} /\ line \in Lines
    BY <1>0 DEF ContextRecords, Typed
  <2>4. line' \in Lines
    <3> DEFINE slips == line.slips \cup {"restoring"}
    <3>1. slips \in SUBSET Unchecked
      BY <2>3, LineSlips
    <3>2. \/ line' = line \/ line' = [line EXCEPT !.speed = ctx[c].saved]
          \/ line' = [line EXCEPT !.slips = slips]
      BY <1>2 DEF Closed, Restored
    <3> HIDE DEF slips
    <3> QED
      BY <2>3, <3>1, <3>2, LineSet
  <2> QED
    BY <2>1, <2>2, <2>4
<1>3. ASSUME NEW c \in Contexts, Program(c) PROVE Typed'
  <2> USE <1>0 DEF Typed, environment
  <2>1. ASSUME NEW kind \in Kinds, Create(c, kind) PROVE Typed'
    <3>1. [NoContext EXCEPT !.kind = kind] \in ContextRecords
      BY DEF NoContext, ContextRecords, Modes
    <3> QED
      BY <2>1, <3>1 DEF Create
  <2>2. ASSUME NEW baud \in Bauds, NEW mode \in {"RS232", "none"}, CreateRtu(c, baud, mode) PROVE Typed'
    <3>1. [NoContext EXCEPT !.kind = "rtu", !.baud = baud, !.mode = mode] \in ContextRecords
      BY DEF NoContext, ContextRecords, Modes, Kinds
    <3> QED
      BY <2>2, <3>1 DEF CreateRtu
  <2>3. CASE Free(c)
    <3>1. NoContext \in ContextRecords
      BY DEF NoContext, ContextRecords, Modes
    <3> QED
      BY <2>3, <3>1 DEF Free
  <2>4. CASE Close(c)
    BY <1>2, <2>4 DEF Close
  <2>5. ASSUME NEW field \in Settings \ {"mode", "rts"}, NEW on \in BOOLEAN, Set(c, field, on) PROVE Typed'
    <3>1. [ctx[c] EXCEPT ![field] = on] \in ContextRecords
      BY ContextSet DEF Settings
    <3>2. ctx' = [ctx EXCEPT ![c] = [ctx[c] EXCEPT ![field] = on]]
      BY <2>5 DEF Set
    <3> QED
      BY <2>5, <3>1, <3>2 DEF Set
  <2>6. ASSUME NEW mode \in Modes, SetSerialMode(c, mode) PROVE Typed'
    <3>1. line' \in Lines /\ ctx' \in [Contexts -> ContextRecords]
      <4>1. [ctx EXCEPT ![c].mode = mode] \in [Contexts -> ContextRecords]
        BY ContextSet
      <4>2. [line EXCEPT !.rs485 = (mode = "RS485")] \in Lines
        BY LineSet
      <4>3. (ctx' = ctx \/ ctx' = [ctx EXCEPT ![c].mode = mode])
            /\ (line' = line \/ line' = [line EXCEPT !.rs485 = (mode = "RS485")])
        BY <2>6 DEF SetSerialMode, ModeRefused
      <4> QED
        BY <4>1, <4>2, <4>3
    <3>2. faults' \in 0 .. MaxFaults
      BY <1>1, <2>6 DEF SetSerialMode
    <3> QED
      BY <2>6, <3>1, <3>2 DEF SetSerialMode
  <2>7. ASSUME NEW rts \in Signals \cup {"none"}, SetRts(c, rts) PROVE Typed'
    <3>1. ctx' \in [Contexts -> ContextRecords]
      BY <2>7, ContextSet DEF SetRts
    <3>2. {line.rts} \in SUBSET Signals /\ Resting(rts) \in Signals
      BY Values DEF Lines
    <3>3. line' \in Lines
      BY <2>7, <3>2, SignalSet DEF SetRts
    <3> QED
      BY <2>7, <3>1, <3>3 DEF SetRts
  <2>8. CASE Connect(c) \/ Listen(c) \/ Send(c) \/ \E call \in {"confirmation", "indication"} : Receive(c, call)
    BY <2>8 DEF Connect, Listen, Send, Receive
  <2>9. ASSUME NEW l \in listeners, Accept(c, l) PROVE Typed'
    <3>1. ctx' \in [Contexts -> ContextRecords] /\ open' \in [Descriptors -> States]
      <4>1. \A d \in Descriptors \cup {NoDescriptor} :
              [ctx EXCEPT ![c].s = d] \in [Contexts -> ContextRecords]
        BY ContextSet
      <4>2. \A d \in Descriptors : [open EXCEPT ![d] = "up"] \in [Descriptors -> States]
        BY DEF States
      <4>3. \/ UNCHANGED open /\ ctx' = [ctx EXCEPT ![c].s = NoDescriptor]
            \/ \E d \in Descriptors :
                 open' = [open EXCEPT ![d] = "up"] /\ ctx' = [ctx EXCEPT ![c].s = d]
        BY <2>9 DEF Accept
      <4> QED
        BY <4>1, <4>2, <4>3
    <3>2. faults' \in 0 .. MaxFaults
      BY <1>1, <2>9 DEF Accept
    <3> QED
      BY <2>9, <3>1, <3>2 DEF Accept
  <2> QED
    BY <1>3, <2>1, <2>2, <2>3, <2>4, <2>5, <2>6, <2>7, <2>8, <2>9 DEF Program, Kinds
<1>4. ASSUME GivesUp PROVE open' \in [Descriptors -> States]
  BY <1>4 DEF GivesUp, Typed, States
<1>5. ASSUME NEW c \in Contexts, Signalled(c) PROVE line' \in Lines
  <2>1. line \in Lines
    BY DEF Typed
  <2>2. CASE ctx[c].rts = "none"
    BY <1>5, <2>1, <2>2 DEF Signalled
  <2>3. CASE ctx[c].rts # "none"
    <3>1. {line.rts, ctx[c].rts} \in SUBSET Signals /\ Resting(ctx[c].rts) \in Signals
      BY <1>0, <2>1, <2>3, Values DEF Lines, ContextRecords
    <3> QED
      BY <1>5, <2>1, <3>1, SignalSet DEF Signalled
  <2> QED
    BY <2>2, <2>3
<1>6. CASE GetDescriptor
  <2> USE <1>0 DEF Typed
  <2>1. PICK d \in Descriptors, told \in BOOLEAN :
          /\ open' = [open EXCEPT ![d] = IF Stage = "open" THEN "line" ELSE "socket"]
          /\ IF Direct(job)
             THEN /\ ctx' = [ctx EXCEPT ![job.ctx].s = d,
                                        ![job.ctx].saved = IF Stage = "open" /\ told
                                                           THEN line.speed ELSE @]
                  /\ lost' = lost \cup Known(ctx[job.ctx].s)
             ELSE UNCHANGED <<ctx, lost>>
          /\ line' = IF Stage = "open" THEN Opened(told) ELSE line
    BY ONLY <1>6, Zenon DEF GetDescriptor
  <2>2. job.ctx \in Contexts
    BY <1>6 DEF GetDescriptor
  <2>3. /\ line.speed \in Speeds \cup {AsFound, Unset}
        /\ ctx[job.ctx].saved \in Speeds \cup {AsFound, Unset}
    BY <2>2 DEF Lines, ContextRecords
  <2>4. open' \in [Descriptors -> States]
    BY <2>1 DEF States
  <2>5. ctx' \in [Contexts -> ContextRecords]
    <3>1. CASE Direct(job)
      <4> DEFINE speed == IF Stage = "open" /\ told THEN line.speed ELSE ctx[job.ctx].saved
      <4>1. speed \in Speeds \cup {AsFound, Unset}
        BY <2>3
      <4>2. ctx' = [ctx EXCEPT ![job.ctx] = [ctx[job.ctx] EXCEPT !.s = d, !.saved = speed]]
        BY <2>1, <2>2, <3>1
      <4> HIDE DEF speed
      <4> QED
        BY <2>2, <4>1, <4>2, ContextSet
    <3> QED
      BY <2>1, <3>1
  <2>6. line' \in Lines
    <3> DEFINE slips == (line.slips \ {"signal"}) \cup IF told THEN {} ELSE {"saving"}
    <3>1. slips \in SUBSET Unchecked
      BY DEF Lines, Unchecked
    <3>2. Opened(told) = [line EXCEPT !.rts = "up", !.slips = slips]
      BY DEF Opened
    <3> HIDE DEF slips
    <3>3. Opened(told) \in Lines
      BY <3>1, <3>2, LineSet DEF Signals
    <3> QED
      BY <2>1, <3>3
  <2> QED
    BY <1>6, <2>1, <2>2, <2>4, <2>5, <2>6 DEF GetDescriptor
<1>7. CASE Proceed \/ Return \/ BytesCome
  BY <1>7 DEF Proceed, Return, BytesCome, Typed, environment
<1>8. CASE ConnectSucceeds
  <2> USE <1>0 DEF Typed
  <2>1. job.ctx \in Contexts
    BY <1>8 DEF ConnectSucceeds
  <2>2. open' \in [Descriptors -> States]
    BY <1>8 DEF ConnectSucceeds, States
  <2>3. ctx' \in [Contexts -> ContextRecords] /\ lost' \subseteq Descriptors
    <3>1. [ctx[job.ctx] EXCEPT !.s = job.s] \in ContextRecords
      BY <2>1, ContextSet
    <3>2. \/ UNCHANGED <<ctx, lost>>
          \/ /\ ctx' = [ctx EXCEPT ![job.ctx] = [ctx[job.ctx] EXCEPT !.s = job.s]]
             /\ lost' = lost \cup Known(ctx[job.ctx].s)
      BY <1>8, <2>1 DEF ConnectSucceeds
    <3> QED
      BY <2>1, <3>1, <3>2
  <2>4. line' \in Lines
    BY <1>8, LineSet, Values DEF ConnectSucceeds
  <2> QED
    BY <1>8, <2>2, <2>3, <2>4 DEF ConnectSucceeds
<1>9. CASE ListenSucceeds
  <2>1. job.s \in Descriptors
    <3>1. Setting /\ Last
      BY <1>9 DEF ListenSucceeds, Setting
    <3>2. job.stage > DescriptorStage
      BY <3>1, <1>a, Stages
    <3> QED
      BY <1>0, <3>1, <3>2 DEF JobInv, Jobs, DescriptorStage
  <2> QED
    BY <1>9, <2>1 DEF ListenSucceeds, Typed, States, environment
<1>10. CASE DirectStageFails
  <2>1. job.ctx \in Contexts
    BY <1>0, <1>10 DEF DirectStageFails, Direct
  <2>2. ctx' \in [Contexts -> ContextRecords]
    BY <1>0, <1>10, <2>1, ContextSet DEF DirectStageFails, Typed
  <2>3. faults' \in 0 .. MaxFaults
    BY <1>1, <1>10 DEF DirectStageFails, Cause
  <2> QED
    BY <1>0, <1>4, <1>10, <2>1, <2>2, <2>3 DEF DirectStageFails, Typed, environment
<1>11. CASE NextAddress \/ CallFails
  <2>1. faults' \in 0 .. MaxFaults
    BY <1>1, <1>11 DEF NextAddress, CallFails, Cause
  <2> QED
    BY <1>4, <1>11, <2>1 DEF NextAddress, CallFails, Typed, environment
<1>12. CASE SendSucceeds
  BY <1>0, <1>5, <1>12 DEF SendSucceeds, Typed
<1>13. CASE SendFails
  <2>1. job.ctx \in Contexts
    BY <1>0, <1>13 DEF SendFails
  <2>2. open' \in [Descriptors -> States] /\ ctx' \in [Contexts -> ContextRecords] /\ line' \in Lines
    BY <1>2, <1>5, <1>13, <2>1 DEF SendFails, Reconnects, Typed
  <2>3. faults' \in 0 .. MaxFaults
    BY <1>1, <1>13 DEF SendFails
  <2> QED
    BY <1>13, <2>2, <2>3 DEF SendFails, Typed
<1>14. CASE ReceiveFails
  <2>1. job.ctx \in Contexts
    BY <1>0, <1>14 DEF ReceiveFails, Receiving
  <2>2. open' \in [Descriptors -> States] /\ ctx' \in [Contexts -> ContextRecords] /\ line' \in Lines
    BY <1>2, <1>14, <2>1 DEF ReceiveFails, Reconnects, Typed
  <2> QED
    BY <1>14, <2>2 DEF ReceiveFails, Typed
<1>15. CASE \E l \in listeners : CloseListener(l)
  BY <1>15 DEF CloseListener, Typed, environment, States
<1>16. CASE \E d \in Descriptors : PeerDies(d)
  <2>1. PICK d \in Descriptors : PeerDies(d)
    BY <1>16
  <2>2. open' \in [Descriptors -> States]
    BY <2>1 DEF PeerDies, Typed, States
  <2>3. line' \in Lines
    <3> DEFINE breaks == line.broken \/ \E c \in Contexts : ctx[c].kind = "rtu" /\ ctx[c].s = d
    <3>1. breaks \in BOOLEAN /\ line' = [line EXCEPT !.broken = breaks]
      BY <2>1 DEF PeerDies, Typed, Lines
    <3> HIDE DEF breaks
    <3> QED
      BY <3>1, LineSet DEF Typed
  <2>4. faults' \in 0 .. MaxFaults
    BY <1>1, <2>1 DEF PeerDies
  <2> QED
    BY <2>1, <2>2, <2>3, <2>4 DEF PeerDies, Typed
<1>17. CASE NetworkFails \/ NetworkReturns \/ UNCHANGED vars
  BY <1>1, <1>17 DEF NetworkFails, NetworkReturns, vars, Typed
<1> QED
  BY <1>3, <1>6, <1>7, <1>8, <1>9, <1>10, <1>11, <1>12, <1>13, <1>14, <1>15, <1>16, <1>17
     DEF Next, Library
-----------------------------------------------------------------------------
(* Nothing about the descriptors changes if nobody gets, gives or loses one.    *)
LEMMA NothingMoves ==
  ASSUME Owners, Owned, UNCHANGED <<open, listeners, lost>>,
         \A c \in Contexts : /\ ctx[c].s' = ctx[c].s
                             /\ ctx[c].kind' = "none" => ctx[c].s = NoDescriptor,
         InTheMaking' = InTheMaking, Unfinished' = Unfinished,
         Unfinished # {} => job.s' = job.s
  PROVE  Owners' /\ Owned'
<1>1. Owners'
  <2> USE DEF NoDescriptor
  <2>1. \A c \in Contexts : ctx'[c].s = ctx[c].s /\ (ctx'[c].kind = "none" => ctx[c].s = NoDescriptor)
    OBVIOUS
  <2>2. \A c \in Contexts : ctx'[c].s # NoDescriptor =>
          open'[ctx'[c].s] \in IF c \in Unfinished' THEN {"socket", "line"} ELSE {"up", "dead"}
    BY <2>1 DEF Owners
  <2>3. \A c \in Unfinished' : ctx'[c].s = job'.s
    <3>1. Unfinished \subseteq Contexts
      BY DEF Unfinished
    <3> QED
      BY <2>1, <3>1 DEF Owners
  <2> QED
    BY <2>1, <2>2, <2>3 DEF Owners
<1>2. Owned'
  BY DEF Owned
<1> QED
  BY <1>1, <1>2

(* The same for steps that begin and end without a descriptor in the making.   *)
LEMMA NothingMovesAtRest ==
  ASSUME Owners, Owned, UNCHANGED <<open, listeners, lost>>,
         \A c \in Contexts : /\ ctx[c].s' = ctx[c].s
                             /\ ctx[c].kind' = "none" => ctx[c].s = NoDescriptor,
         job.s = NoDescriptor, job.s' = NoDescriptor
  PROVE  Owners' /\ Owned'
<1>1. InTheMaking = {} /\ InTheMaking' = {}
  BY DEF InTheMaking, Known
<1>2. Unfinished = {} /\ Unfinished' = {}
  BY DEF Unfinished
<1> QED
  BY <1>1, <1>2, NothingMoves

(* A context gets another descriptor, a new one or none, and loses its own.      *)
LEMMA Replaced ==
  ASSUME Typed, Typed', Owners, Owned,
         NEW c \in Contexts, NEW d \in Descriptors \cup {NoDescriptor},
         Unfinished = {}, InTheMaking \subseteq {d}, InTheMaking' = {},
         d # NoDescriptor => d \in InTheMaking \/ open[d] = "free",
         \A other \in Contexts : ctx'[other].s = IF other = c THEN d ELSE ctx[other].s,
         \A other \in Contexts : ctx'[other].kind = "none" => ctx'[other].s = NoDescriptor,
         \A e \in Descriptors : e # d => open'[e] = open[e],
         d # NoDescriptor =>
           open'[d] \in IF c \in Unfinished' THEN {"socket", "line"} ELSE {"up", "dead"},
         \A other \in Unfinished' : other = c /\ job'.s = d,
         lost' = lost \cup Known(ctx[c].s), UNCHANGED listeners
  PROVE  Owners' /\ Owned'
<1> USE DEF NoDescriptor
<1>1. /\ \A other \in Contexts : ctx[other].s \in Descriptors \cup {NoDescriptor}
      /\ NoDescriptor \notin Descriptors
      /\ listeners \subseteq Descriptors /\ lost \subseteq Descriptors
  BY ContextAssumption DEF Typed, ContextRecords
<1>2. /\ \A other \in Contexts : ctx[other].s # NoDescriptor =>
           open[ctx[other].s] \in {"up", "dead"} /\ ctx[other].s # d
      /\ d \notin lost /\ d \notin listeners
  BY <1>1 DEF Owners
<1>3. \A e : e \in Known(ctx[c].s) <=> e = ctx[c].s /\ e # NoDescriptor
  BY DEF Known
<1>4. Owners'
  <2>1. \A other \in Contexts : ctx'[other].s # NoDescriptor =>
          open'[ctx'[other].s] \in IF other \in Unfinished' THEN {"socket", "line"} ELSE {"up", "dead"}
    BY <1>1, <1>2
  <2>2. \A other \in Contexts : ctx'[other].s \notin lost'
    BY <1>1, <1>2, <1>3 DEF Owners
  <2>3. \A one, other \in Contexts : ctx'[one].s = ctx'[other].s => one = other \/ ctx'[one].s = NoDescriptor
    BY <1>2 DEF Owners
  <2>4. \A other \in Unfinished' : ctx'[other].s = job'.s
    BY DEF Unfinished
  <2>5. (\A l \in listeners' : open'[l] = "listening") /\ \A e \in lost' : open'[e] \in {"up", "dead"}
    BY <1>1, <1>2, <1>3 DEF Owners
  <2> QED
    BY <2>1, <2>2, <2>3, <2>4, <2>5 DEF Owners
<1>5. Owned'
  <2> SUFFICES ASSUME NEW e \in Descriptors, open'[e] # "free"
               PROVE  e \in listeners' \/ e \in lost' \/ \E other \in Contexts : ctx'[other].s = e
    BY DEF Owned
  <2>1. CASE e = d
    BY <2>1
  <2>2. CASE e # d
    <3>1. e \in listeners \/ e \in lost \/ \E other \in Contexts : ctx[other].s = e
      BY <2>2 DEF Owned
    <3> QED
      BY <1>1, <1>3, <3>1
  <2> QED
    BY <2>1, <2>2
<1> QED
  BY <1>4, <1>5

(* A context's descriptor is closed, and the context is left without one.         *)
LEMMA Dropped ==
  ASSUME Typed, Typed', Owners, Owned, NEW c \in Contexts,
         Unfinished \subseteq {c}, InTheMaking = {}, Unfinished' = {}, InTheMaking' = {},
         \A d \in Descriptors : open'[d] = IF d = ctx[c].s THEN "free" ELSE open[d],
         \A other \in Contexts : /\ ctx'[other].s = IF other = c THEN NoDescriptor ELSE ctx[other].s
                                 /\ ctx'[other].kind = ctx[other].kind,
         UNCHANGED <<listeners, lost>>
  PROVE  Owners' /\ Owned'
<1> USE DEF NoDescriptor
<1>1. /\ \A other \in Contexts : ctx[other].s \in Descriptors \cup {NoDescriptor}
      /\ listeners \subseteq Descriptors /\ lost \subseteq Descriptors
  BY DEF Typed, ContextRecords
<1>2. \A other \in Contexts \ {c} : ctx[other].s # NoDescriptor =>
        open[ctx[other].s] \in {"up", "dead"} /\ ctx[other].s # ctx[c].s
  BY DEF Owners
<1>3. ctx[c].s \notin listeners /\ ctx[c].s \notin lost
  <2>1. ctx[c].s # NoDescriptor => open[ctx[c].s] \in {"socket", "line", "up", "dead"}
    BY DEF Owners
  <2>2. NoDescriptor \notin Descriptors
    BY ContextAssumption
  <2>3. \A l \in listeners : open[l] = "listening"
    BY DEF Owners
  <2>4. ctx[c].s \notin lost
    BY DEF Owners
  <2> QED
    BY <1>1, <2>1, <2>2, <2>3, <2>4
<1>4. Owners'
  <2>1. \A other \in Contexts : ctx'[other].kind = "none" => ctx'[other].s = NoDescriptor
    BY DEF Owners
  <2>2. \A other \in Contexts : ctx'[other].s # NoDescriptor =>
          open'[ctx'[other].s] \in {"up", "dead"}
    BY <1>1, <1>2
  <2>3. \A other \in Contexts : ctx'[other].s \notin lost'
    BY <1>1, ContextAssumption DEF Owners
  <2>4. \A one, other \in Contexts : ctx'[one].s = ctx'[other].s => one = other \/ ctx'[one].s = NoDescriptor
    BY DEF Owners
  <2>5. (\A l \in listeners' : open'[l] = "listening") /\ \A e \in lost' : open'[e] \in {"up", "dead"}
    BY <1>1, <1>3 DEF Owners
  <2> QED
    BY <2>1, <2>2, <2>3, <2>4, <2>5 DEF Owners
<1>5. Owned'
  <2> SUFFICES ASSUME NEW e \in Descriptors, open'[e] # "free"
               PROVE  e \in listeners' \/ e \in lost' \/ \E other \in Contexts : ctx'[other].s = e
    BY DEF Owned
  <2>1. e # ctx[c].s /\ open[e] # "free"
    OBVIOUS
  <2>2. e \in listeners \/ e \in lost \/ \E other \in Contexts : ctx[other].s = e
    BY <2>1 DEF Owned
  <2> QED
    BY <2>1, <2>2
<1> QED
  BY <1>4, <1>5

(* A descriptor in the making that no context has is closed, if there is one.     *)
LEMMA GivenUp ==
  ASSUME Typed, Typed', Owners, Owned, ~Direct(job), job.call # "none",
         Unfinished' = {}, InTheMaking' = {}, GivesUp, UNCHANGED <<ctx, listeners, lost>>
  PROVE  Owners' /\ Owned'
<1> USE DEF NoDescriptor
<1>1. /\ \A c \in Contexts : ctx[c].s \in Descriptors \cup {NoDescriptor}
      /\ listeners \subseteq Descriptors /\ lost \subseteq Descriptors
  BY DEF Typed, ContextRecords
<1>2. Unfinished = {}
  BY DEF Unfinished
<1>3. InTheMaking = Known(job.s) /\ \A d \in Descriptors : open'[d] = IF d = job.s THEN "free" ELSE open[d]
  BY DEF InTheMaking, GivesUp
<1>4. \A d \in Descriptors : d = job.s => open[d] = "socket"
  BY <1>3, ContextAssumption DEF Known, Owners
<1>5. Owners'
  BY <1>1, <1>2, <1>3, <1>4 DEF Owners
<1>6. Owned'
  BY <1>3 DEF Owned, Known
<1> QED
  BY <1>5, <1>6
-----------------------------------------------------------------------------
(* Every step keeps the descriptors with their owners.                           *)
LEMMA OwnersStep ==
  ASSUME Typed, JobInv, Owners, Owned, Typed', JobInv', [Next]_vars
  PROVE  Owners' /\ Owned'
<1> USE DEF NoDescriptor
<1>a. TypeOK
  BY TypeIsTyped
<1>0. /\ \A c \in Contexts : ctx[c].s \in Descriptors \cup {NoDescriptor}
      /\ \A c \in Contexts : ctx[c].kind = "none" => ctx[c].s = NoDescriptor
      /\ NoDescriptor \notin Descriptors
      /\ job.s \in Descriptors \cup {NoDescriptor}
      /\ job.call # "none" => job.ctx \in Contexts /\ ctx[job.ctx].kind # "none"
      /\ ctx \in [Contexts -> ContextRecords]
      /\ open \in [Descriptors -> States]
  BY ContextAssumption DEF Typed, ContextRecords, JobInv, Jobs, Owners, KindOf
<1>1. job.s = NoDescriptor => Unfinished = {} /\ InTheMaking = {}
  BY DEF Unfinished, InTheMaking, Known
<1>2. job'.s = NoDescriptor => Unfinished' = {} /\ InTheMaking' = {}
  BY DEF Unfinished, InTheMaking, Known
<1>3. ~Setting => job.s = NoDescriptor
  BY DEF JobInv
<1>4. \A call, c, for : Job(call, c, for).s = NoDescriptor
  BY DEF Job
<1>5. Idle.s = NoDescriptor
  BY DEF Idle
<1>6. ASSUME NEW outcome, AfterConnecting(outcome) PROVE job'.s = NoDescriptor
  BY <1>4, <1>5, <1>6 DEF AfterConnecting, Idle
<1>7. ASSUME NEW c \in Contexts, Closed(c), UNCHANGED <<listeners, lost>>,
             job.s = NoDescriptor, job'.s = NoDescriptor
      PROVE  Owners' /\ Owned'
  <2>1. \A d \in Descriptors : open'[d] = IF d = ctx[c].s THEN "free" ELSE open[d]
    BY <1>7 DEF Closed
  <2>2. \A other \in Contexts : /\ ctx'[other].s = IF other = c THEN NoDescriptor ELSE ctx[other].s
                                /\ ctx'[other].kind = ctx[other].kind
    BY <1>0, <1>7 DEF Closed, ContextRecords
  <2> QED
    BY <1>1, <1>2, <1>7, <2>1, <2>2, Dropped
<1>8. ASSUME NEW c \in Contexts, Program(c) PROVE Owners' /\ Owned'
  <2>1. job.s = NoDescriptor /\ job'.s = NoDescriptor
    <3>1. job = Idle
      BY <1>8 DEF Program, Create, CreateRtu, Free, Close, Set, SetSerialMode, SetRts,
                  Connect, Listen, Send, Receive, Accept
    <3>2. job' = job \/ \E call : job' = Job(call, c, "program")
      BY <1>8 DEF Program, Create, CreateRtu, Free, Close, Set, SetSerialMode, SetRts,
                  Connect, Listen, Send, Receive, Accept
    <3> QED
      BY <1>4, <1>5, <3>1, <3>2
  <2>2. CASE \/ \E kind \in program[c].kinds : Create(c, kind)
             \/ \E baud \in Bauds, mode \in {"RS232", "none"} : CreateRtu(c, baud, mode)
    <3>1. \A other \in Contexts : /\ ctx[other].s' = ctx[other].s
                                  /\ ctx[other].kind' = "none" => ctx[other].s = NoDescriptor
      <4>1. PICK made : ctx' = [ctx EXCEPT ![c] = made] /\ made.s = NoDescriptor /\ ctx[c].kind = "none"
        BY <2>2 DEF Create, CreateRtu, NoContext
      <4>2. ctx[c].s = NoDescriptor
        BY <1>0, <4>1
      <4> QED
        BY <1>0, <4>1, <4>2
    <3>2. UNCHANGED <<open, listeners, lost>>
      BY <2>2 DEF Create, CreateRtu
    <3> QED
      BY <2>1, <3>1, <3>2, NothingMovesAtRest
  <2>3. CASE \/ \E field \in program[c].settings \ {"mode", "rts"}, on \in BOOLEAN : Set(c, field, on)
             \/ \E mode \in Modes : SetSerialMode(c, mode)
             \/ \E rts \in Signals \cup {"none"} : SetRts(c, rts)
    <3>1. \A other \in Contexts : /\ ctx[other].s' = ctx[other].s
                                  /\ ctx[other].kind' = "none" => ctx[other].s = NoDescriptor
      <4>1. ASSUME NEW field \in {"recovery", "byte", "indication", "mode", "rts"}, NEW value,
                   ctx' = [ctx EXCEPT ![c][field] = value]
            PROVE  \A other \in Contexts : ctx'[other].s = ctx[other].s /\ ctx'[other].kind = ctx[other].kind
        BY <1>0, <4>1 DEF ContextRecords
      <4>2. \A other \in Contexts : ctx'[other].s = ctx[other].s /\ ctx'[other].kind = ctx[other].kind
        <5>1. ASSUME NEW field \in program[c].settings \ {"mode", "rts"}, NEW on \in BOOLEAN, Set(c, field, on)
              PROVE  \A other \in Contexts : ctx'[other].s = ctx[other].s /\ ctx'[other].kind = ctx[other].kind
          <6>1. field \in {"recovery", "byte", "indication"}
            BY <5>1, ContextAssumption DEF Typed, Settings
          <6> QED
            BY <4>1, <5>1, <6>1 DEF Set
        <5>2. ASSUME NEW mode \in Modes, SetSerialMode(c, mode)
              PROVE  \A other \in Contexts : ctx'[other].s = ctx[other].s /\ ctx'[other].kind = ctx[other].kind
          <6>1. ctx' = ctx \/ ctx' = [ctx EXCEPT ![c].mode = mode]
            BY <5>2 DEF SetSerialMode, ModeRefused
          <6> QED
            BY <1>0, <6>1 DEF ContextRecords
        <5>3. ASSUME NEW rts \in Signals \cup {"none"}, SetRts(c, rts)
              PROVE  \A other \in Contexts : ctx'[other].s = ctx[other].s /\ ctx'[other].kind = ctx[other].kind
          BY <1>0, <5>3 DEF SetRts, ContextRecords
        <5> QED
          BY <2>3, <5>1, <5>2, <5>3
      <4> QED
        BY <1>0, <4>2
    <3>2. UNCHANGED <<open, listeners, lost>>
      BY <2>3 DEF Set, SetSerialMode, SetRts
    <3> QED
      BY <2>1, <3>1, <3>2, NothingMovesAtRest
  <2>4. CASE Connect(c) \/ Listen(c) \/ Send(c) \/ \E call \in {"confirmation", "indication"} : Receive(c, call)
    BY <1>0, <2>1, <2>4, NothingMovesAtRest DEF Connect, Listen, Send, Receive
  <2>5. CASE Close(c)
    BY <1>7, <2>1, <2>5 DEF Close
  <2>6. CASE Free(c)
    <3>1. \A other \in Contexts : /\ ctx'[other].s = IF other = c THEN NoDescriptor ELSE ctx[other].s
                                  /\ ctx'[other].kind = "none" => ctx'[other].s = NoDescriptor
      BY <1>0, <2>6 DEF Free, NoContext
    <3>2. UNCHANGED <<open, listeners>> /\ lost' = lost \cup Known(ctx[c].s)
      BY <2>6 DEF Free
    <3> QED
      BY <1>1, <1>2, <2>1, <3>1, <3>2, Replaced
  <2>7. ASSUME NEW l \in listeners, Accept(c, l) PROVE Owners' /\ Owned'
    <3>1. PICK d \in Descriptors \cup {NoDescriptor} :
            /\ ctx' = [ctx EXCEPT ![c].s = d]
            /\ d # NoDescriptor => open[d] = "free"
            /\ open' = IF d = NoDescriptor THEN open ELSE [open EXCEPT ![d] = "up"]
      BY <1>0, <2>7 DEF Accept, IsNext
    <3>2. \A other \in Contexts : /\ ctx'[other].s = IF other = c THEN d ELSE ctx[other].s
                                  /\ ctx'[other].kind = ctx[other].kind
      BY <1>0, <3>1 DEF ContextRecords
    <3>3. \A e \in Descriptors : open'[e] = IF e = d THEN "up" ELSE open[e]
      BY <1>0, <3>1
    <3>4. lost' = lost \cup Known(ctx[c].s) /\ UNCHANGED listeners /\ ctx[c].kind # "none"
      BY <2>7 DEF Accept
    <3>5. \A other \in Contexts : ctx'[other].kind = "none" => ctx'[other].s = NoDescriptor
      BY <1>0, <3>2, <3>4
    <3>6. /\ Unfinished = {} /\ InTheMaking \subseteq {d} /\ InTheMaking' = {}
          /\ d # NoDescriptor => d \in InTheMaking \/ open[d] = "free"
          /\ \A e \in Descriptors : e # d => open'[e] = open[e]
          /\ d # NoDescriptor =>
               open'[d] \in IF c \in Unfinished' THEN {"socket", "line"} ELSE {"up", "dead"}
          /\ \A other \in Unfinished' : other = c /\ job'.s = d
      BY <1>0, <1>1, <1>2, <2>1, <3>1, <3>3
    <3> QED
      BY <3>2, <3>4, <3>5, <3>6, Replaced
  <2> QED
    BY <1>8, <2>2, <2>3, <2>4, <2>5, <2>6, <2>7 DEF Program
<1>9. CASE GetDescriptor
  <2> DEFINE c == job.ctx
  <2>1. PICK d \in Descriptors, told \in BOOLEAN :
          /\ IsNext(d)
          /\ open' = [open EXCEPT ![d] = IF Stage = "open" THEN "line" ELSE "socket"]
          /\ job' = [job EXCEPT !.s = d, !.stage = @ + 1]
          /\ IF Direct(job)
             THEN /\ ctx' = [ctx EXCEPT ![c].s = d,
                                        ![c].saved = IF Stage = "open" /\ told THEN line.speed ELSE @]
                  /\ lost' = lost \cup Known(ctx[c].s)
             ELSE UNCHANGED <<ctx, lost>>
    BY ONLY <1>9, Zenon DEF GetDescriptor
  <2>2. /\ Setting /\ Stage \in {"socket", "open"} /\ UNCHANGED listeners
        /\ job.call \in {"connect", "listen"} /\ c \in Contexts
    BY <1>0, <1>9 DEF GetDescriptor, Setting
  <2>3. job.s = NoDescriptor /\ (Stage = "open" => Direct(job))
    <3>1. job.stage = DescriptorStage /\ (Stage = "open" => KindOf(job) = "rtu" /\ job.call = "connect")
      BY <1>a, <2>2, Stages
    <3>2. job.stage \in Nat /\ DescriptorStage \in Nat
      BY DEF JobInv, Jobs, DescriptorStage
    <3> QED
      BY <2>2, <3>1, <3>2 DEF JobInv, Direct
  <2>4. job'.s = d /\ job'.call = job.call /\ job'.ctx = c
    BY <2>1 DEF JobInv, Jobs
  <2>5. /\ \A other \in Contexts : ctx'[other].kind = ctx[other].kind
        /\ Direct(job)' <=> Direct(job)
    <3>1. \A other \in Contexts : ctx'[other].kind = ctx[other].kind
      BY <1>0, <2>1 DEF ContextRecords
    <3> QED
      BY <2>2, <2>4, <3>1 DEF Direct, KindOf
  <2>6. /\ open[d] = "free" /\ d # NoDescriptor
        /\ \A e \in Descriptors : e # d => open'[e] = open[e]
        /\ open'[d] = IF Stage = "open" THEN "line" ELSE "socket"
    BY <1>0, <2>1 DEF IsNext
  <2>7. CASE Direct(job)
    <3>1. \A other \in Contexts : ctx'[other].s = IF other = c THEN d ELSE ctx[other].s
      BY <1>0, <2>1, <2>2, <2>7 DEF ContextRecords
    <3>2. InTheMaking' = {} /\ Unfinished' = {c}
      <4>1. job'.call = "connect" /\ Direct(job)' /\ job'.ctx = c /\ job'.s # NoDescriptor
        BY <2>4, <2>5, <2>6, <2>7 DEF Direct
      <4> QED
        BY <2>2, <4>1 DEF InTheMaking, Unfinished
    <3>3. \A other \in Contexts : ctx'[other].kind = "none" => ctx'[other].s = NoDescriptor
      BY <1>0, <2>2, <2>5, <3>1
    <3>4. Unfinished = {} /\ InTheMaking = {}
      BY <1>1, <2>3
    <3>5. lost' = lost \cup Known(ctx[c].s)
      BY <2>1, <2>7
    <3> QED
      BY <2>2, <2>4, <2>6, <3>1, <3>2, <3>3, <3>4, <3>5, Replaced
  <2>8. CASE ~Direct(job)
    <3>1. InTheMaking' = {d} /\ Unfinished' = {} /\ Unfinished = {} /\ InTheMaking = {}
      <4>1. ~Direct(job)' /\ job'.call # "none" /\ job'.s = d
        BY <2>2, <2>4, <2>5, <2>8
      <4> QED
        BY <1>1, <2>3, <2>6, <4>1 DEF InTheMaking, Unfinished, Known
    <3>2. UNCHANGED <<ctx, lost, listeners>> /\ open'[d] = "socket"
      BY <2>1, <2>2, <2>3, <2>6, <2>8
    <3>3. /\ \A other \in Contexts : ctx[other].s # d
          /\ d \notin lost /\ d \notin listeners
      BY <2>6, <3>1 DEF Owners
    <3>4. listeners \subseteq Descriptors /\ lost \subseteq Descriptors
      BY DEF Typed
    <3>5. Owners'
      BY <1>0, <2>6, <3>1, <3>2, <3>3, <3>4 DEF Owners
    <3>6. Owned'
      BY <2>6, <3>1, <3>2 DEF Owned
    <3> QED
      BY <3>5, <3>6
  <2> QED
    BY <2>7, <2>8
<1>10. CASE ConnectSucceeds
  <2> DEFINE c == job.ctx
  <2>1. /\ Setting /\ Last /\ job.call = "connect" /\ c \in Contexts /\ UNCHANGED listeners
        /\ open' = [open EXCEPT ![job.s] = "up"]
    BY <1>0, <1>10 DEF ConnectSucceeds, Setting
  <2>2. job.s \in Descriptors /\ job.s # NoDescriptor
    <3>1. job.stage > DescriptorStage
      BY <1>a, <2>1, Stages
    <3>2. job.stage \in Nat /\ DescriptorStage \in Nat
      BY DEF JobInv, Jobs, DescriptorStage
    <3> QED
      BY <1>0, <2>1, <3>1, <3>2 DEF JobInv
  <2>3. job'.s = NoDescriptor /\ Unfinished' = {} /\ InTheMaking' = {}
    BY <1>2, <1>6, <1>10 DEF ConnectSucceeds
  <2>4. \A e \in Descriptors : open'[e] = IF e = job.s THEN "up" ELSE open[e]
    BY <1>0, <2>1
  <2>5. CASE Direct(job)
    <3>1. Unfinished = {c} /\ InTheMaking = {} /\ UNCHANGED <<ctx, lost>>
      BY <1>10, <2>1, <2>2, <2>5 DEF Unfinished, InTheMaking, ConnectSucceeds
    <3>2. ctx[c].s = job.s /\ open[job.s] \in {"socket", "line"}
      BY <2>1, <2>2, <3>1 DEF Owners
    <3>3. listeners \subseteq Descriptors /\ lost \subseteq Descriptors
      BY DEF Typed
    <3>4. Owners'
      BY <1>0, <2>1, <2>2, <2>3, <2>4, <3>1, <3>2, <3>3 DEF Owners
    <3>5. Owned'
      BY <2>1, <2>3, <2>4, <3>1, <3>2 DEF Owned
    <3> QED
      BY <3>4, <3>5
  <2>6. CASE ~Direct(job)
    <3>1. Unfinished = {} /\ InTheMaking = {job.s}
      BY <2>1, <2>2, <2>6 DEF Unfinished, InTheMaking, Known
    <3>2. ctx' = [ctx EXCEPT ![c].s = job.s] /\ lost' = lost \cup Known(ctx[c].s)
      BY <1>10, <2>6 DEF ConnectSucceeds
    <3>3. \A other \in Contexts : /\ ctx'[other].s = IF other = c THEN job.s ELSE ctx[other].s
                                  /\ ctx'[other].kind = ctx[other].kind
      BY <1>0, <3>2 DEF ContextRecords
    <3>4. \A other \in Contexts : ctx'[other].kind = "none" => ctx'[other].s = NoDescriptor
      BY <1>0, <2>1, <3>3
    <3> QED
      BY <2>1, <2>2, <2>3, <2>4, <3>1, <3>2, <3>3, <3>4, Replaced
  <2> QED
    BY <2>5, <2>6
<1>11. CASE ListenSucceeds
  <2>1. /\ Setting /\ Last /\ job.call = "listen" /\ UNCHANGED <<ctx, lost>>
        /\ listeners' = listeners \cup {job.s} /\ open' = [open EXCEPT ![job.s] = "listening"]
    BY <1>11 DEF ListenSucceeds, Setting
  <2>2. job.s \in Descriptors /\ job.s # NoDescriptor
    <3>1. job.stage > DescriptorStage
      BY <1>a, <2>1, Stages
    <3>2. job.stage \in Nat /\ DescriptorStage \in Nat
      BY DEF JobInv, Jobs, DescriptorStage
    <3> QED
      BY <1>0, <2>1, <3>1, <3>2 DEF JobInv
  <2>3. Unfinished' = {} /\ InTheMaking' = {} /\ Unfinished = {} /\ InTheMaking = {job.s}
    BY <1>2, <1>5, <1>11, <2>1, <2>2 DEF ListenSucceeds, Unfinished, InTheMaking, Known, Direct
  <2>4. \A e \in Descriptors : open'[e] = IF e = job.s THEN "listening" ELSE open[e]
    BY <1>0, <2>1
  <2>5. open[job.s] = "socket" /\ listeners \subseteq Descriptors /\ lost \subseteq Descriptors
    BY <2>3 DEF Owners, Typed
  <2>6. Owners'
    BY <1>0, <2>1, <2>2, <2>3, <2>4, <2>5 DEF Owners
  <2>7. Owned'
    BY <2>1, <2>3, <2>4 DEF Owned
  <2> QED
    BY <2>6, <2>7
<1>12. CASE DirectStageFails
  <2> DEFINE c == job.ctx
  <2>1. /\ Direct(job) /\ GivesUp /\ job.call = "connect" /\ c \in Contexts /\ UNCHANGED listeners
        /\ ctx' = [ctx EXCEPT ![c].s = NoDescriptor]
    BY <1>0, <1>12 DEF DirectStageFails, Direct
  <2>2. job'.s = NoDescriptor /\ Unfinished' = {} /\ InTheMaking' = {} /\ InTheMaking = {}
    BY <1>2, <1>6, <1>12 DEF DirectStageFails, InTheMaking
  <2>3. \A other \in Contexts : /\ ctx'[other].s = IF other = c THEN NoDescriptor ELSE ctx[other].s
                                /\ ctx'[other].kind = ctx[other].kind
    BY <1>0, <2>1 DEF ContextRecords
  <2>4. \A d \in Descriptors : open'[d] = IF d = job.s THEN "free" ELSE open[d]
    BY <2>1 DEF GivesUp
  <2>5. CASE job.s = NoDescriptor
    <3>1. lost' = lost \cup Known(ctx[c].s) /\ Unfinished = {}
      BY <1>1, <1>12, <2>5 DEF DirectStageFails
    <3>2. \A d \in Descriptors : open'[d] = open[d]
      BY <1>0, <2>4, <2>5
    <3>3. \A other \in Contexts : ctx'[other].kind = "none" => ctx'[other].s = NoDescriptor
      BY <1>0, <2>3
    <3> DEFINE d == NoDescriptor
    <3>4. /\ InTheMaking \subseteq {d}
          /\ \A other \in Contexts : ctx'[other].s = IF other = c THEN d ELSE ctx[other].s
          /\ \A e \in Descriptors : e # d => open'[e] = open[e]
          /\ \A other \in Unfinished' : other = c /\ job'.s = d
          /\ d \in Descriptors \cup {NoDescriptor}
      BY <2>2, <2>3, <3>2
    <3>5. d = NoDescriptor
      OBVIOUS
    <3> HIDE DEF d
    <3> QED
      BY <2>1, <2>2, <3>1, <3>3, <3>4, <3>5, Replaced
  <2>6. CASE job.s # NoDescriptor
    <3>1. UNCHANGED lost /\ Unfinished = {c}
      BY <1>12, <2>1, <2>6 DEF DirectStageFails, Unfinished
    <3>2. ctx[c].s = job.s
      BY <3>1 DEF Owners
    <3> QED
      BY <2>1, <2>2, <2>3, <2>4, <3>1, <3>2, Dropped
  <2> QED
    BY <2>5, <2>6
<1>13. CASE NextAddress \/ CallFails
  <2>1. /\ ~Direct(job) /\ job.call # "none" /\ GivesUp /\ UNCHANGED <<ctx, listeners, lost>>
    BY <1>13 DEF NextAddress, CallFails, Direct
  <2>2. job'.s = NoDescriptor
    <3>1. job' = Idle \/ (\E outcome \in Outcomes : AfterConnecting(outcome))
             \/ job' = [job EXCEPT !.left = @ - 1, !.stage = 2, !.s = NoDescriptor]
      BY <1>13 DEF NextAddress, CallFails, Outcomes
    <3> QED
      BY <1>5, <1>6, <3>1 DEF JobInv, Jobs
  <2> QED
    BY <1>2, <2>1, <2>2, GivenUp
<1>14. CASE SendFails
  <2>1. job.s = NoDescriptor /\ UNCHANGED <<listeners, lost>> /\ job.ctx \in Contexts
    BY <1>0, <1>3, <1>14 DEF SendFails, Setting
  <2>2. CASE ctx[job.ctx].recovery /\ Broken(job.ctx)
    BY <1>4, <1>7, <1>14, <2>1, <2>2 DEF SendFails, Reconnects
  <2>3. CASE ~(ctx[job.ctx].recovery /\ Broken(job.ctx))
    <3>1. UNCHANGED <<ctx, open>> /\ job'.s = NoDescriptor
      BY <1>5, <1>14, <2>1, <2>3 DEF SendFails
    <3> QED
      BY <1>0, <2>1, <3>1, NothingMovesAtRest
  <2> QED
    BY <2>2, <2>3
<1>15. CASE ReceiveFails
  <2>1. job.s = NoDescriptor /\ UNCHANGED <<listeners, lost>> /\ job.ctx \in Contexts
    BY <1>0, <1>3, <1>15 DEF ReceiveFails, Receiving, Setting
  <2>2. CASE ctx[job.ctx].recovery /\ ctx[job.ctx].s # NoDescriptor /\ Broken(job.ctx)
    BY <1>4, <1>7, <1>15, <2>1, <2>2 DEF ReceiveFails, Reconnects
  <2>3. CASE ~(ctx[job.ctx].recovery /\ ctx[job.ctx].s # NoDescriptor /\ Broken(job.ctx))
    <3>1. UNCHANGED <<ctx, open>> /\ job'.s = NoDescriptor
      BY <1>5, <1>15, <2>1, <2>3 DEF ReceiveFails
    <3> QED
      BY <1>0, <2>1, <3>1, NothingMovesAtRest
  <2> QED
    BY <2>2, <2>3
<1>16. CASE Return \/ SendSucceeds \/ BytesCome
  <2>1. job.s = NoDescriptor /\ job'.s = NoDescriptor
    <3>1. job.s = NoDescriptor
      BY <1>3, <1>16 DEF Return, SendSucceeds, BytesCome, Receiving, Setting, Outcomes
    <3>2. job' = Idle \/ job' = [job EXCEPT !.stage = 2]
      BY <1>16 DEF Return, SendSucceeds, BytesCome
    <3> QED
      BY <1>5, <3>1, <3>2 DEF JobInv, Jobs
  <2>2. UNCHANGED <<ctx, open, listeners, lost>>
    BY <1>16 DEF Return, SendSucceeds, BytesCome
  <2> QED
    BY <1>0, <2>1, <2>2, NothingMovesAtRest
<1>17. CASE Proceed \/ NetworkFails \/ NetworkReturns \/ UNCHANGED vars
  <2>1. UNCHANGED <<ctx, open, listeners, lost>>
    BY <1>17 DEF Proceed, NetworkFails, NetworkReturns, vars
  <2>2. job'.s = job.s /\ job'.call = job.call /\ job'.ctx = job.ctx
    BY <1>17 DEF Proceed, NetworkFails, NetworkReturns, vars, JobInv, Jobs
  <2>3. InTheMaking' = InTheMaking /\ Unfinished' = Unfinished
    BY <2>1, <2>2 DEF InTheMaking, Unfinished, Direct, KindOf
  <2> QED
    BY <1>0, <2>1, <2>2, <2>3, NothingMoves
<1>18. ASSUME NEW l \in listeners, CloseListener(l) PROVE Owners' /\ Owned'
  <2>1. Unfinished = {} /\ InTheMaking = {} /\ Unfinished' = {} /\ InTheMaking' = {}
    BY <1>1, <1>2, <1>5, <1>18 DEF CloseListener
  <2>2. /\ listeners' = listeners \ {l} /\ UNCHANGED <<ctx, lost>>
        /\ \A e \in Descriptors : open'[e] = IF e = l THEN "free" ELSE open[e]
    BY <1>0, <1>18 DEF CloseListener
  <2>3. open[l] = "listening" /\ listeners \subseteq Descriptors /\ lost \subseteq Descriptors
    BY DEF Owners, Typed
  <2>4. Owners'
    BY <1>0, <2>1, <2>2, <2>3 DEF Owners
  <2>5. Owned'
    BY <2>1, <2>2 DEF Owned
  <2> QED
    BY <2>4, <2>5
<1>19. ASSUME NEW d \in Descriptors, PeerDies(d) PROVE Owners' /\ Owned'
  <2>1. /\ open[d] = "up" /\ UNCHANGED <<ctx, listeners, lost, job>>
        /\ \A e \in Descriptors : open'[e] = IF e = d THEN "dead" ELSE open[e]
    BY <1>0, <1>19 DEF PeerDies
  <2>2. InTheMaking' = InTheMaking /\ Unfinished' = Unfinished
    BY <2>1 DEF InTheMaking, Unfinished, Direct, KindOf
  <2>3. listeners \subseteq Descriptors /\ lost \subseteq Descriptors
    BY DEF Typed
  <2>4. InTheMaking \subseteq Descriptors
    BY <1>0 DEF InTheMaking, Known
  <2>5. Owners'
    BY <1>0, <2>1, <2>2, <2>3, <2>4 DEF Owners
  <2>6. Owned'
    BY <2>1, <2>2 DEF Owned
  <2> QED
    BY <2>5, <2>6
<1> QED
  BY <1>8, <1>9, <1>10, <1>11, <1>12, <1>13, <1>14, <1>15, <1>16, <1>17, <1>18, <1>19
     DEF Next, Library
-----------------------------------------------------------------------------
(* The inductive invariant.                                                      *)
IInv == Typed /\ JobInv /\ Owners /\ Owned

(* It holds before the first call.                                             *)
LEMMA Initially == Init => IInv
<1> SUFFICES ASSUME Init PROVE IInv
  OBVIOUS
<1> USE DEF NoDescriptor
<1>1. Typed
  BY ContextAssumption
     DEF Init, Typed, NoContext, ContextRecords, Modes, States, Lines, Signals
<1>2. JobInv
  BY DEF Init, JobInv, Jobs, Idle, Calls, Setting
<1>3. Unfinished = {} /\ InTheMaking = {}
  BY DEF Init, Unfinished, InTheMaking, Idle
<1>4. Owners
  BY <1>3 DEF Init, Owners, NoContext
<1>5. Owned
  BY DEF Init, Owned
<1> QED
  BY <1>1, <1>2, <1>4, <1>5 DEF IInv

(* Every step of the program, the library and the peers keeps it.              *)
LEMMA IInvStep == IInv /\ [Next]_vars => IInv'
<1> SUFFICES ASSUME IInv, [Next]_vars PROVE IInv'
  OBVIOUS
<1>1. Typed /\ JobInv /\ Owners /\ Owned
  BY DEF IInv
<1>2. TypeOK
  BY <1>1, TypeIsTyped
<1>3. Typed' /\ JobInv'
  BY <1>1, <1>2, TypeStep, JobStep
<1>4. Owners' /\ Owned'
  BY <1>1, <1>3, OwnersStep
<1> QED
  BY <1>3, <1>4 DEF IInv

(* It holds in every state of every behaviour.                                 *)
LEMMA Always == Spec => []IInv
  BY Initially, IInvStep, PTL DEF Spec

(* Every variable keeps its type: libmodbus never asks a serial line for a rate      *)
(* there is no constant for, and only connecting and listening make descriptors.      *)
THEOREM TypeCorrect == Spec => []TypeOK
<1>1. IInv => TypeOK
  BY TypeIsTyped DEF IInv
<1> QED
  BY <1>1, Always, PTL

(* No call leaves an open descriptor behind that nobody knows, whichever of its stages   *)
(* fails (_modbus_tcp_connect, modbus_tcp_listen, _modbus_rtu_connect, modbus_close).     *)
THEOREM NothingIsLeaked == Spec => []NothingLeaks
<1>1. IInv => NothingLeaks
  BY DEF IInv, Owned, NothingLeaks
<1> QED
  BY <1>1, Always, PTL

(* No number that was closed and given out anew is used by its former owner: every         *)
(* descriptor that a context or the program has is open and has one owner                  *)
(* (_modbus_tcp_close, _modbus_rtu_close, modbus_tcp_accept).                             *)
THEOREM OneOwnerEach == Spec => []OneOwner
<1>1. IInv => OneOwner
  <2> SUFFICES ASSUME IInv PROVE OneOwner
    OBVIOUS
  <2> USE DEF NoDescriptor
  <2>1. Owners
    BY DEF IInv
  <2>2. ASSUME NEW c \in Contexts, ctx[c].s # NoDescriptor
        PROVE  /\ open[ctx[c].s] \in IF job.call = "connect" THEN {"up", "dead", "socket", "line"}
                                     ELSE {"up", "dead"}
               /\ ctx[c].s \notin lost \cup InTheMaking
               /\ \A other \in Contexts \ {c} : ctx[other].s # ctx[c].s
    <3>1. c \in Unfinished => job.call = "connect" /\ InTheMaking = {}
      BY DEF Unfinished, InTheMaking
    <3>2. open[ctx[c].s] \in IF c \in Unfinished THEN {"socket", "line"} ELSE {"up", "dead"}
      BY <2>1, <2>2 DEF Owners
    <3>3. ctx[c].s \notin InTheMaking
      BY <2>1, <3>1, <3>2 DEF Owners
    <3>4. ctx[c].s \notin lost /\ \A other \in Contexts \ {c} : ctx[other].s # ctx[c].s
      BY <2>1, <2>2 DEF Owners
    <3> QED
      BY <3>1, <3>2, <3>3, <3>4
  <2>3. /\ \A l \in listeners : open[l] = "listening"
        /\ \A d \in lost \cup InTheMaking : open[d] # "free"
        /\ lost \cap InTheMaking = {}
    BY <2>1 DEF Owners
  <2> QED
    BY <2>2, <2>3 DEF OneOwner
<1> QED
  BY <1>1, Always, PTL
-----------------------------------------------------------------------------
Attached(c) == ctx[c].kind = "rtu" /\ ctx[c].s # NoDescriptor

\* One context at most is of the serial line, and no other sets its signal.
Sole ==
  /\ \A c, other \in Contexts : ctx[c].kind = "rtu" /\ ctx[other].kind = "rtu" => c = other
  /\ \A c \in Contexts : ctx[c].kind # "rtu" => ctx[c].rts = "none"

\* What was saved can be relied on: the program has lost no descriptor, and the driver has
\* failed neither to tell the settings nor to restore them.
Reliable == lost = {} /\ line.slips \subseteq {"signal"}

\* What the line is to its context: with the descriptor in the making, as it was
\* found and just opened; after that, as the context wants it.
Agrees(c) ==
  /\ Attached(c) =>
       /\ Reliable => ctx[c].saved = AsFound
       /\ IF c \in Unfinished
          THEN line.rts = "up" /\ (Reliable => line.speed = AsFound)
          ELSE /\ open[ctx[c].s] = "up"
               /\ line.speed = Speed(ctx[c].baud)
               /\ ctx[c].rts = "down" /\ "signal" \notin line.slips => line.rts = Resting("down")
  /\ ~Attached(c) /\ Reliable => line.speed = AsFound
  /\ ctx[c].mode = "RS485" => line.rs485

LineInv ==
  /\ Sole
  /\ ~line.broken =>
       /\ \A c \in Contexts : ctx[c].kind = "rtu" => Agrees(c)
       /\ Reliable /\ (\A c \in Contexts : ctx[c].kind # "rtu") => line.speed = AsFound

(* The line stays as agreed if neither it nor its context is touched, except that the   *)
(* context may be freed.                                                              *)
LEMMA LineKept ==
  ASSUME LineInv, Sole', lost \subseteq lost', line'.broken \/ line' = line,
         \A c \in Contexts : ctx'[c].kind = "rtu" =>
           /\ ctx[c].kind = "rtu"
           /\ ctx'[c].s = ctx[c].s /\ ctx'[c].baud = ctx[c].baud /\ ctx'[c].saved = ctx[c].saved
           /\ ctx'[c].rts = ctx[c].rts /\ ctx'[c].mode = ctx[c].mode
           /\ ctx[c].s # NoDescriptor => open'[ctx[c].s] = open[ctx[c].s]
           /\ c \in Unfinished' <=> c \in Unfinished,
         \A c \in Contexts : ctx[c].kind = "rtu" =>
           ctx'[c].kind = "rtu" \/ ctx[c].s = NoDescriptor \/ lost' # {}
  PROVE  LineInv'
<1> SUFFICES ASSUME ~line'.broken
             PROVE  /\ \A c \in Contexts : ctx'[c].kind = "rtu" => Agrees(c)'
                    /\ Reliable' /\ (\A c \in Contexts : ctx'[c].kind # "rtu") => line'.speed = AsFound
  BY DEF LineInv
<1>1. line' = line /\ ~line.broken
  OBVIOUS
<1>2. Reliable' => Reliable /\ lost' = {}
  BY <1>1 DEF Reliable
<1>3. ASSUME NEW c \in Contexts, ctx'[c].kind = "rtu" PROVE Agrees(c)'
  <2>1. Agrees(c)
    BY <1>1, <1>3 DEF LineInv
  <2> QED
    BY <1>1, <1>2, <1>3, <2>1 DEF Agrees, Attached
<1>4. ASSUME Reliable', \A c \in Contexts : ctx'[c].kind # "rtu" PROVE line'.speed = AsFound
  <2>1. CASE \E c \in Contexts : ctx[c].kind = "rtu"
    <3>1. PICK c \in Contexts : ctx[c].kind = "rtu"
      BY <2>1
    <3>2. Agrees(c) /\ ~Attached(c)
      BY <1>1, <1>2, <1>4, <3>1 DEF LineInv, Attached
    <3> QED
      BY <1>1, <1>2, <1>4, <3>2 DEF Agrees
  <2>2. CASE \A c \in Contexts : ctx[c].kind # "rtu"
    BY <1>1, <1>2, <1>4, <2>2 DEF LineInv
  <2> QED
    BY <2>1, <2>2
<1> QED
  BY <1>3, <1>4

(* The line is as agreed if it is for its context.                                       *)
LEMMA LineOfOne ==
  ASSUME Sole', NEW c \in Contexts, ctx'[c].kind = "rtu", ~line'.broken => Agrees(c)'
  PROVE  LineInv'
  BY DEF LineInv, Sole

(* Kinds and signals stay what they are for all contexts but one, which may be anything    *)
(* except the serial line's, if that is not what it was.                                *)
LEMMA SoleKept ==
  ASSUME Sole, NEW c \in Contexts,
         \A other \in Contexts \ {c} : ctx'[other].kind = ctx[other].kind
                                       /\ ctx'[other].rts = ctx[other].rts,
         ctx'[c].kind = "rtu" => \/ ctx[c].kind = "rtu"
                                 \/ \A other \in Contexts : ctx[other].kind # "rtu",
         ctx'[c].kind # "rtu" => ctx'[c].rts = "none"
  PROVE  Sole'
<1>1. ASSUME NEW one \in Contexts, NEW other \in Contexts,
             ctx'[one].kind = "rtu", ctx'[other].kind = "rtu"
      PROVE  one = other
  BY <1>1 DEF Sole
<1>2. ASSUME NEW other \in Contexts, ctx'[other].kind # "rtu" PROVE ctx'[other].rts = "none"
  BY <1>2 DEF Sole
<1> QED
  BY <1>1, <1>2 DEF Sole

(* The stages of connecting to a serial line, which are of no other route.                  *)
LEMMA LineStages ==
  ASSUME TypeOK, JobInv, Setting
  PROVE  IF KindOf(job) = "rtu"
         THEN /\ job.call = "connect" /\ Direct(job)
              /\ Stage = "open" <=> job.s = NoDescriptor
              /\ Last <=> Stage = "attributes"
              /\ Stage \in {"open", "speed", "attributes"}
         ELSE Stage \notin {"open", "attributes"}
<1>1. KindOf(job) \in Kinds
  BY DEF TypeOK, JobInv, Setting, KindOf, Kinds
<1>2. job.stage \in 1 .. Len(Route[job.call][KindOf(job)])
  BY DEF JobInv
<1>3. CASE KindOf(job) = "rtu"
  <2>1. job.call = "connect"
    BY <1>3 DEF JobInv, Setting
  <2>2. Route[job.call][KindOf(job)] = <<"open", "speed", "attributes">>
    BY <1>3, <2>1 DEF Route
  <2>3. job.stage \in 1 .. 3 /\ (job.s = NoDescriptor <=> job.stage <= 1)
    BY <1>2, <1>3, <2>2 DEF JobInv, DescriptorStage
  <2> QED
    BY <1>3, <2>1, <2>2, <2>3 DEF Stage, Last, Direct
<1>4. CASE job.call = "connect" /\ KindOf(job) = "tcp"
  <2>1. Route[job.call][KindOf(job)] = <<"socket", "options", "address", "connect">>
    BY <1>4 DEF Route
  <2>2. job.stage \in 1 .. 4
    BY <1>2, <2>1
  <2> QED
    BY <1>4, <2>1, <2>2 DEF Stage
<1>5. CASE job.call = "connect" /\ KindOf(job) = "pi"
  <2>1. Route[job.call][KindOf(job)] = <<"resolve", "socket", "connect">>
    BY <1>5 DEF Route
  <2>2. job.stage \in 1 .. 3
    BY <1>2, <2>1
  <2> QED
    BY <1>5, <2>1, <2>2 DEF Stage
<1>6. CASE job.call = "listen" /\ KindOf(job) = "tcp"
  <2>1. Route[job.call][KindOf(job)] = <<"socket", "reuse", "address", "bind", "listen">>
    BY <1>6 DEF Route
  <2>2. job.stage \in 1 .. 5
    BY <1>2, <2>1
  <2> QED
    BY <1>6, <2>1, <2>2 DEF Stage
<1>7. CASE job.call = "listen" /\ KindOf(job) = "pi"
  <2>1. Route[job.call][KindOf(job)] = <<"resolve", "socket", "reuse", "bind", "listen">>
    BY <1>7 DEF Route
  <2>2. job.stage \in 1 .. 5
    BY <1>2, <2>1
  <2> QED
    BY <1>7, <2>1, <2>2 DEF Stage
<1> QED
  BY <1>1, <1>3, <1>4, <1>5, <1>6, <1>7 DEF Kinds, Setting

(* Closing gives the line back as it was found, and keeps to it otherwise.                  *)
LEMMA LineClosed ==
  ASSUME Typed, JobInv, Owners, LineInv, NEW c \in Contexts, ctx[c].kind # "none",
         Unfinished = {}, Unfinished' = {}, Closed(c), UNCHANGED lost
  PROVE  LineInv'
<1> USE DEF NoDescriptor
<1>0. /\ ctx \in [Contexts -> ContextRecords] /\ open \in [Descriptors -> States]
      /\ line \in Lines /\ lost \subseteq Descriptors
      /\ ctx[c] \in ContextRecords
  BY DEF Typed
<1>1. /\ \A other \in Contexts \ {c} : ctx'[other] = ctx[other]
      /\ ctx'[c] = [ctx[c] EXCEPT !.s = NoDescriptor]
  BY <1>0 DEF Closed
<1>2. /\ ctx'[c].kind = ctx[c].kind /\ ctx'[c].s = NoDescriptor /\ ctx'[c].rts = ctx[c].rts
      /\ ctx'[c].mode = ctx[c].mode
  BY <1>0, <1>1 DEF ContextRecords
<1>3. Sole'
  <2>1. Sole
    BY DEF LineInv
  <2>2. ctx'[c].kind # "rtu" => ctx'[c].rts = "none"
    BY <1>2, <2>1 DEF Sole
  <2> QED
    BY <1>1, <1>2, <2>1, <2>2, SoleKept
<1>4. CASE ctx[c].kind # "rtu"
  <2>1. line' = line
    BY <1>4 DEF Closed, Restored
  <2>2. ASSUME NEW other \in Contexts, ctx[other].kind = "rtu"
        PROVE  /\ ctx'[other] = ctx[other]
               /\ ctx[other].s # NoDescriptor => open'[ctx[other].s] = open[ctx[other].s]
    <3>1. other # c
      BY <1>4, <2>2
    <3>2. ctx[other].s # NoDescriptor => ctx[other].s # ctx[c].s /\ ctx[other].s \in Descriptors
      BY <1>0, <3>1 DEF Owners, ContextRecords
    <3> QED
      BY <1>1, <3>1, <3>2 DEF Closed
  <2>3. \A other \in Contexts : ctx'[other].kind = "rtu" => ctx[other].kind = "rtu"
    BY <1>1, <1>2
  <2> QED
    BY <1>3, <2>1, <2>2, <2>3, LineKept
<1>5. CASE ctx[c].kind = "rtu"
  <2>1. ASSUME ~line'.broken PROVE Agrees(c)'
    <3>1. ~Attached(c)'
      BY <1>2 DEF Attached
    <3>2. CASE Works(c)
      <4>1. \/ line' = [line EXCEPT !.speed = ctx[c].saved]
            \/ line' = [line EXCEPT !.slips = line.slips \cup {"restoring"}]
        BY <1>5, <3>2 DEF Closed, Restored
      <4>2. /\ line'.rs485 = line.rs485 /\ line'.broken = line.broken
            /\ Reliable' => line'.speed = ctx[c].saved /\ Reliable
        <5>1. CASE line' = [line EXCEPT !.speed = ctx[c].saved]
          BY <1>0, <5>1 DEF Lines, Reliable
        <5>2. CASE line' = [line EXCEPT !.slips = line.slips \cup {"restoring"}]
          <6>1. /\ line'.slips = line.slips \cup {"restoring"}
                /\ line'.rs485 = line.rs485 /\ line'.broken = line.broken
            BY <1>0, <5>2 DEF Lines
          <6>2. ~Reliable'
            BY <6>1 DEF Reliable
          <6> QED
            BY <6>1, <6>2
        <5> QED
          BY <4>1, <5>1, <5>2
      <4>3. Agrees(c) /\ Attached(c)
        BY <1>5, <2>1, <3>2, <4>2 DEF LineInv, Works, Attached
      <4> QED
        BY <1>2, <3>1, <4>2, <4>3 DEF Agrees
    <3>3. CASE ~Works(c)
      <4>1. line' = line
        BY <3>3 DEF Closed, Restored
      <4>2. Agrees(c)
        BY <1>5, <2>1, <4>1 DEF LineInv
      <4>3. ~Attached(c)
        BY <3>3, <4>2 DEF Agrees, Attached, Works
      <4> QED
        BY <1>2, <3>1, <4>1, <4>2, <4>3 DEF Agrees, Reliable
    <3> QED
      BY <3>2, <3>3
  <2> QED
    BY <1>2, <1>3, <1>5, <2>1, LineOfOne
<1> QED
  BY <1>4, <1>5

(* The driver sets RTS or does not, and nothing else of the line changes.                     *)
LEMMA SignalChanged ==
  ASSUME line \in Lines, NEW signal, NEW others, SetSignal(signal, others)
  PROVE  /\ line'.speed = line.speed /\ line'.rs485 = line.rs485 /\ line'.broken = line.broken
         /\ "signal" \notin line'.slips => line'.rts = signal
         /\ Reliable' /\ lost' = lost => Reliable
<1>1. CASE line' = [line EXCEPT !.rts = signal, !.slips = @ \ {"signal"}]
  <2>1. /\ line'.speed = line.speed /\ line'.rs485 = line.rs485 /\ line'.broken = line.broken
        /\ line'.rts = signal /\ line'.slips = line.slips \ {"signal"}
    BY <1>1 DEF Lines
  <2> QED
    BY <2>1 DEF Reliable
<1>2. CASE \E old \in others : line' = [line EXCEPT !.rts = old, !.slips = @ \cup {"signal"}]
  <2>1. /\ line'.speed = line.speed /\ line'.rs485 = line.rs485 /\ line'.broken = line.broken
        /\ line'.slips = line.slips \cup {"signal"}
    BY <1>2 DEF Lines
  <2> QED
    BY <2>1 DEF Reliable
<1> QED
  BY <1>1, <1>2 DEF SetSignal

(* Sending leaves the signal where it rests unless the driver fails, and nothing else of the  *)
(* line changes.                                                                              *)
LEMMA LineSignalled ==
  ASSUME Typed, LineInv, NEW c \in Contexts, Unfinished = {}, Unfinished' = {},
         Signalled(c), UNCHANGED <<ctx, open, lost>>
  PROVE  LineInv'
<1>0. line \in Lines /\ Sole /\ Sole'
  BY DEF Typed, LineInv, Sole
<1>1. CASE line' = line
  BY <1>0, <1>1, LineKept
<1>2. CASE line' # line
  <2>1. /\ Works(c) /\ ctx[c].rts # "none"
        /\ SetSignal(Resting(ctx[c].rts), {line.rts, ctx[c].rts})
    BY <1>2 DEF Signalled
  <2>2. ctx[c].kind = "rtu"
    BY <1>0, <2>1 DEF Sole
  <2>3. /\ line'.speed = line.speed /\ line'.rs485 = line.rs485 /\ line'.broken = line.broken
        /\ "signal" \notin line'.slips => line'.rts = Resting(ctx[c].rts)
        /\ Reliable' => Reliable
    BY <1>0, <2>1, SignalChanged
  <2>4. ~line'.broken => Agrees(c)'
    BY <2>2, <2>3 DEF LineInv, Agrees, Attached
  <2> QED
    BY <1>0, <2>2, <2>4, LineOfOne
<1> QED
  BY <1>1, <1>2

(* The program acts between the calls of the library, and no call begins with a descriptor.  *)
LEMMA BetweenCalls ==
  ASSUME NEW c \in Contexts, Program(c)
  PROVE  job = Idle /\ job'.s = NoDescriptor
<1> DEFINE Rest == job = Idle /\ (job' = Idle \/ \E call : job' = Job(call, c, "program"))
<1>1. ASSUME NEW kind, Create(c, kind) PROVE Rest
  BY <1>1 DEF Create
<1>2. ASSUME NEW baud, NEW mode, CreateRtu(c, baud, mode) PROVE Rest
  BY <1>2 DEF CreateRtu
<1>3. Free(c) \/ Close(c) => Rest
  BY DEF Free, Close
<1>4. Connect(c) \/ Listen(c) \/ Send(c) => Rest
  BY DEF Connect, Listen, Send
<1>5. ASSUME NEW call, Receive(c, call) PROVE Rest
  BY <1>5 DEF Receive
<1>6. ASSUME NEW field, NEW on, Set(c, field, on) PROVE Rest
  BY <1>6 DEF Set
<1>7. ASSUME NEW mode, SetSerialMode(c, mode) PROVE Rest
  BY <1>7 DEF SetSerialMode
<1>8. ASSUME NEW rts, SetRts(c, rts) PROVE Rest
  BY <1>8 DEF SetRts
<1>9. ASSUME NEW l, Accept(c, l) PROVE Rest
  BY <1>9 DEF Accept
<1> HIDE DEF Rest
<1>10. Rest
  BY <1>1, <1>2, <1>3, <1>4, <1>5, <1>6, <1>7, <1>8, <1>9 DEF Program
<1> QED
  BY <1>10 DEF Rest, Idle, Job

(* What the program does between the calls of the library keeps the agreement.               *)
LEMMA LineProgram ==
  ASSUME Typed, JobInv, Owners, LineInv, NEW c \in Contexts, Program(c)
  PROVE  LineInv'
<1> USE DEF NoDescriptor
<1>0. /\ ctx \in [Contexts -> ContextRecords] /\ open \in [Descriptors -> States]
      /\ line \in Lines /\ lost \subseteq Descriptors /\ ctx[c] \in ContextRecords
      /\ \A other \in Contexts : ctx[other].s \in Descriptors \cup {NoDescriptor}
      /\ Sole
  BY DEF Typed, ContextRecords, LineInv
<1>1. job = Idle /\ Unfinished = {}
  BY BetweenCalls DEF Unfinished, Idle
<1>2. Unfinished' = {}
  BY BetweenCalls DEF Unfinished
<1>3. ASSUME UNCHANGED <<ctx, open, line, lost>> PROVE LineInv'
  <2>1. Sole'
    BY <1>0, <1>3 DEF Sole
  <2> QED
    BY <1>1, <1>2, <1>3, <2>1, LineKept
\* Another context than that of the line, or a field that says nothing about it.
<1>4. ASSUME NEW r, ctx' = [ctx EXCEPT ![c] = r],
             r.kind = "rtu" => /\ ctx[c].kind = "rtu" /\ r.s = ctx[c].s
                               /\ r.baud = ctx[c].baud /\ r.saved = ctx[c].saved
                               /\ r.rts = ctx[c].rts /\ r.mode = ctx[c].mode,
             r.kind # "rtu" => r.rts = "none",
             ctx[c].kind = "rtu" /\ r.kind # "rtu" => ctx[c].s = NoDescriptor \/ lost' # {},
             \A d \in Descriptors : open[d] = "free" \/ open'[d] = open[d],
             lost \subseteq lost', line' = line
      PROVE  LineInv'
  <2>1. ctx'[c] = r /\ \A other \in Contexts \ {c} : ctx'[other] = ctx[other]
    BY <1>0, <1>4
  <2>2. Sole'
    BY <1>0, <1>4, <2>1, SoleKept
  <2>3. \A other \in Contexts : ctx[other].s # NoDescriptor => open'[ctx[other].s] = open[ctx[other].s]
    BY <1>0, <1>1, <1>4 DEF Owners
  <2>4. \A other \in Contexts : ctx'[other].kind = "rtu" =>
           /\ ctx[other].kind = "rtu"
           /\ ctx'[other].s = ctx[other].s /\ ctx'[other].baud = ctx[other].baud
           /\ ctx'[other].saved = ctx[other].saved
           /\ ctx'[other].rts = ctx[other].rts /\ ctx'[other].mode = ctx[other].mode
           /\ ctx[other].s # NoDescriptor => open'[ctx[other].s] = open[ctx[other].s]
           /\ other \in Unfinished' <=> other \in Unfinished
    BY <1>1, <1>2, <1>4, <2>1, <2>3
  <2>5. \A other \in Contexts : ctx[other].kind = "rtu" =>
           ctx'[other].kind = "rtu" \/ ctx[other].s = NoDescriptor \/ lost' # {}
    BY <1>4, <2>1
  <2> QED
    BY <1>4, <2>2, <2>4, <2>5, LineKept
<1>5. ASSUME NEW kind \in program[c].kinds, Create(c, kind) PROVE LineInv'
  <2> DEFINE r == [NoContext EXCEPT !.kind = kind]
  <2>1. r.kind = kind /\ r.rts = "none" /\ kind # "rtu" /\ ctx[c].kind = "none"
    BY <1>5 DEF Create, NoContext
  <2>2. ctx' = [ctx EXCEPT ![c] = r] /\ UNCHANGED <<open, line, lost>>
    BY <1>5 DEF Create, environment
  <2> HIDE DEF r
  <2> QED
    BY <1>4, <2>1, <2>2
<1>6. ASSUME NEW baud \in Bauds, NEW mode \in {"RS232", "none"}, CreateRtu(c, baud, mode)
      PROVE  LineInv'
  <2>1. ctx' = [ctx EXCEPT ![c] = [NoContext EXCEPT !.kind = "rtu", !.baud = baud, !.mode = mode]]
    BY <1>6 DEF CreateRtu
  <2>2. /\ ctx'[c].kind = "rtu" /\ ctx'[c].s = NoDescriptor /\ ctx'[c].mode = mode
        /\ \A other \in Contexts \ {c} : ctx'[other] = ctx[other]
    BY <1>0, <2>1 DEF NoContext
  <2>3. UNCHANGED <<line, lost>> /\ ctx[c].kind = "none"
        /\ \A other \in Contexts : ctx[other].kind # "rtu"
    BY <1>6 DEF CreateRtu, environment
  <2>4. Sole'
    BY <1>0, <2>2, <2>3, SoleKept
  <2>5. ~line'.broken => Agrees(c)'
    BY <2>2, <2>3 DEF LineInv, Agrees, Attached, Reliable
  <2> QED
    BY <2>2, <2>4, <2>5, LineOfOne
<1>7. CASE Free(c)
  <2>1. /\ ctx' = [ctx EXCEPT ![c] = NoContext] /\ UNCHANGED <<open, line>>
        /\ lost' = lost \cup Known(ctx[c].s)
    BY <1>7 DEF Free, environment
  <2>2. NoContext.kind = "none" /\ NoContext.rts = "none"
    BY DEF NoContext
  <2>3. ctx[c].s = NoDescriptor \/ lost' # {}
    BY <2>1 DEF Known
  <2> HIDE DEF NoDescriptor
  <2> QED
    BY <1>4, <2>1, <2>2, <2>3
<1>8. CASE Connect(c) \/ Listen(c) \/ Send(c) \/ \E call \in {"confirmation", "indication"} : Receive(c, call)
  BY <1>3, <1>8 DEF Connect, Listen, Send, Receive, environment
<1>9. CASE Close(c)
  BY <1>1, <1>2, <1>9, LineClosed DEF Close
<1>10. ASSUME NEW field \in program[c].settings \ {"mode", "rts"}, NEW on \in BOOLEAN, Set(c, field, on)
       PROVE  LineInv'
  <2>1. field \in {"recovery", "byte", "indication"}
    BY <1>10, ContextAssumption DEF Typed, Settings
  <2> DEFINE r == [ctx[c] EXCEPT ![field] = on]
  <2>2. /\ r.kind = ctx[c].kind /\ r.s = ctx[c].s /\ r.baud = ctx[c].baud
        /\ r.saved = ctx[c].saved /\ r.rts = ctx[c].rts /\ r.mode = ctx[c].mode
    <3>1. CASE field = "recovery"
      BY <1>0, <3>1 DEF ContextRecords
    <3>2. CASE field = "byte"
      BY <1>0, <3>2 DEF ContextRecords
    <3>3. CASE field = "indication"
      BY <1>0, <3>3 DEF ContextRecords
    <3> QED
      BY <2>1, <3>1, <3>2, <3>3
  <2>3. ctx' = [ctx EXCEPT ![c] = r] /\ UNCHANGED <<open, line, lost>>
    BY <1>10 DEF Set, environment
  <2> HIDE DEF r
  <2> QED
    BY <1>0, <1>4, <2>2, <2>3 DEF Sole
<1>11. ASSUME NEW mode \in Modes, SetSerialMode(c, mode) PROVE LineInv'
  <2>1. CASE ModeRefused(c, mode)
    BY <1>3, <1>11, <2>1 DEF SetSerialMode, ModeRefused
  <2>2. CASE ~ModeRefused(c, mode)
    <3> DEFINE asks == mode = "RS485" \/ ctx[c].mode = "RS485"
    <3>1. /\ ctx[c].kind = "rtu"
          /\ line' = IF asks THEN [line EXCEPT !.rs485 = (mode = "RS485")] ELSE line
          /\ ctx' = [ctx EXCEPT ![c].mode = mode]
          /\ UNCHANGED <<open, lost>>
      BY <1>11, <2>2 DEF SetSerialMode
    <3>2. /\ \A other \in Contexts \ {c} : ctx'[other] = ctx[other]
          /\ ctx'[c].kind = "rtu" /\ ctx'[c].s = ctx[c].s /\ ctx'[c].saved = ctx[c].saved
          /\ ctx'[c].baud = ctx[c].baud /\ ctx'[c].rts = ctx[c].rts /\ ctx'[c].mode = mode
      BY <1>0, <3>1 DEF ContextRecords
    <3>3. /\ line'.speed = line.speed /\ line'.rts = line.rts /\ line'.broken = line.broken
          /\ line'.slips = line.slips
          /\ mode = "RS485" => line'.rs485
      BY <1>0, <3>1 DEF Lines
    <3>4. Sole'
      BY <1>0, <3>1, <3>2, SoleKept
    <3>5. ~line'.broken => Agrees(c)'
      BY <1>1, <1>2, <3>1, <3>2, <3>3 DEF LineInv, Agrees, Attached, Reliable
    <3> QED
      BY <3>2, <3>4, <3>5, LineOfOne
  <2> QED
    BY <2>1, <2>2
<1>12. ASSUME NEW rts \in Signals \cup {"none"}, SetRts(c, rts) PROVE LineInv'
  <2>1. /\ ctx[c].kind = "rtu"
        /\ IF Works(c) THEN SetSignal(Resting(rts), {line.rts}) ELSE UNCHANGED line
        /\ ctx' = [ctx EXCEPT ![c].rts = rts]
        /\ UNCHANGED <<open, lost>>
    BY <1>12 DEF SetRts
  <2>2. /\ \A other \in Contexts \ {c} : ctx'[other] = ctx[other]
        /\ ctx'[c].kind = "rtu" /\ ctx'[c].s = ctx[c].s /\ ctx'[c].saved = ctx[c].saved
        /\ ctx'[c].baud = ctx[c].baud /\ ctx'[c].rts = rts /\ ctx'[c].mode = ctx[c].mode
    BY <1>0, <2>1 DEF ContextRecords
  <2>3. /\ line'.speed = line.speed /\ line'.rs485 = line.rs485 /\ line'.broken = line.broken
        /\ Works(c) /\ "signal" \notin line'.slips => line'.rts = Resting(rts)
        /\ Reliable' => Reliable
    <3>1. CASE Works(c)
      BY <1>0, <2>1, <3>1, SignalChanged
    <3>2. CASE ~Works(c)
      BY <2>1, <3>2 DEF Reliable
    <3> QED
      BY <3>1, <3>2
  <2>4. Sole'
    BY <1>0, <2>1, <2>2, SoleKept
  <2>5. ASSUME ~line'.broken PROVE Agrees(c)'
    <3>1. Agrees(c)
      BY <2>1, <2>3, <2>5 DEF LineInv
    <3>2. Attached(c)' <=> Attached(c)
      BY <2>1, <2>2 DEF Attached
    <3>3. Attached(c) => Works(c)
      BY <1>1, <3>1 DEF Agrees, Attached, Works
    <3> QED
      BY <1>1, <1>2, <2>1, <2>2, <2>3, <3>1, <3>2, <3>3 DEF Agrees
  <2> QED
    BY <2>2, <2>4, <2>5, LineOfOne
<1>13. ASSUME NEW l \in listeners, Accept(c, l) PROVE LineInv'
  <2>1. /\ ctx[c].kind \in {"tcp", "pi"} /\ UNCHANGED line /\ lost \subseteq lost'
        /\ \A d \in Descriptors : open[d] = "free" \/ open'[d] = open[d]
    BY <1>0, <1>13 DEF Accept, environment, IsNext
  <2>2. PICK d \in Descriptors \cup {NoDescriptor} : ctx' = [ctx EXCEPT ![c].s = d]
    BY <1>13 DEF Accept
  <2> DEFINE r == [ctx[c] EXCEPT !.s = d]
  <2>3. r.kind = ctx[c].kind /\ r.rts = ctx[c].rts
    BY <1>0 DEF ContextRecords
  <2>4. ctx' = [ctx EXCEPT ![c] = r]
    BY <2>2
  <2> HIDE DEF r
  <2> QED
    BY <1>0, <1>4, <2>1, <2>3, <2>4 DEF Sole
<1> QED
  BY <1>5, <1>6, <1>7, <1>8, <1>9, <1>10, <1>11, <1>12, <1>13 DEF Program

(* A descriptor in the making that is not of the serial line is not that of its context.       *)
LEMMA MadeElsewhere ==
  ASSUME JobInv, Owners, Setting, KindOf(job) # "rtu", NEW c \in Contexts, ctx[c].kind = "rtu"
  PROVE  c \notin Unfinished /\ (ctx[c].s # NoDescriptor => ctx[c].s # job.s)
<1> USE DEF NoDescriptor
<1>1. c \notin Unfinished
  BY DEF Unfinished, KindOf
<1>2. ASSUME ctx[c].s # NoDescriptor PROVE ctx[c].s # job.s
  <2>1. open[ctx[c].s] \in {"up", "dead"}
    BY <1>1, <1>2 DEF Owners
  <2>2. CASE job.s \in InTheMaking
    BY <2>1, <2>2 DEF Owners
  <2>3. CASE job.s \notin InTheMaking /\ job.s # NoDescriptor
    <3>1. Direct(job)
      BY <2>3 DEF InTheMaking, Known, Setting
    <3>2. job.ctx \in Unfinished
      BY <2>3, <3>1 DEF Unfinished, Direct, JobInv, Setting
    <3>3. open[job.s] \in {"socket", "line"}
      BY <2>3, <3>2 DEF Owners, Unfinished
    <3> QED
      BY <2>1, <3>3
  <2>4. CASE job.s = NoDescriptor
    BY <1>2, <2>4
  <2> QED
    BY <2>2, <2>3, <2>4
<1> QED
  BY <1>1, <1>2

(* What a connect to the serial line does to it, stage by stage.                             *)
LEMMA LineConnecting ==
  ASSUME Typed, JobInv, Owners, LineInv, Setting, KindOf(job) = "rtu",
         GetDescriptor \/ ConnectSucceeds \/ DirectStageFails
  PROVE  LineInv'
<1> USE DEF NoDescriptor
<1>a. TypeOK
  BY TypeIsTyped
<1>b. PICK c \in Contexts : c = job.ctx
  BY DEF JobInv, Setting
<1>0. /\ ctx \in [Contexts -> ContextRecords] /\ open \in [Descriptors -> States]
      /\ line \in Lines /\ lost \subseteq Descriptors
      /\ ctx[c] \in ContextRecords /\ ctx[c].kind = "rtu" /\ Sole
  BY <1>b DEF Typed, LineInv, TypeOK, Setting, KindOf
<1>1. /\ job.call = "connect" /\ Direct(job)
      /\ Stage = "open" <=> job.s = NoDescriptor
      /\ Last <=> Stage = "attributes"
      /\ Stage \in {"open", "speed", "attributes"}
  BY <1>a, LineStages
<1>2. IF job.s = NoDescriptor THEN Unfinished = {} ELSE c \in Unfinished /\ ctx[c].s = job.s
  <2>1. job.s # NoDescriptor => c \in Unfinished
    BY <1>b, <1>0, <1>1 DEF Unfinished
  <2> QED
    BY <2>1 DEF Unfinished, Owners
<1>3. \A outcome : AfterConnecting(outcome) => Unfinished' = {}
  BY DEF AfterConnecting, Unfinished, Idle, Job
<1>4. CASE GetDescriptor
  <2>1. PICK d \in Descriptors, told \in BOOLEAN :
          /\ job' = [job EXCEPT !.s = d, !.stage = @ + 1]
          /\ IF Direct(job)
             THEN /\ ctx' = [ctx EXCEPT ![job.ctx].s = d,
                                        ![job.ctx].saved = IF Stage = "open" /\ told
                                                           THEN line.speed ELSE @]
                  /\ lost' = lost \cup Known(ctx[job.ctx].s)
             ELSE UNCHANGED <<ctx, lost>>
          /\ line' = IF Stage = "open" THEN Opened(told) ELSE line
    BY ONLY <1>4, Zenon DEF GetDescriptor
  <2>a. Stage \in {"socket", "open"}
    BY ONLY <1>4 DEF GetDescriptor
  <2>b. Stage = "open" /\ job.s = NoDescriptor
    BY <1>1, <2>a
  <2> DEFINE saved == IF told THEN line.speed ELSE ctx[c].saved
  <2>2. ctx' = [ctx EXCEPT ![c] = [ctx[c] EXCEPT !.s = d, !.saved = saved]]
    BY <1>b, <1>0, <1>1, <2>1, <2>b
  <2>3. lost' = lost \cup Known(ctx[c].s) /\ line' = Opened(told)
    BY <1>b, <1>1, <2>1, <2>b
  <2>c. told => saved = line.speed
    OBVIOUS
  <2> HIDE DEF saved
  <2>4. d # NoDescriptor
    BY ContextAssumption
  <2>5. /\ \A other \in Contexts \ {c} : ctx'[other] = ctx[other]
        /\ ctx'[c].kind = "rtu" /\ ctx'[c].s = d /\ ctx'[c].saved = saved
        /\ ctx'[c].baud = ctx[c].baud /\ ctx'[c].rts = ctx[c].rts /\ ctx'[c].mode = ctx[c].mode
    BY <1>0, <2>2 DEF ContextRecords
  <2>6. /\ line'.speed = line.speed /\ line'.rs485 = line.rs485 /\ line'.broken = line.broken
        /\ line'.rts = "up"
        /\ ~told => "saving" \in line'.slips
        /\ told => line'.slips = line.slips \ {"signal"}
    BY <1>0, <2>3 DEF Lines, Opened
  <2>7. c \in Unfinished'
    <3>1. job'.call = "connect" /\ job'.ctx = c /\ job'.s = d
      BY <1>b, <1>1, <2>1 DEF JobInv, Jobs
    <3> QED
      BY <1>0, <2>4, <2>5, <3>1 DEF Unfinished, Direct, KindOf
  <2>8. Sole'
    BY <1>0, <2>5, SoleKept
  <2>9. Reliable' => Reliable /\ told /\ ctx[c].s = NoDescriptor
    BY <2>3, <2>6 DEF Known, Reliable
  <2>10. ~line'.broken => Agrees(c)'
    <3>0. Attached(c)'
      BY <2>4, <2>5 DEF Attached
    <3>a. Reliable' => ctx'[c].saved = line.speed
      BY <2>c, <2>5, <2>9
    <3>1. ASSUME Reliable' => line.speed = AsFound, ctx[c].mode = "RS485" => line.rs485
          PROVE  Agrees(c)'
      <4>1. Reliable' => ctx'[c].saved = AsFound
        BY <3>1, <3>a
      <4>2. line'.rts = "up" /\ (Reliable' => line'.speed = AsFound)
        BY <2>6, <3>1
      <4>3. ctx'[c].mode = "RS485" => line'.rs485
        BY <2>5, <2>6, <3>1
      <4> QED
        BY <2>7, <3>0, <4>1, <4>2, <4>3, Zenon DEF Agrees
    <3> QED
      BY <1>0, <2>6, <2>9, <3>1 DEF LineInv, Agrees, Attached
  <2> QED
    BY <1>0, <2>5, <2>8, <2>10, LineOfOne
<1>5. CASE ConnectSucceeds
  <2>1. Stage = "attributes" /\ job.s # NoDescriptor
    BY <1>1, <1>5 DEF ConnectSucceeds
  <2>2. /\ open' = [open EXCEPT ![job.s] = "up"] /\ UNCHANGED <<ctx, lost>>
        /\ line' = [line EXCEPT !.speed = Speed(ctx[c].baud)] /\ Unfinished' = {}
    BY <1>b, <1>1, <1>3, <1>5, <2>1 DEF ConnectSucceeds
  <2>3. ctx[c].s = job.s /\ c \in Unfinished /\ ctx[c].s \in Descriptors
    BY <1>0, <1>2, <2>1 DEF ContextRecords
  <2>4. /\ line'.speed = Speed(ctx[c].baud) /\ line'.rs485 = line.rs485
        /\ line'.broken = line.broken /\ line'.rts = line.rts /\ line'.slips = line.slips
    BY <1>0, <2>2 DEF Lines
  <2>5. open'[ctx[c].s] = "up"
    BY <1>0, <2>2, <2>3
  <2>6. Sole'
    BY <1>0, <2>2 DEF Sole
  <2>7. Resting("down") = "up"
    BY DEF Resting
  <2>8. ~line'.broken => Agrees(c)'
    BY <1>0, <2>1, <2>2, <2>3, <2>4, <2>5, <2>7 DEF LineInv, Agrees, Attached, Reliable
  <2> QED
    BY <1>0, <2>2, <2>6, <2>8, LineOfOne
<1>6. CASE DirectStageFails
  <2>1. /\ ctx' = [ctx EXCEPT ![c].s = NoDescriptor] /\ UNCHANGED line /\ Unfinished' = {}
        /\ lost' = IF job.s = NoDescriptor THEN lost \cup Known(ctx[c].s) ELSE lost
    BY <1>b, <1>3, <1>6 DEF DirectStageFails, environment
  <2>2. /\ \A other \in Contexts \ {c} : ctx'[other] = ctx[other]
        /\ ctx'[c].kind = "rtu" /\ ctx'[c].s = NoDescriptor
        /\ ctx'[c].rts = ctx[c].rts /\ ctx'[c].mode = ctx[c].mode
    BY <1>0, <2>1 DEF ContextRecords
  <2>3. Sole'
    BY <1>0, <2>2, SoleKept
  <2>4. ASSUME ~line'.broken PROVE Agrees(c)'
    <3>1. Agrees(c)
      BY <1>0, <2>1, <2>4 DEF LineInv
    <3>2. ASSUME Reliable' PROVE line.speed = AsFound
      <4>1. CASE job.s = NoDescriptor
        <5>1. Reliable /\ ctx[c].s = NoDescriptor
          BY <2>1, <3>2, <4>1 DEF Known, Reliable
        <5> QED
          BY <3>1, <5>1 DEF Agrees, Attached
      <4>2. CASE job.s # NoDescriptor
        <5>1. Reliable
          BY <2>1, <3>2, <4>2 DEF Reliable
        <5> QED
          BY <1>0, <1>2, <2>1, <3>1, <4>2, <5>1 DEF Agrees, Attached
      <4> QED
        BY <4>1, <4>2
    <3> QED
      BY <2>1, <2>2, <3>1, <3>2 DEF Agrees, Attached
  <2> QED
    BY <1>0, <2>2, <2>3, <2>4, LineOfOne
<1> QED
  BY <1>4, <1>5, <1>6

(* No connect, listen or stage of another backend touches the serial line.                    *)
LEMMA LineElsewhere ==
  ASSUME Typed, JobInv, Owners, LineInv, Setting, KindOf(job) # "rtu",
         \/ GetDescriptor \/ Proceed \/ ConnectSucceeds \/ ListenSucceeds
         \/ DirectStageFails \/ NextAddress \/ CallFails
  PROVE  LineInv'
<1> USE DEF NoDescriptor
<1>a. TypeOK
  BY TypeIsTyped
<1>0. /\ ctx \in [Contexts -> ContextRecords] /\ open \in [Descriptors -> States]
      /\ job.ctx \in Contexts /\ ctx[job.ctx].kind # "rtu" /\ Sole
      /\ Stage \notin {"open", "attributes"}
  BY <1>a, LineStages DEF Typed, LineInv, JobInv, Setting, KindOf
<1>1. line' = line /\ lost \subseteq lost'
  <2>1. CASE GetDescriptor
    <3>1. \E told : line' = IF Stage = "open" THEN Opened(told) ELSE line
      BY ONLY <2>1, Zenon DEF GetDescriptor
    <3>2. lost' = lost \cup Known(ctx[job.ctx].s) \/ lost' = lost
      BY ONLY <2>1, Zenon DEF GetDescriptor
    <3> QED
      BY <1>0, <3>1, <3>2
  <2>2. CASE ConnectSucceeds
    BY ONLY <1>0, <2>2 DEF ConnectSucceeds
  <2>3. CASE Proceed \/ ListenSucceeds \/ DirectStageFails \/ NextAddress \/ CallFails
    BY ONLY <2>3 DEF Proceed, ListenSucceeds, DirectStageFails, NextAddress, CallFails, environment
  <2> QED
    BY <2>1, <2>2, <2>3
<1>2. \A other \in Contexts \ {job.ctx} : ctx'[other] = ctx[other]
  <2>1. CASE GetDescriptor
    <3>1. \/ UNCHANGED ctx
          \/ \E d, told : ctx' = [ctx EXCEPT ![job.ctx].s = d,
                                             ![job.ctx].saved = IF Stage = "open" /\ told
                                                                THEN line.speed ELSE @]
      BY ONLY <2>1, Zenon DEF GetDescriptor
    <3> QED
      BY <1>0, <3>1
  <2>2. CASE ConnectSucceeds \/ DirectStageFails
    BY ONLY <1>0, <2>2 DEF ConnectSucceeds, DirectStageFails
  <2>3. CASE Proceed \/ ListenSucceeds \/ NextAddress \/ CallFails
    BY ONLY <2>3 DEF Proceed, ListenSucceeds, NextAddress, CallFails
  <2> QED
    BY <2>1, <2>2, <2>3
<1>3. ctx'[job.ctx].kind = ctx[job.ctx].kind /\ ctx'[job.ctx].rts = ctx[job.ctx].rts
  <2>1. CASE GetDescriptor
    <3>1. \/ UNCHANGED ctx
          \/ \E d, told : ctx' = [ctx EXCEPT ![job.ctx].s = d,
                                             ![job.ctx].saved = IF Stage = "open" /\ told
                                                                THEN line.speed ELSE @]
      BY ONLY <2>1, Zenon DEF GetDescriptor
    <3>2. ctx[job.ctx] \in ContextRecords
      BY <1>0
    <3>3. CASE ctx' # ctx
      <4>1. PICK d, told : ctx' = [ctx EXCEPT ![job.ctx].s = d,
                                     ![job.ctx].saved = IF Stage = "open" /\ told
                                                        THEN line.speed ELSE @]
        BY <3>1, <3>3
      <4> DEFINE speed == IF Stage = "open" /\ told THEN line.speed ELSE ctx[job.ctx].saved
      <4>2. ctx' = [ctx EXCEPT ![job.ctx] = [ctx[job.ctx] EXCEPT !.s = d, !.saved = speed]]
        BY <1>0, <4>1
      <4> HIDE DEF speed
      <4>3. ctx'[job.ctx] = [ctx[job.ctx] EXCEPT !.s = d, !.saved = speed]
        BY <1>0, <4>2
      <4> QED
        BY <3>2, <4>3 DEF ContextRecords
    <3> QED
      BY <3>3
  <2>2. CASE ConnectSucceeds \/ DirectStageFails
    <3>1. UNCHANGED ctx \/ \E d : ctx' = [ctx EXCEPT ![job.ctx].s = d]
      BY ONLY <2>2 DEF ConnectSucceeds, DirectStageFails
    <3> QED
      BY ONLY <1>0, <3>1 DEF ContextRecords
  <2>3. CASE Proceed \/ ListenSucceeds \/ NextAddress \/ CallFails
    BY ONLY <2>3 DEF Proceed, ListenSucceeds, NextAddress, CallFails
  <2> QED
    BY <2>1, <2>2, <2>3
<1>4. Sole'
  BY <1>0, <1>2, <1>3, SoleKept DEF Sole
<1>5. \A d \in Descriptors : open[d] = "free" \/ d = job.s \/ open'[d] = open[d]
  <2>1. CASE GetDescriptor
    <3>1. \E d \in Descriptors :
            /\ IsNext(d)
            /\ open' = [open EXCEPT ![d] = IF Stage = "open" THEN "line" ELSE "socket"]
      BY ONLY <2>1, Zenon DEF GetDescriptor
    <3> QED
      BY <1>0, <3>1 DEF IsNext
  <2>2. CASE ConnectSucceeds \/ ListenSucceeds
    BY ONLY <1>0, <2>2 DEF ConnectSucceeds, ListenSucceeds
  <2>3. CASE DirectStageFails \/ NextAddress \/ CallFails
    BY ONLY <1>0, <2>3 DEF DirectStageFails, NextAddress, CallFails, GivesUp
  <2>4. CASE Proceed
    BY <2>4 DEF Proceed
  <2> QED
    BY <2>1, <2>2, <2>3, <2>4
<1>6. ASSUME NEW c \in Contexts, c # job.ctx PROVE c \notin Unfinished'
  <2>1. job'.ctx = job.ctx \/ job'.call \notin {"connect", "listen"}
    <3>1. \A outcome : AfterConnecting(outcome) => job'.ctx = job.ctx \/ job'.call = "none"
      BY DEF AfterConnecting, Idle, Job
    <3>2. job \in Jobs
      BY DEF JobInv
    <3>3. CASE GetDescriptor
      <4>1. \E d \in Descriptors : job' = [job EXCEPT !.s = d, !.stage = @ + 1]
        BY ONLY <3>3, Zenon DEF GetDescriptor
      <4> QED
        BY <3>2, <4>1 DEF Jobs
    <3>4. CASE Proceed \/ NextAddress
      <4>1. \/ job' = [job EXCEPT !.stage = @ + 1] \/ job' = Idle
            \/ job' = [job EXCEPT !.left = @ - 1, !.stage = 2, !.s = NoDescriptor]
            \/ \E outcome : AfterConnecting(outcome)
        BY ONLY <3>4 DEF Proceed, NextAddress
      <4>2. job' = [job EXCEPT !.stage = @ + 1] => job'.ctx = job.ctx
        BY <3>2 DEF Jobs
      <4>3. job' = [job EXCEPT !.left = @ - 1, !.stage = 2, !.s = NoDescriptor] => job'.ctx = job.ctx
        BY <3>2 DEF Jobs
      <4>4. job' = Idle => job'.call = "none"
        BY DEF Idle
      <4> QED
        BY <3>1, <4>1, <4>2, <4>3, <4>4
    <3>5. CASE ConnectSucceeds \/ ListenSucceeds \/ DirectStageFails \/ CallFails
      <4>1. job' = Idle \/ \E outcome : AfterConnecting(outcome)
        BY ONLY <3>5 DEF ConnectSucceeds, ListenSucceeds, DirectStageFails, CallFails
      <4> QED
        BY <3>1, <4>1 DEF Idle
    <3> QED
      BY <3>3, <3>4, <3>5
  <2> QED
    BY <1>6, <2>1 DEF Unfinished
<1>7. \A c \in Contexts : ctx'[c].kind = "rtu" =>
        /\ c # job.ctx /\ ctx'[c] = ctx[c]
        /\ ctx[c].s # NoDescriptor => open'[ctx[c].s] = open[ctx[c].s]
        /\ c \in Unfinished' <=> c \in Unfinished
  <2> SUFFICES ASSUME NEW c \in Contexts, ctx'[c].kind = "rtu"
               PROVE  /\ c # job.ctx /\ ctx'[c] = ctx[c]
                      /\ ctx[c].s # NoDescriptor => open'[ctx[c].s] = open[ctx[c].s]
                      /\ c \in Unfinished' <=> c \in Unfinished
    OBVIOUS
  <2>1. c # job.ctx /\ ctx'[c] = ctx[c] /\ ctx[c].kind = "rtu"
    BY <1>0, <1>2, <1>3
  <2>2. c \notin Unfinished /\ (ctx[c].s # NoDescriptor => ctx[c].s # job.s)
    BY <2>1, MadeElsewhere
  <2>3. ASSUME ctx[c].s # NoDescriptor PROVE ctx[c].s \in Descriptors /\ open[ctx[c].s] # "free"
    BY <1>0, <2>2, <2>3 DEF Owners, ContextRecords
  <2> QED
    BY <1>5, <1>6, <2>1, <2>2, <2>3
<1> QED
  BY <1>0, <1>1, <1>2, <1>4, <1>7, LineKept

(* A receive or a send, with the recovery of the link, keeps the agreement.                    *)
LEMMA LineTransfers ==
  ASSUME Typed, JobInv, Owners, LineInv,
         SendSucceeds \/ SendFails \/ ReceiveFails \/ BytesCome \/ Return
  PROVE  LineInv'
<1> USE DEF NoDescriptor
<1>0. /\ job \in Jobs /\ job.ctx \in Contexts /\ ctx[job.ctx].kind # "none"
      /\ ~Setting /\ job.s = NoDescriptor
  <2>1. job.call \in {"send", "confirmation", "indication"} \cup Outcomes
    BY DEF SendSucceeds, SendFails, ReceiveFails, BytesCome, Return, Receiving
  <2> QED
    BY <2>1 DEF JobInv, KindOf, Setting, Outcomes
<1>1. Unfinished = {}
  BY <1>0 DEF Unfinished, Setting
<1>2. Unfinished' = {}
  <2>1. \/ job' = Idle \/ job' = [job EXCEPT !.stage = 2] \/ job' = job
        \/ job' = Job("connect", job.ctx, job.call)
    BY DEF SendSucceeds, SendFails, ReceiveFails, BytesCome, Return, Reconnects
  <2>2. job'.s = NoDescriptor
    <3>1. job' = [job EXCEPT !.stage = 2] => job'.s = job.s
      BY <1>0 DEF Jobs
    <3> QED
      BY <1>0, <2>1, <3>1 DEF Idle, Job
  <2> QED
    BY <2>2 DEF Unfinished
<1>3. ASSUME UNCHANGED <<ctx, open, line, lost>> PROVE LineInv'
  <2>1. Sole'
    BY <1>3 DEF LineInv, Sole
  <2> QED
    BY <1>1, <1>2, <1>3, <2>1, LineKept
<1>4. CASE Closed(job.ctx) /\ UNCHANGED lost
  BY <1>0, <1>1, <1>2, <1>4, LineClosed
<1>5. CASE Signalled(job.ctx) /\ UNCHANGED <<ctx, open, lost>>
  BY <1>0, <1>1, <1>2, <1>5, LineSignalled
<1>6. \/ UNCHANGED <<ctx, open, line, lost>>
      \/ Closed(job.ctx) /\ UNCHANGED lost
      \/ Signalled(job.ctx) /\ UNCHANGED <<ctx, open, lost>>
  BY DEF SendSucceeds, SendFails, ReceiveFails, BytesCome, Return, Reconnects, environment
<1> QED
  BY <1>3, <1>4, <1>5, <1>6

(* Neither does the death of a peer, except that of the line itself, which breaks it, nor      *)
(* what happens to a listener or to the network.                                            *)
LEMMA LineOutside ==
  ASSUME Typed, JobInv, Owners, LineInv,
         \/ \E l \in listeners : CloseListener(l)
         \/ \E d \in Descriptors : PeerDies(d)
         \/ NetworkFails \/ NetworkReturns \/ UNCHANGED vars
  PROVE  LineInv'
<1> USE DEF NoDescriptor
<1>0. /\ line \in Lines /\ open \in [Descriptors -> States] /\ listeners \subseteq Descriptors
      /\ \A c \in Contexts : ctx[c].s \in Descriptors \cup {NoDescriptor}
  BY DEF Typed, ContextRecords
<1>1. UNCHANGED <<ctx, lost>> /\ job' = job
  BY DEF CloseListener, PeerDies, NetworkFails, NetworkReturns, environment, vars
<1>2. Sole' /\ Unfinished' = Unfinished
  BY <1>1 DEF LineInv, Sole, Unfinished, Direct, KindOf
<1>3. CASE NetworkFails \/ NetworkReturns \/ UNCHANGED vars
  <2>1. UNCHANGED <<line, open>>
    BY <1>3 DEF NetworkFails, NetworkReturns, vars
  <2> QED
    BY <1>1, <1>2, <2>1, LineKept
<1>4. ASSUME NEW l \in listeners, CloseListener(l) PROVE LineInv'
  <2>1. line' = line /\ open' = [open EXCEPT ![l] = "free"]
    BY <1>4 DEF CloseListener, environment
  <2>2. \A c \in Contexts : ctx[c].s # NoDescriptor => ctx[c].s # l
    BY DEF Owners
  <2>3. \A c \in Contexts : ctx[c].s # NoDescriptor => open'[ctx[c].s] = open[ctx[c].s]
    BY <1>0, <2>1, <2>2
  <2> QED
    BY <1>1, <1>2, <2>1, <2>3, LineKept
<1>5. ASSUME NEW d \in Descriptors, PeerDies(d) PROVE LineInv'
  <2> DEFINE breaks == \E c \in Contexts : ctx[c].kind = "rtu" /\ ctx[c].s = d
  <2>1. /\ open' = [open EXCEPT ![d] = "dead"]
        /\ line' = [line EXCEPT !.broken = line.broken \/ breaks]
    BY <1>5 DEF PeerDies
  <2> HIDE DEF breaks
  <2>2. line'.broken \/ ~breaks
    BY <1>0, <2>1 DEF Lines
  <2>3. CASE line'.broken
    BY <1>2, <2>3 DEF LineInv
  <2>4. CASE ~line'.broken
    <3>1. ~breaks
      BY <2>2, <2>4
    <3>2. line' = line
      <4>1. line.broken \in BOOLEAN /\ (line.broken \/ breaks) = line.broken
        BY <1>0, <3>1 DEF Lines
      <4>2. line' = [line EXCEPT !.broken = line.broken]
        BY <2>1, <4>1
      <4> QED
        BY <1>0, <4>2 DEF Lines
    <3>3. \A c \in Contexts : ctx[c].kind = "rtu" /\ ctx[c].s # NoDescriptor =>
                              open'[ctx[c].s] = open[ctx[c].s]
      BY <1>0, <2>1, <3>1 DEF breaks
    <3> QED
      BY <1>1, <1>2, <3>2, <3>3, LineKept
  <2> QED
    BY <2>3, <2>4
<1> QED
  BY <1>3, <1>4, <1>5

(* Every step keeps the agreement.                                                          *)
LEMMA LineStep == IInv /\ LineInv /\ [Next]_vars => LineInv'
<1> SUFFICES ASSUME IInv, LineInv, [Next]_vars PROVE LineInv'
  OBVIOUS
<1>1. Typed /\ JobInv /\ Owners
  BY DEF IInv
<1>2. CASE Setting /\ KindOf(job) = "rtu" /\ (GetDescriptor \/ ConnectSucceeds \/ DirectStageFails)
  BY <1>1, <1>2, LineConnecting
<1>3. CASE Setting /\ KindOf(job) = "rtu" /\ Proceed
  <2>1. UNCHANGED <<ctx, open, line, lost>> /\ Unfinished' = Unfinished
    <3>1. UNCHANGED <<ctx, open, line, lost>> /\ job' = [job EXCEPT !.stage = @ + 1]
      BY <1>3 DEF Proceed, environment
    <3>2. job'.call = job.call /\ job'.ctx = job.ctx /\ job'.s = job.s
      BY <1>1, <3>1 DEF JobInv, Jobs
    <3> QED
      BY <3>1, <3>2 DEF Unfinished, Direct, KindOf
  <2>2. Sole'
    BY <2>1 DEF LineInv, Sole
  <2> QED
    BY <2>1, <2>2, LineKept
<1>4. CASE Setting /\ KindOf(job) = "rtu" /\ (ListenSucceeds \/ NextAddress \/ CallFails)
  <2>1. job.call = "connect"
    BY <1>1, <1>4 DEF JobInv, Setting
  <2> QED
    BY <1>4, <2>1 DEF ListenSucceeds, NextAddress, CallFails
<1>5. CASE /\ Setting /\ KindOf(job) # "rtu"
           /\ \/ GetDescriptor \/ Proceed \/ ConnectSucceeds \/ ListenSucceeds
              \/ DirectStageFails \/ NextAddress \/ CallFails
  BY <1>1, <1>5, LineElsewhere
<1>6. CASE /\ ~Setting
           /\ \/ GetDescriptor \/ Proceed \/ ConnectSucceeds \/ ListenSucceeds
              \/ DirectStageFails \/ NextAddress \/ CallFails
  <2>1. GetDescriptor => Setting
    BY Zenon DEF GetDescriptor, Setting
  <2>2. Proceed => Setting
    BY DEF Proceed, Setting
  <2>3. ConnectSucceeds => Setting
    BY DEF ConnectSucceeds, Setting
  <2>4. ListenSucceeds \/ DirectStageFails => Setting
    BY DEF ListenSucceeds, DirectStageFails, Direct, Setting
  <2>5. NextAddress \/ CallFails => Setting
    BY DEF NextAddress, CallFails, Setting
  <2> QED
    BY <1>6, <2>1, <2>2, <2>3, <2>4, <2>5
<1>7. CASE SendSucceeds \/ SendFails \/ ReceiveFails \/ BytesCome \/ Return
  BY <1>1, <1>7, LineTransfers
<1>8. CASE \/ \E l \in listeners : CloseListener(l)
           \/ \E d \in Descriptors : PeerDies(d)
           \/ NetworkFails \/ NetworkReturns \/ UNCHANGED vars
  BY <1>1, <1>8, LineOutside
<1>9. CASE \E c \in Contexts : Program(c)
  BY <1>1, <1>9, LineProgram
<1> QED
  BY <1>2, <1>3, <1>4, <1>5, <1>6, <1>7, <1>8, <1>9 DEF Next, Library

(* As far as the library looks at what the driver answers, the serial line is what its context *)
(* takes it for, and it is left as it was found, for any programs, contexts and rates:          *)
(* whichever stage of _modbus_rtu_connect or checked call of the driver fails, and whether a      *)
(* call of the program, of link recovery or of another context comes in between.  Where a         *)
(* tcgetattr of _modbus_rtu_connect or a tcsetattr of _modbus_rtu_close has failed unnoticed,      *)
(* the line may stay changed; after an unnoticed failure of _modbus_rtu_ioctl_rts the signal      *)
(* may be wrong.  The speed and the mode of a connected line hold in spite of them.               *)
THEOREM LineStaysAsAgreed == Spec => []LineAsAgreed
<1>1. Init => LineInv
  BY DEF Init, LineInv, Sole, Agrees, Attached, NoContext
<1>2. IInv /\ LineInv => LineAsAgreed
  <2> SUFFICES ASSUME IInv, LineInv, ~line.broken PROVE LineAsAgreed
    BY DEF LineAsAgreed
  <2>1. \A c \in Contexts : ctx[c].kind = "rtu" => Agrees(c)
    BY DEF LineInv
  <2>2. job.call # "connect" => Unfinished = {}
    BY DEF Unfinished
  <2>3. ASSUME NEW c \in Contexts, job.call # "connect", Attached(c)
        PROVE  /\ line.speed = Speed(ctx[c].baud)
               /\ ctx[c].rts = "down" /\ "signal" \notin line.slips => line.rts = Resting("down")
    BY <2>1, <2>2, <2>3 DEF Agrees, Attached
  <2>4. ASSUME NEW c \in Contexts, ctx[c].kind = "rtu", ctx[c].mode = "RS485" PROVE line.rs485
    BY <2>1, <2>4 DEF Agrees
  <2>5. ASSUME Reliable, \A c \in Contexts : ~Attached(c) PROVE line.speed = AsFound
    <3>1. CASE \E c \in Contexts : ctx[c].kind = "rtu"
      BY <2>1, <2>5, <3>1 DEF Agrees
    <3>2. CASE \A c \in Contexts : ctx[c].kind # "rtu"
      BY <2>5, <3>2 DEF LineInv
    <3> QED
      BY <3>1, <3>2
  <2> QED
    BY <2>3, <2>4, <2>5 DEF LineAsAgreed, Attached, Reliable
<1> QED
  BY <1>1, <1>2, Always, LineStep, PTL DEF Spec
=============================================================================
