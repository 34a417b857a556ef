------------------------ MODULE ModbusClient_proofs ------------------------
(* Theorems about the modbus client: type correctness over both backends, and *)
(* over TCP that a successful call returns what it asked for.                 *)
EXTENDS ModbusClient, TLAPS

USE SettingsAssumption, BoundAssumption, RequestsAssumption

(* The queue operators keep the types of their elements.                      *)
LEMMA OlderTyped ==
  /\ \A queue \in Seq(Frames) : /\ Older(queue) \in Seq(Frames)
                                /\ Len(Older(queue)) = Len(queue)
  /\ \A queue \in Seq(Answers) : /\ Older(queue) \in Seq(Answers)
                                 /\ Len(Older(queue)) = Len(queue)
<1>1. ASSUME NEW queue \in Seq(Frames)
      PROVE  Older(queue) \in Seq(Frames) /\ Len(Older(queue)) = Len(queue)
  <2>1. ASSUME NEW i \in 1 .. Len(queue)
        PROVE  [queue[i] EXCEPT !.age = @ + 1] \in Frames
    <3>1. queue[i] \in Frames
      OBVIOUS
    <3>2. queue[i].age + 1 \in Nat
      BY <3>1 DEF Frames
    <3> QED
      BY <3>1, <3>2, Zenon DEF Frames
  <2>2. DOMAIN queue = 1 .. Len(queue)
    OBVIOUS
  <2>3. Older(queue) \in [1 .. Len(queue) -> Frames]
    BY <2>1, <2>2 DEF Older
  <2> QED
    BY <2>3
<1>2. ASSUME NEW queue \in Seq(Answers)
      PROVE  Older(queue) \in Seq(Answers) /\ Len(Older(queue)) = Len(queue)
  <2>1. ASSUME NEW i \in 1 .. Len(queue)
        PROVE  [queue[i] EXCEPT !.age = @ + 1] \in Answers
    <3>1. queue[i] \in Answers
      OBVIOUS
    <3>2. queue[i].age + 1 \in Nat
      BY <3>1 DEF Answers
    <3> QED
      BY <3>1, <3>2, Zenon DEF Answers
  <2>2. DOMAIN queue = 1 .. Len(queue)
    OBVIOUS
  <2>3. Older(queue) \in [1 .. Len(queue) -> Answers]
    BY <2>1, <2>2 DEF Older
  <2> QED
    BY <2>3
<1> QED
  BY <1>1, <1>2

\* The next identifier is one.
LEMMA NextTidTyped == ASSUME TypeOK PROVE NextTid \in 0 .. TidMod - 1
  BY DEF TypeOK, NextTid

(* The context and the DTU stay what they are.                                *)
LEMMA SettingIsFixed ==
  ASSUME [Next]_vars
  PROVE  UNCHANGED <<setting, Backend, ProtocolRecovery, Lossy>>
BY DEF Next, Calls, Returns, DtuWorks, DtuFails, vars, Backend, ProtocolRecovery, Lossy

(* An answer is the head of dtuIn with its kind.                              *)
LEMMA AnswerTyped ==
  ASSUME NEW queue \in Seq(Frames), queue # <<>>, NEW kind \in Kinds
  PROVE  [tid |-> Head(queue).tid, req |-> Head(queue).req,
          age |-> Head(queue).age, kind |-> kind] \in Answers
<1>1. Head(queue) \in Frames
  OBVIOUS
<1> QED
  BY <1>1 DEF Frames, Answers

(* Type correctness, over TCP and over RTU.                                   *)
THEOREM TypeCorrect == Spec => []TypeOK
<1>1. Init => TypeOK
  BY DEF Init, TypeOK
<1>2. TypeOK /\ [Next]_vars => TypeOK'
  <2> SUFFICES ASSUME TypeOK, [Next]_vars
               PROVE  TypeOK'
    OBVIOUS
  <2>0. setting' \in Settings
    BY SettingIsFixed DEF TypeOK
  <2> USE <2>0
  <2>1. ASSUME NEW req \in Requests, RefuseOversized(req)
        PROVE  TypeOK'
    BY <2>1 DEF RefuseOversized, Ended, TypeOK
  <2>2. ASSUME NEW req \in Requests, SendRequest(req)
        PROVE  TypeOK'
    <3>1. stream' \in Seq(Answers)
      BY <2>2, OlderTyped DEF SendRequest, TypeOK
    <3>2. dtuIn' \in Seq(Frames)
      <4>1. [tid |-> NextTid, req |-> req, age |-> 0] \in Frames
        BY NextTidTyped DEF Frames
      <4>2. Older(dtuIn) \in Seq(Frames)
        BY OlderTyped DEF TypeOK
      <4> QED
        BY <2>2, <4>1, <4>2 DEF SendRequest, TypeOK
    <3>3. tid' \in 0 .. TidMod - 1
      BY <2>2, NextTidTyped DEF SendRequest
    <3> QED
      BY <2>2, <3>1, <3>2, <3>3 DEF SendRequest, TypeOK
  <2>3. ASSUME NEW req \in Requests, SendFails(req)
        PROVE  TypeOK'
    <3>1. tid' \in 0 .. TidMod - 1
      BY <2>3, NextTidTyped DEF SendFails
    <3> QED
      BY <2>3, <3>1 DEF SendFails, Ended, TypeOK
  <2>4. CASE AcceptAnswer
    <3>1. Head(stream) \in Answers /\ Tail(stream) \in Seq(Answers)
      BY <2>4 DEF AcceptAnswer, TakesAnswer, TypeOK
    <3>2. result' \in [outcome : {"ok"}, asked : Requests, answer : Requests, age : Nat]
      BY <2>4, <3>1 DEF AcceptAnswer, TypeOK, Answers
    <3> QED
      BY <2>4, <3>1, <3>2 DEF AcceptAnswer, TakesAnswer, TypeOK
  <2>5. CASE RejectAnswer
    <3>1. Tail(stream) \in Seq(Answers)
      BY <2>5 DEF RejectAnswer, TakesAnswer, TypeOK
    <3>2. pc' \in {"idle", "flushing"} /\ result' = [outcome |-> "error"]
      BY <2>5 DEF RejectAnswer, Reject, Ended
    <3> QED
      BY <2>5, <3>1, <3>2 DEF RejectAnswer, TakesAnswer, TypeOK
  <2>6. CASE ReceiveException
    <3>1. Tail(stream) \in Seq(Answers)
      BY <2>6 DEF ReceiveException, TakesAnswer, TypeOK
    <3> QED
      BY <2>6, <3>1 DEF ReceiveException, Ended, TakesAnswer, TypeOK
  <2>7. CASE ReceiveCorrupt
    <3>1. Tail(stream) \in Seq(Answers) /\ <<>> \in Seq(Answers)
      BY <2>7 DEF ReceiveCorrupt, TypeOK
    <3> QED
      BY <2>7, <3>1 DEF ReceiveCorrupt, Ended, TypeOK
  <2>8. CASE Flush
    BY <2>8 DEF Flush, TypeOK
  <2>9. CASE ReceiveEnd
    BY <2>9 DEF ReceiveEnd, Ended, TypeOK
  <2>10. CASE Timeout
    BY <2>10 DEF Timeout, Ended, TypeOK
  <2>11. CASE DtuAnswers
    <3>1. Head(dtuIn) \in Frames /\ Tail(dtuIn) \in Seq(Frames)
      BY <2>11 DEF DtuAnswers, TypeOK
    <3>2. stream' \in Seq(Answers)
      BY <2>11, AnswerTyped DEF DtuAnswers, TypeOK
    <3>3. executed' \subseteq Requests
      BY <2>11, <3>1 DEF DtuAnswers, TypeOK, Frames
    <3> QED
      BY <2>11, <3>1, <3>2, <3>3 DEF DtuAnswers, TypeOK
  <2>12. CASE DtuIsSilent
    <3>1. Head(dtuIn) \in Frames /\ Tail(dtuIn) \in Seq(Frames)
      BY <2>12 DEF DtuIsSilent, TypeOK
    <3>2. executed' \subseteq Requests
      BY <2>12, <3>1 DEF DtuIsSilent, TypeOK, Frames
    <3> QED
      BY <2>12, <3>1, <3>2 DEF DtuIsSilent, TypeOK
  <2>13. CASE DtuCloses
    BY <2>13 DEF DtuCloses, TypeOK
  <2>14. CASE DtuResets
    BY <2>14 DEF DtuResets, TypeOK
  <2>15. CASE UNCHANGED vars
    BY <2>15 DEF TypeOK, vars
  <2> QED
    BY <2>1, <2>2, <2>3, <2>4, <2>5, <2>6, <2>7, <2>8, <2>9, <2>10, <2>11, <2>12,
       <2>13, <2>14, <2>15
       DEF Next, Calls, Returns, DtuWorks, DtuFails
<1> QED
  BY <1>1, <1>2, PTL DEF Spec

-----------------------------------------------------------------------------
(***************************************************************************)
(* Why a late answer is never taken for the answer of a later call.  The    *)
(* identifier of an outstanding message is its age away from the current    *)
(* one, counted round the identifiers; ages fall along the queues, so the   *)
(* bound MaxLate on the oldest holds again after each answer is read, and   *)
(* as MaxLate < TidMod only the message of age 0 bears the current          *)
(* identifier: the one of the call in progress.                            *)
(***************************************************************************)
Distance(t) == IF t <= tid THEN tid - t ELSE tid - t + TidMod

Placed(x) == /\ x.age = Distance(x.tid)
             /\ x.age <= MaxLate
             /\ pc # "waiting" => x.age < MaxLate
             /\ x.age = 0 => x.req = pending

Falling(queue) == \A i, j \in DOMAIN queue : i < j => queue[j].age < queue[i].age

InStep ==
  /\ \A i \in DOMAIN stream : Placed(stream[i])
  /\ \A i \in DOMAIN dtuIn : Placed(dtuIn[i])
  /\ Falling(stream)
  /\ Falling(dtuIn)
  /\ \A i \in DOMAIN stream, j \in DOMAIN dtuIn : dtuIn[j].age < stream[i].age
  /\ peer # "up" => dtuIn = <<>>
  /\ peer = "reset" => stream = <<>>

(* Over TCP a message one call older is one identifier further away.          *)
LEMMA OlderIsFurther ==
  ASSUME TypeOK, Backend = "tcp", NEW t \in 0 .. TidMod - 1, Distance(t) < MaxLate
  PROVE  (IF t <= NextTid THEN NextTid - t ELSE NextTid - t + TidMod) = Distance(t) + 1
  BY DEF TypeOK, NextTid, Distance

(* Only the current identifier is at distance 0.                              *)
LEMMA CurrentIsNear ==
  ASSUME TypeOK PROVE Distance(tid) = 0
  BY DEF TypeOK, Distance

\* Client and server start in step.
LEMMA InStepInit == Init => InStep
  BY DEF Init, InStep, Falling

\* A request leaves them in step.
LEMMA InStepSend ==
  ASSUME TypeOK, InStep, Backend = "tcp", NEW req \in Requests, SendRequest(req)
  PROVE  InStep'
<1>1. pc = "idle" /\ pc' = "waiting" /\ tid' = NextTid /\ pending' = req
  BY DEF SendRequest
<1>2. /\ DOMAIN stream' = DOMAIN stream
      /\ \A i \in DOMAIN stream : stream'[i] = [stream[i] EXCEPT !.age = @ + 1]
  BY DEF SendRequest, Older
<1>3. \A i \in DOMAIN stream : stream[i] \in Answers
  BY DEF TypeOK
<1>4. \A i \in DOMAIN dtuIn : dtuIn[i] \in Frames
  BY DEF TypeOK
<1>5. ASSUME NEW i \in DOMAIN stream
      PROVE  /\ Placed(stream[i])'
             /\ stream'[i].age = stream[i].age + 1
  <2>1. stream[i].tid \in 0 .. TidMod - 1 /\ stream[i].age \in Nat
    BY <1>3 DEF Answers
  <2>2. Placed(stream[i])
    BY DEF InStep
  <2>3. stream'[i].tid = stream[i].tid /\ stream'[i].age = stream[i].age + 1
    BY <1>2, <1>3 DEF Answers
  <2>4. Distance(stream[i].tid) < MaxLate
    BY <1>1, <2>2 DEF Placed
  <2>5. stream'[i].age = Distance(stream[i].tid)'
    BY <1>1, <2>1, <2>2, <2>3, <2>4, OlderIsFurther DEF Placed, Distance
  <2> QED
    BY <1>1, <2>1, <2>2, <2>3, <2>5 DEF Placed
<1>6. CASE peer = "up"
  <2>1. dtuIn' = Append(Older(dtuIn), [tid |-> NextTid, req |-> req, age |-> 0])
    BY <1>6 DEF SendRequest
  <2>2. Older(dtuIn) \in Seq(Frames) /\ Len(Older(dtuIn)) = Len(dtuIn)
    BY OlderTyped DEF TypeOK
  <2>3. /\ DOMAIN dtuIn = 1 .. Len(dtuIn) /\ Len(dtuIn) \in Nat
        /\ DOMAIN dtuIn' = 1 .. Len(dtuIn) + 1
    <3>1. dtuIn \in Seq(Frames)
      BY DEF TypeOK
    <3>2. Len(dtuIn') = Len(dtuIn) + 1 /\ DOMAIN dtuIn' = 1 .. Len(dtuIn')
      BY <2>1, <2>2, <3>1
    <3> QED
      BY <3>1, <3>2
  <2>4. \A i \in DOMAIN dtuIn : dtuIn'[i] = [dtuIn[i] EXCEPT !.age = @ + 1]
    BY <2>1, <2>2, <2>3 DEF Older
  <2>5. dtuIn'[Len(dtuIn) + 1] = [tid |-> NextTid, req |-> req, age |-> 0]
    BY <2>1, <2>2
  <2>6. ASSUME NEW i \in DOMAIN dtuIn
        PROVE  /\ Placed(dtuIn[i])'
               /\ dtuIn'[i].age = dtuIn[i].age + 1
               /\ dtuIn[i].age \in Nat
    <3>1. dtuIn[i].tid \in 0 .. TidMod - 1 /\ dtuIn[i].age \in Nat
      BY <1>4 DEF Frames
    <3>2. Placed(dtuIn[i])
      BY DEF InStep
    <3>3. dtuIn'[i].tid = dtuIn[i].tid /\ dtuIn'[i].age = dtuIn[i].age + 1
      BY <1>4, <2>4 DEF Frames
    <3>4. Distance(dtuIn[i].tid) < MaxLate
      BY <1>1, <3>2 DEF Placed
    <3>5. dtuIn'[i].age = Distance(dtuIn[i].tid)'
      BY <1>1, <3>1, <3>2, <3>3, <3>4, OlderIsFurther DEF Placed, Distance
    <3> QED
      BY <1>1, <3>1, <3>2, <3>3, <3>5 DEF Placed
  <2>7. ASSUME NEW i \in DOMAIN dtuIn', i = Len(dtuIn) + 1
        PROVE  Placed(dtuIn[i])'
    BY <1>1, <2>5, <2>7, NextTidTyped DEF Placed, Distance
  <2>8. dtuIn'[Len(dtuIn) + 1].age = 0
    BY <2>5
  <2>9. Falling(dtuIn)'
    <3> SUFFICES ASSUME NEW i \in DOMAIN dtuIn', NEW j \in DOMAIN dtuIn', i < j
                 PROVE  dtuIn'[j].age < dtuIn'[i].age
      BY DEF Falling
    <3>1. i \in DOMAIN dtuIn
      BY <2>3
    <3>2. CASE j \in DOMAIN dtuIn
      BY <2>6, <3>1, <3>2 DEF InStep, Falling
    <3>3. CASE j = Len(dtuIn) + 1
      BY <2>6, <2>8, <3>1, <3>3
    <3> QED
      BY <2>3, <3>2, <3>3
  <2>10. Falling(stream)'
    BY <1>2, <1>3, <1>5 DEF InStep, Falling, Answers
  <2>11. ASSUME NEW i \in DOMAIN stream, NEW j \in DOMAIN dtuIn'
         PROVE  dtuIn'[j].age < stream'[i].age
    <3>1. stream[i].age \in Nat
      BY <1>3 DEF Answers
    <3>2. CASE j \in DOMAIN dtuIn
      BY <1>5, <2>6, <3>1, <3>2 DEF InStep
    <3>3. CASE j = Len(dtuIn) + 1
      BY <1>5, <2>8, <3>1, <3>3
    <3> QED
      BY <2>3, <3>2, <3>3
  <2> QED
    BY <1>2, <1>5, <1>6, <2>3, <2>6, <2>7, <2>9, <2>10, <2>11 DEF InStep, SendRequest
<1>7. CASE peer # "up"
  <2>1. dtuIn = <<>> /\ dtuIn' = <<>>
    BY <1>7 DEF SendRequest, InStep
  <2>2. Falling(stream)'
    BY <1>2, <1>3, <1>5 DEF InStep, Falling, Answers
  <2> QED
    BY <1>2, <1>5, <2>1, <2>2 DEF InStep, SendRequest, Falling
<1> QED
  BY <1>6, <1>7

(* Reading the first answer leaves only messages that are younger than it.     *)
LEMMA InStepRead ==
  ASSUME TypeOK, InStep, stream # <<>>, stream' = Tail(stream),
         UNCHANGED <<tid, pending, dtuIn, peer>>
  PROVE  InStep'
<1>1. /\ Len(stream) \in Nat \ {0}
      /\ DOMAIN stream = 1 .. Len(stream)
      /\ DOMAIN stream' = 1 .. Len(stream) - 1
      /\ \A i \in DOMAIN stream' : stream'[i] = stream[i + 1]
      /\ \A i \in DOMAIN stream' : i + 1 \in DOMAIN stream
  BY DEF TypeOK
<1>2. /\ \A i \in DOMAIN stream : stream[i] \in Answers
      /\ \A i \in DOMAIN dtuIn : dtuIn[i] \in Frames
  BY DEF TypeOK
<1>3. stream[1].age \in Nat /\ stream[1].age <= MaxLate
  BY <1>1, <1>2 DEF InStep, Placed, Answers
<1>4. ASSUME NEW i \in DOMAIN stream'
      PROVE  Placed(stream[i])'
  <2>1. Placed(stream[i + 1]) /\ stream[i + 1].age \in Nat
    BY <1>1, <1>2 DEF InStep, Answers
  <2>2. stream[i + 1].age < stream[1].age
    BY <1>1 DEF InStep, Falling
  <2> QED
    BY <1>1, <1>3, <2>1, <2>2 DEF Placed, Distance
<1>5. ASSUME NEW i \in DOMAIN dtuIn
      PROVE  Placed(dtuIn[i])'
  <2>1. Placed(dtuIn[i]) /\ dtuIn[i].age \in Nat
    BY <1>2 DEF InStep, Frames
  <2>2. dtuIn[i].age < stream[1].age
    BY <1>1 DEF InStep
  <2> QED
    BY <1>3, <2>1, <2>2 DEF Placed, Distance
<1>6. Falling(stream)'
  BY <1>1 DEF InStep, Falling
<1>7. \A i \in DOMAIN stream', j \in DOMAIN dtuIn : dtuIn[j].age < stream'[i].age
  BY <1>1 DEF InStep
<1>8. stream' = <<>> \/ peer # "reset"
  BY DEF InStep
<1> QED
  BY <1>4, <1>5, <1>6, <1>7, <1>8 DEF InStep, Falling

(* Emptying the receive buffer after a mismatch, or on a reset.               *)
LEMMA InStepEmptied ==
  ASSUME TypeOK, InStep, stream' = <<>>, UNCHANGED <<tid, pending, dtuIn>>,
         peer' = peer \/ (peer' = "reset" /\ peer = "closed"),
         pc' = "waiting" => pc = "waiting",
         pc' # "waiting" => \A i \in DOMAIN dtuIn : dtuIn[i].age < MaxLate
  PROVE  InStep'
<1>1. ASSUME NEW i \in DOMAIN dtuIn
      PROVE  Placed(dtuIn[i])'
  BY DEF InStep, Placed, Distance
<1> QED
  BY <1>1 DEF InStep, Falling

(* The DTU takes up its oldest request: it answers it, or does not.            *)
LEMMA InStepDtu ==
  ASSUME TypeOK, InStep, dtuIn # <<>>, dtuIn' = Tail(dtuIn),
         UNCHANGED <<pc, tid, pending, peer>>,
         \/ UNCHANGED stream
         \/ \E kind \in Kinds :
              stream' = Append(stream, [tid |-> Head(dtuIn).tid, req |-> Head(dtuIn).req,
                                        age |-> Head(dtuIn).age, kind |-> kind])
  PROVE  InStep'
<1>1. /\ Len(dtuIn) \in Nat \ {0}
      /\ DOMAIN dtuIn = 1 .. Len(dtuIn)
      /\ Head(dtuIn) = dtuIn[1]
      /\ DOMAIN dtuIn' = 1 .. Len(dtuIn) - 1
      /\ \A i \in DOMAIN dtuIn' : dtuIn'[i] = dtuIn[i + 1]
      /\ \A i \in DOMAIN dtuIn' : i + 1 \in DOMAIN dtuIn
  BY DEF TypeOK
<1>2. /\ \A i \in DOMAIN stream : stream[i] \in Answers
      /\ \A i \in DOMAIN dtuIn : dtuIn[i] \in Frames
  BY DEF TypeOK
<1>3. peer = "up"
  BY DEF InStep, TypeOK
<1>4. ASSUME NEW i \in DOMAIN dtuIn'
      PROVE  Placed(dtuIn[i])'
  BY <1>1 DEF InStep, Placed, Distance
<1>5. Falling(dtuIn)'
  BY <1>1 DEF InStep, Falling
<1>6. CASE UNCHANGED stream
  <2>1. ASSUME NEW i \in DOMAIN stream
        PROVE  Placed(stream[i])'
    BY <1>6 DEF InStep, Placed, Distance
  <2> QED
    BY <1>1, <1>3, <1>4, <1>5, <1>6, <2>1 DEF InStep, Falling
<1>7. CASE ~UNCHANGED stream
  <2>1. PICK kind \in Kinds :
          stream' = Append(stream, [tid |-> Head(dtuIn).tid, req |-> Head(dtuIn).req,
                                    age |-> Head(dtuIn).age, kind |-> kind])
    BY <1>7
  <2>2. /\ Len(stream) \in Nat
        /\ DOMAIN stream = 1 .. Len(stream)
        /\ DOMAIN stream' = 1 .. Len(stream) + 1
        /\ \A i \in DOMAIN stream : stream'[i] = stream[i]
        /\ stream'[Len(stream) + 1] = [tid |-> dtuIn[1].tid, req |-> dtuIn[1].req,
                                       age |-> dtuIn[1].age, kind |-> kind]
    BY <1>1, <2>1 DEF TypeOK
  <2>3. ASSUME NEW i \in DOMAIN stream'
        PROVE  Placed(stream[i])'
    <3>1. CASE i \in DOMAIN stream
      BY <2>2, <3>1 DEF InStep, Placed, Distance
    <3>2. CASE i = Len(stream) + 1
      <4>1. Placed(dtuIn[1])
        BY <1>1 DEF InStep
      <4>2. /\ stream'[i].tid = dtuIn[1].tid
            /\ stream'[i].req = dtuIn[1].req
            /\ stream'[i].age = dtuIn[1].age
        BY <2>2, <3>2
      <4> QED
        BY <4>1, <4>2 DEF Placed, Distance
    <3> QED
      BY <2>2, <3>1, <3>2
  <2>4. \A j \in DOMAIN dtuIn' : dtuIn'[j].age < dtuIn[1].age
    BY <1>1 DEF InStep, Falling
  <2>5. \A i \in DOMAIN stream', j \in DOMAIN dtuIn' : dtuIn'[j].age < stream'[i].age
    BY <1>1, <2>2, <2>4 DEF InStep
  <2>6. Falling(stream)'
    <3> SUFFICES ASSUME NEW i \in DOMAIN stream', NEW j \in DOMAIN stream', i < j
                 PROVE  stream'[j].age < stream'[i].age
      BY DEF Falling
    <3>1. i \in DOMAIN stream
      BY <2>2
    <3>2. CASE j \in DOMAIN stream
      BY <2>2, <3>1, <3>2 DEF InStep, Falling
    <3>3. CASE j = Len(stream) + 1
      BY <1>1, <2>2, <3>1, <3>3 DEF InStep
    <3> QED
      BY <2>2, <3>2, <3>3
  <2> QED
    BY <1>3, <1>4, <1>5, <2>3, <2>5, <2>6 DEF InStep
<1> QED
  BY <1>6, <1>7

\* Every step leaves them in step.
LEMMA InStepNext ==
  ASSUME TypeOK, InStep, Backend = "tcp", [Next]_vars
  PROVE  InStep'
<1>1. ASSUME NEW req \in Requests, RefuseOversized(req)
      PROVE  InStep'
  BY <1>1 DEF RefuseOversized, InStep, Placed, Distance, Falling
<1>2. ASSUME NEW req \in Requests, SendRequest(req)
      PROVE  InStep'
  BY <1>2, InStepSend
<1>3. ASSUME NEW req \in Requests, SendFails(req)
      PROVE  InStep'
  <2>1. stream' = <<>> /\ dtuIn' = <<>>
    BY <1>3 DEF SendFails, InStep
  <2> QED
    BY <1>3, <2>1 DEF SendFails, InStep, Falling
<1>4. CASE AcceptAnswer \/ RejectAnswer \/ ReceiveException
  BY <1>4, InStepRead DEF AcceptAnswer, RejectAnswer, ReceiveException, TakesAnswer
<1>5. CASE ReceiveCorrupt
  <2>1. CASE stream' = Tail(stream)
    BY <1>5, <2>1, InStepRead DEF ReceiveCorrupt
  <2>2. CASE stream' # Tail(stream)
    <3>1. stream' = <<>> /\ pc' = "idle" /\ UNCHANGED <<tid, pending, dtuIn, peer>>
      BY <1>5, <2>2 DEF ReceiveCorrupt
    <3>2. 1 \in DOMAIN stream /\ stream[1] \in Answers
      BY <1>5 DEF ReceiveCorrupt, TypeOK
    <3>3. ASSUME NEW i \in DOMAIN dtuIn
          PROVE  dtuIn[i].age < MaxLate
      <4>1. dtuIn[i] \in Frames
        BY DEF TypeOK
      <4>2. dtuIn[i].age < stream[1].age /\ stream[1].age <= MaxLate
        BY <3>2 DEF InStep, Placed
      <4> QED
        BY <3>2, <4>1, <4>2 DEF Frames, Answers
    <3> QED
      BY <3>1, <3>3, InStepEmptied
  <2> QED
    BY <2>1, <2>2
<1>6. CASE Flush
  <2>1. \A i \in DOMAIN dtuIn : dtuIn[i].age < MaxLate
    BY <1>6 DEF Flush, InStep, Placed
  <2> QED
    BY <1>6, <2>1, InStepEmptied DEF Flush
<1>7. CASE ReceiveEnd
  <2>1. \A i \in DOMAIN dtuIn : dtuIn[i].age < MaxLate
    BY <1>7 DEF ReceiveEnd, InStep
  <2> QED
    BY <1>7, <2>1, InStepEmptied DEF ReceiveEnd
<1>8. CASE Timeout
  BY <1>8, InStepEmptied DEF Timeout
<1>9. CASE DtuAnswers
  BY <1>9, InStepDtu DEF DtuAnswers
<1>10. CASE DtuIsSilent
  BY <1>10, InStepDtu DEF DtuIsSilent
<1>11. CASE DtuCloses
  <2>1. dtuIn' = <<>> /\ UNCHANGED <<stream, pc, tid, pending>> /\ peer' = "closed"
    BY <1>11 DEF DtuCloses
  <2> QED
    BY <2>1 DEF InStep, Placed, Distance, Falling
<1>12. CASE DtuResets
  BY <1>12, InStepEmptied DEF DtuResets, InStep
<1>13. CASE UNCHANGED vars
  BY <1>13 DEF vars, InStep, Placed, Distance, Falling
<1> QED
  BY <1>1, <1>2, <1>3, <1>4, <1>5, <1>6, <1>7, <1>8, <1>9, <1>10, <1>11, <1>12, <1>13
     DEF Next, Calls, Returns, DtuWorks, DtuFails

\* A queue of no length is empty.
LEMMA EmptyQueue ==
  ASSUME NEW S, NEW queue \in Seq(S), Len(queue) = 0
  PROVE  queue = <<>>
OBVIOUS

(* An accepted answer is the youngest message there is.                        *)
LEMMA AcceptedIsCurrent ==
  ASSUME TypeOK, InStep, Backend = "tcp", AcceptAnswer
  PROVE  /\ Head(stream).age = 0
         /\ Head(stream).req = pending
         /\ Tail(stream) = <<>>
         /\ dtuIn = <<>>
<1>1. /\ Len(stream) \in Nat \ {0}
      /\ DOMAIN stream = 1 .. Len(stream)
      /\ Head(stream) = stream[1]
      /\ stream[1].tid = tid
  BY DEF AcceptAnswer, TakesAnswer, PreCheck, TypeOK
<1>2. stream[1].age = 0 /\ stream[1].req = pending
  BY <1>1, CurrentIsNear DEF InStep, Placed
<1>3. Len(stream) = 1 /\ Tail(stream) = <<>>
  <2>1. ASSUME Len(stream) > 1 PROVE FALSE
    <3>1. 2 \in DOMAIN stream /\ stream[2] \in Answers
      BY <1>1, <2>1 DEF TypeOK
    <3>2. stream[2].age < 0
      BY <1>1, <1>2, <3>1 DEF InStep, Falling
    <3> QED
      BY <3>1, <3>2 DEF Answers
  <2>2. Len(stream) = 1
    BY <1>1, <2>1
  <2>3. stream \in Seq(Answers) /\ stream # <<>>
    BY DEF TypeOK, AcceptAnswer, TakesAnswer
  <2>4. Tail(stream) \in Seq(Answers) /\ Len(Tail(stream)) = 0
    BY <2>2, <2>3
  <2> QED
    BY <2>2, <2>4, EmptyQueue
<1>4. dtuIn = <<>>
  <2>1. ASSUME Len(dtuIn) # 0 PROVE FALSE
    <3>1. 1 \in DOMAIN dtuIn /\ dtuIn[1] \in Frames
      BY <2>1 DEF TypeOK
    <3>2. dtuIn[1].age < 0
      BY <1>1, <1>2, <3>1 DEF InStep
    <3> QED
      BY <3>1, <3>2 DEF Frames
  <2> QED
    BY <2>1 DEF TypeOK
<1> QED
  BY <1>1, <1>2, <1>3, <1>4

TcpInStep == Backend = "tcp" => InStep

(* Over TCP a successful call returns the answer to its own request, for every *)
(* set of requests, number of identifiers and lateness below that number.      *)
THEOREM TcpAnswersItsRequest == Spec => []AnswersItsRequest
<1>1. Init => TcpInStep /\ AnswersItsRequest
  BY InStepInit DEF Init, AnswersItsRequest, TcpInStep
<1>2. TypeOK /\ TcpInStep /\ AnswersItsRequest /\ [Next]_vars
        => TcpInStep' /\ AnswersItsRequest'
  <2> SUFFICES ASSUME TypeOK, InStep, Backend = "tcp", AnswersItsRequest, [Next]_vars
               PROVE  AnswersItsRequest'
    BY InStepNext, SettingIsFixed DEF TcpInStep, AnswersItsRequest
  <2>1. CASE AcceptAnswer
    <3>1. result'.asked = pending /\ result'.answer = Head(stream).req
      BY <2>1 DEF AcceptAnswer
    <3> QED
      BY <2>1, <3>1, AcceptedIsCurrent DEF AnswersItsRequest
  <2>2. CASE ~AcceptAnswer
    <3>1. result' = result \/ result' = [outcome |-> "error"]
      BY <2>2 DEF Next, Calls, Returns, DtuWorks, DtuFails, RefuseOversized, SendRequest, SendFails,
                  RejectAnswer, Reject, ReceiveException, ReceiveCorrupt, Flush,
                  ReceiveEnd, Timeout, DtuAnswers, DtuIsSilent, DtuCloses, DtuResets,
                  Ended, vars
    <3> QED
      BY <3>1 DEF AnswersItsRequest
  <2> QED
    BY <2>1, <2>2
<1> QED
  BY <1>1, <1>2, TypeCorrect, PTL DEF Spec

(* A flush only follows a failed call.                                         *)
FlushFollowsFailure == pc = "flushing" => result.outcome # "ok"
TcpFlushFollows == Backend = "tcp" => FlushFollowsFailure

(* Over TCP a call succeeds only with nothing left to read: the client that is *)
(* behind by one answer has no successful call until an answer is lost.        *)
THEOREM TcpSuccessInStep == Spec => []InStepSuccess
<1>1. Init => TcpInStep /\ InStepSuccess /\ TcpFlushFollows
  BY InStepInit DEF Init, InStepSuccess, TcpFlushFollows, FlushFollowsFailure, TcpInStep
<1>2. TypeOK /\ TcpInStep /\ InStepSuccess /\ TcpFlushFollows /\ [Next]_vars
        => TcpInStep' /\ InStepSuccess' /\ TcpFlushFollows'
  <2> SUFFICES ASSUME TypeOK, InStep, Backend = "tcp", InStepSuccess, FlushFollowsFailure,
                      [Next]_vars
               PROVE  InStepSuccess' /\ FlushFollowsFailure'
    BY InStepNext, SettingIsFixed DEF TcpInStep, TcpFlushFollows, InStepSuccess
  <2>1. CASE AcceptAnswer
    BY <2>1, AcceptedIsCurrent
       DEF InStepSuccess, FlushFollowsFailure, AcceptAnswer, TakesAnswer
  <2>2. CASE result' = [outcome |-> "error"] \/ pc' = "waiting"
    BY <2>2 DEF InStepSuccess, FlushFollowsFailure
  <2>3. CASE ~AcceptAnswer /\ result' # [outcome |-> "error"] /\ pc' # "waiting"
    <3>1. CASE Flush
      BY <3>1 DEF Flush, InStepSuccess, FlushFollowsFailure
    <3>2. CASE DtuAnswers \/ DtuIsSilent
      BY <2>3, <3>2 DEF DtuAnswers, DtuIsSilent, InStepSuccess, FlushFollowsFailure
    <3>3. CASE DtuCloses \/ DtuResets \/ UNCHANGED vars
      BY <2>3, <3>3 DEF DtuCloses, DtuResets, vars, InStepSuccess, FlushFollowsFailure
    <3> QED
      BY <2>3, <3>1, <3>2, <3>3
         DEF Next, Calls, Returns, DtuWorks, DtuFails, RefuseOversized, SendRequest, SendFails,
             RejectAnswer, Reject, ReceiveException, ReceiveCorrupt, ReceiveEnd,
             Timeout, Ended
  <2> QED
    BY <2>1, <2>2, <2>3
<1> QED
  BY <1>1, <1>2, TypeCorrect, PTL DEF Spec

-----------------------------------------------------------------------------
(* Without recovery nothing is ever flushed.                                   *)
NeverFlushing == ~ProtocolRecovery => pc # "flushing"

(* With the error recovery this program uses (none), the number of answers the  *)
(* client is behind never falls, on a connection that stays up, but by a loss.  *)
THEOREM LagIsForever == Spec => LagNeverShrinks
<1> DEFINE NoLoss == peer = "up" /\ peer' = "up" /\ ~DtuIsSilent
<1>1. Init => NeverFlushing
  BY DEF Init, NeverFlushing
<1>2. NeverFlushing /\ [Next]_vars => NeverFlushing'
  <2> SUFFICES ASSUME pc # "flushing", ~ProtocolRecovery, [Next]_vars
               PROVE  pc' # "flushing"
    BY SettingIsFixed DEF NeverFlushing
  <2> QED
    BY DEF Next, Calls, Returns, DtuWorks, DtuFails, RefuseOversized, SendRequest, SendFails,
           AcceptAnswer, RejectAnswer, Reject, ReceiveException, ReceiveCorrupt, Flush,
           ReceiveEnd, Timeout, DtuAnswers, DtuIsSilent, DtuCloses, DtuResets, vars
<1>3. TypeOK /\ NeverFlushing /\ [Next]_vars => [LagStep]_vars
  <2> SUFFICES ASSUME TypeOK, NeverFlushing, ~ProtocolRecovery, Next, NoLoss
               PROVE  Lag' >= Lag
    BY DEF LagStep
  <2> USE DEF Lag
  <2>1. stream \in Seq(Answers) /\ dtuIn \in Seq(Frames)
    BY DEF TypeOK
  <2>2. Len(stream) \in Nat /\ Len(dtuIn) \in Nat
    BY <2>1
  <2>3. ASSUME NEW req \in Requests, RefuseOversized(req)
        PROVE  Lag' >= Lag
    BY <2>2, <2>3 DEF RefuseOversized
  <2>4. ASSUME NEW req \in Requests, SendRequest(req)
        PROVE  Lag' >= Lag
    <3>1. /\ Len(Older(stream)) = Len(stream)
          /\ Len(Older(dtuIn)) = Len(dtuIn)
          /\ Older(dtuIn) \in Seq(Frames)
      BY <2>1, OlderTyped
    <3>2. Len(dtuIn') = Len(dtuIn) + 1 /\ Len(stream') = Len(stream)
      BY <2>4, <3>1 DEF SendRequest
    <3> QED
      BY <2>2, <2>4, <3>2 DEF SendRequest
  <2>5. ASSUME NEW req \in Requests, SendFails(req)
        PROVE  Lag' >= Lag
    BY <2>5 DEF SendFails
  <2>6. CASE AcceptAnswer \/ RejectAnswer \/ ReceiveException \/ ReceiveCorrupt
    <3>1. /\ pc = "waiting" /\ pc' = "idle" /\ stream # <<>>
          /\ stream' = Tail(stream) /\ dtuIn' = dtuIn
      BY <2>6 DEF AcceptAnswer, RejectAnswer, Reject, ReceiveException, ReceiveCorrupt,
                  TakesAnswer
    <3>2. Len(stream') = Len(stream) - 1
      BY <2>1, <3>1
    <3> QED
      BY <2>2, <3>1, <3>2
  <2>7. CASE Flush \/ ReceiveEnd \/ DtuIsSilent \/ DtuCloses \/ DtuResets
    BY <2>7 DEF Flush, ReceiveEnd, DtuCloses, DtuResets, NeverFlushing
  <2>8. CASE Timeout
    BY <2>2, <2>8 DEF Timeout
  <2>9. CASE DtuAnswers
    <3>1. Len(dtuIn') = Len(dtuIn) - 1 /\ Len(stream') = Len(stream) + 1 /\ pc' = pc
      BY <2>1, <2>9 DEF DtuAnswers
    <3> QED
      BY <2>2, <3>1
  <2> QED
    BY <2>3, <2>4, <2>5, <2>6, <2>7, <2>8, <2>9 DEF Next, Calls, Returns, DtuWorks, DtuFails
<1> QED
  BY <1>1, <1>2, <1>3, TypeCorrect, PTL DEF Spec, LagNeverShrinks
-----------------------------------------------------------------------------
(* A confirmation on its way is that of a write the DTU has carried out, and    *)
(* what it is compared with leaves one request only that it can confirm.        *)
ConfirmsExecuted(x) == (x.kind = "data" /\ x.req.op = "write") => x.req \in executed

Confirmations ==
  /\ \A i \in DOMAIN stream : ConfirmsExecuted(stream[i])
  /\ ConfirmedWriteExecuted

\* An answer that corresponds to a pending write names that write.
LEMMA EchoNamesRequest ==
  ASSUME NEW ans \in Answers, TypeOK, Corresponds(ans), pending.op = "write"
  PROVE  ans.req = pending
<1>1. ans.req \in [op : Ops, addr : Nat, arg : Nat] /\ pending \in [op : Ops, addr : Nat, arg : Nat]
  BY DEF Answers, TypeOK
<1> QED
  BY <1>1 DEF Corresponds

(* Over both backends, whatever is late, lost, damaged or equal to an earlier    *)
(* request: a write that is confirmed has been carried out.                      *)
THEOREM ConfirmedIsExecuted == Spec => []ConfirmedWriteExecuted
<1>1. Init => Confirmations
  BY DEF Init, Confirmations, ConfirmedWriteExecuted
<1>2. TypeOK /\ Confirmations /\ [Next]_vars => Confirmations'
  <2> SUFFICES ASSUME TypeOK, Confirmations, [Next]_vars
               PROVE  Confirmations'
    OBVIOUS
  <2> USE DEF Confirmations, ConfirmsExecuted, ConfirmedWriteExecuted
  <2>0. stream \in Seq(Answers) /\ dtuIn \in Seq(Frames)
    BY DEF TypeOK
  <2>1. ASSUME NEW req \in Requests, RefuseOversized(req) \/ SendFails(req)
        PROVE  Confirmations'
    BY <2>1 DEF RefuseOversized, SendFails, Ended
  <2>2. ASSUME NEW req \in Requests, SendRequest(req)
        PROVE  Confirmations'
    <3>1. /\ DOMAIN stream' = DOMAIN stream
          /\ \A i \in DOMAIN stream : stream'[i] = [stream[i] EXCEPT !.age = @ + 1]
          /\ UNCHANGED <<result, executed>>
      BY <2>2 DEF SendRequest, Older
    <3>2. \A i \in DOMAIN stream : stream'[i].kind = stream[i].kind
                                 /\ stream'[i].req = stream[i].req
      <4> SUFFICES ASSUME NEW i \in DOMAIN stream
                   PROVE  stream'[i].kind = stream[i].kind /\ stream'[i].req = stream[i].req
        OBVIOUS
      <4>1. stream[i] \in Answers
        BY <2>0
      <4> QED
        BY <3>1, <4>1 DEF Answers
    <3> QED
      BY <3>1, <3>2
  <2>3. ASSUME stream # <<>>
        PROVE  /\ Head(stream) = stream[1] /\ 1 \in DOMAIN stream
               /\ \A i \in DOMAIN Tail(stream) : /\ i + 1 \in DOMAIN stream
                                                /\ Tail(stream)[i] = stream[i + 1]
    BY <2>0, <2>3
  <2>4. CASE AcceptAnswer
    <3>1. /\ stream # <<>> /\ stream' = Tail(stream) /\ UNCHANGED executed
          /\ Head(stream).kind = "data" /\ Corresponds(Head(stream))
          /\ result'.asked = pending /\ result'.outcome = "ok"
      BY <2>4 DEF AcceptAnswer, TakesAnswer
    <3>2. Head(stream) \in Answers
      BY <2>0, <3>1
    <3>3. pending.op = "write" => pending \in executed
      BY <2>3, <3>1, <3>2, EchoNamesRequest DEF Corresponds
    <3> QED
      BY <2>3, <3>1, <3>3
  <2>5. CASE RejectAnswer \/ ReceiveException \/ ReceiveCorrupt
    <3>1. /\ stream # <<>> /\ stream' \in {<<>>, Tail(stream)} /\ UNCHANGED executed
          /\ result' = [outcome |-> "error"]
      BY <2>5 DEF RejectAnswer, Reject, ReceiveException, ReceiveCorrupt, TakesAnswer, Ended
    <3> QED
      BY <2>3, <3>1
  <2>6. CASE Flush \/ DtuResets
    BY <2>6 DEF Flush, DtuResets
  <2>7. CASE ReceiveEnd \/ Timeout
    BY <2>7 DEF ReceiveEnd, Timeout, Ended
  <2>8. CASE DtuAnswers
    <3>1. PICK kind \in Kinds :
            /\ stream' = Append(stream, [tid |-> Head(dtuIn).tid, req |-> Head(dtuIn).req,
                                         age |-> Head(dtuIn).age, kind |-> kind])
            /\ executed' = IF Head(dtuIn).req.op = "write" /\ kind # "exception"
                           THEN executed \cup {Head(dtuIn).req}
                           ELSE executed
      BY <2>8 DEF DtuAnswers
    <3>2. executed \subseteq executed' /\ UNCHANGED result
      BY <2>8, <3>1 DEF DtuAnswers
    <3>3. ASSUME NEW i \in DOMAIN stream'
          PROVE  ConfirmsExecuted(stream[i])'
      <4>1. CASE i \in DOMAIN stream
        <5>1. stream'[i] = stream[i]
          BY <2>0, <3>1, <4>1
        <5> QED
          BY <3>2, <4>1, <5>1
      <4>2. CASE i \notin DOMAIN stream
        <5>1. stream'[i] = [tid |-> Head(dtuIn).tid, req |-> Head(dtuIn).req,
                            age |-> Head(dtuIn).age, kind |-> kind]
          BY <2>0, <3>1, <3>3, <4>2
        <5> QED
          BY <3>1, <5>1
      <4> QED
        BY <4>1, <4>2
    <3> QED
      BY <3>2, <3>3
  <2>9. CASE DtuIsSilent
    <3>1. executed \subseteq executed' /\ UNCHANGED <<stream, result>>
      BY <2>9 DEF DtuIsSilent
    <3> QED
      BY <3>1
  <2>10. CASE DtuCloses
    BY <2>10 DEF DtuCloses
  <2>11. CASE UNCHANGED vars
    BY <2>11 DEF vars
  <2> QED
    BY <2>1, <2>2, <2>4, <2>5, <2>6, <2>7, <2>8, <2>9, <2>10, <2>11
       DEF Next, Calls, Returns, DtuWorks, DtuFails
<1>3. Confirmations => ConfirmedWriteExecuted
  BY DEF Confirmations
<1> QED
  BY <1>1, <1>2, <1>3, TypeCorrect, PTL DEF Spec
=============================================================================
