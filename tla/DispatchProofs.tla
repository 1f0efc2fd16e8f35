--------------------------- MODULE DispatchProofs ---------------------------
(***************************************************************************)
(* For any number of workers, services and operations: contexts are freed  *)
(* with their last reference, queues are in one place, and the services    *)
(* behave as the actors of Actors.tla.                                     *)
(***************************************************************************)
EXTENDS Dispatch, FiniteSetTheorems, SequenceTheorems, TLAPS

One(p) == IF p THEN 1 ELSE 0

(* What a thread is about: a send and a release are calls, and the thread  *)
(* goes on with what it was about when they return.                        *)
InSend(t) == pc[t] \in {"sgrab", "spush"}
InPut(t)  == pc[t] \in {"put", "mark", "free"}
At(t) == IF InSend(t) THEN sent[t] ELSE IF InPut(t) THEN after[t] ELSE pc[t]

(* A thread's variables are set exactly while what it is about needs them. *)
ThreadInv(t) ==
    /\ InSend(t) => /\ target[t] \in Service /\ out[t] \in Message
                    /\ sent[t] \in {"idle", "handler", "init", "retire", "drop"}
    /\ InPut(t) => /\ put[t] \in Service
                   /\ after[t] \in {"idle", "fetch", "grab", "handler", "init", "ready",
                                    "publish", "retire", "mqrelease", "drop"}
                   /\ after[t] = "ready" => put[t] = born[t]
    /\ t \in Worker <=> At(t) # "idle"
    /\ At(t) \in {"idle", "fetch"} => q[t] = NoService
    /\ At(t) \notin {"idle", "fetch", "mqrelease", "drop"} => q[t] # NoService
    /\ nq[t] # NoService <=> At(t) = "requeue"
    /\ At(t) \in {"init", "ready", "publish"} => born[t] # NoService
    /\ At(t) \notin {"init", "ready", "publish", "retire"} => born[t] = NoService
    /\ At(t) \in {"mqrelease", "drop"} => dead[t] # NoService
    /\ At(t) \notin {"mqrelease", "drop", "retire"} => dead[t] = NoService
    /\ born[t] # NoService => dead[t] = NoService
    /\ victim[t] # NoService <=> At(t) = "retire"
    /\ msg[t] # NoMessage <=>
           q[t] # NoService /\ At(t) \notin {"grab", "mqpop", "swap", "requeue"}
    /\ pc[t] = "mqlen" => Weight[t] \in Nat
    /\ At(t) = "drop" => release[dead[t]] = 1
    /\ InSend(t) /\ sent[t] = "drop" => out[t] = [source |-> dead[t], type |-> "error"]

(* A context is counted right, whoever deletes it is alone to do so, and   *)
(* its queue is marked exactly then.                                       *)
Deletes(t, s) == pc[t] \in {"mark", "free"} /\ put[t] = s

RefInv(s) ==
    /\ ref[s] = Cardinality(Holders(s)) + One(s \in registered)
    /\ ref[s] > 0 => context[s] = "alive"
    /\ \A t \in Thread : Deletes(t, s) =>
           /\ ref[s] = 0 /\ context[s] = "alive"
           /\ release[s] = 1 <=> pc[t] = "free"
    /\ \A t, x \in Thread : Deletes(t, s) /\ Deletes(x, s) => t = x
    /\ release[s] = 1 => ref[s] = 0 /\ context[s] # "unborn"
    /\ context[s] = "freed" => release[s] = 1

(* A queue that is announced or marked is in one place, any other in none, *)
(* and then it is empty.                                                   *)
PlaceInv(s) ==
    /\ queue[s] = "unborn" <=> context[s] = "unborn"
    /\ queue[s] = "freed" => release[s] = 1
    /\ Cardinality(Listed(s)) + Cardinality(InHands(s)) =
           One(queue[s] = "alive" /\ (in_global[s] = 1 \/ release[s] = 1))
    /\ queue[s] = "alive" /\ in_global[s] = 0 /\ release[s] = 0 => messages[s] = <<>>

(* A service that can be found has been through its init, or its launcher  *)
(* still has it in hand and will open it or retire it: nobody dispatches   *)
(* one that has not.                                                       *)
OpenInv(s) ==
    /\ s \in registered =>
           \/ init[s]
           \/ \E t \in Thread : born[t] = s /\ At(t) # "publish"
           \/ \E t \in Thread : dead[t] = s /\ victim[t] = s
    /\ \A t \in Thread : Dispatching(t, s) => init[s]

TotalInv == total = Cardinality({s \in Service : context[s] = "alive"})

IInv ==
    /\ TypeOK /\ TotalInv
    /\ \A t \in Thread : ThreadInv(t)
    /\ \A s \in Service : RefInv(s) /\ PlaceInv(s) /\ OpenInv(s)

(* The variables of the threads other than t stay as they are.             *)
Only(t) == \A x \in Thread \ {t} :
    /\ pc'[x] = pc[x] /\ q'[x] = q[x] /\ nq'[x] = nq[x] /\ msg'[x] = msg[x]
    /\ target'[x] = target[x] /\ out'[x] = out[x] /\ sent'[x] = sent[x]
    /\ victim'[x] = victim[x] /\ born'[x] = born[x] /\ dead'[x] = dead[x]
    /\ put'[x] = put[x] /\ after'[x] = after[x]

(* What one thread does shows in its own variables only.                   *)
LEMMA StepIsLocal ==
    ASSUME TypeOK, NEW t \in Thread, Step(t) \/ Call(t)
    PROVE  Only(t)
<1> USE DEF TypeOK, Only, Goto, PutBack, EndPut, StartSend, EndSend, EndBatch,
            loop, sending, putting
<1>1. CASE Fetch(t) \/ Grab(t) \/ MqPopMessage(t)
  BY <1>1 DEF Fetch, Grab, MqPopMessage
<1>2. CASE MqPopEmpty(t) \/ MqLen(t) \/ Return(t)
  BY <1>2 DEF MqPopEmpty, MqLen, Return
<1>3. CASE Swap(t) \/ Requeue(t)
  BY <1>3 DEF Swap, Requeue
<1>4. CASE SendGrab(t) \/ SendPush(t)
  BY <1>4 DEF SendGrab, SendPush
<1>5. CASE Put(t) \/ Mark(t) \/ Free(t)
  BY <1>5 DEF Put, Mark, Free
<1>6. CASE Retire(t) \/ InitOk(t) \/ InitFail(t)
  BY <1>6 DEF Retire, InitOk, InitFail
<1>7. CASE Ready(t) \/ Publish(t) \/ MqRelease(t)
  BY <1>7 DEF Ready, Publish, MqRelease
<1>8. CASE Drop(t) \/ DropEmpty(t)
  BY <1>8 DEF Drop, DropEmpty
<1>9. CASE Call(t)
  BY <1>9 DEF Call, Send, SendExternal, Kill, Launch
<1> QED
  BY <1>1, <1>2, <1>3, <1>4, <1>5, <1>6, <1>7, <1>8, <1>9 DEF Step

(* The types in groups, by what their variables are for.                   *)
ServiceTypes ==
    /\ registered \subseteq Service
    /\ ref \in [Service -> Int]
    /\ context \in [Service -> {"unborn", "alive", "freed"}]
    /\ init \in [Service -> BOOLEAN]
    /\ total \in Int
QueueTypes ==
    /\ globalmq \in Seq(Service)
    /\ messages \in [Service -> Seq(Message)]
    /\ in_global \in [Service -> {0, 1}]
    /\ release \in [Service -> {0, 1}]
    /\ queue \in [Service -> {"unborn", "alive", "freed"}]
LoopTypes == i \in [Thread -> Nat] /\ n \in [Thread -> Nat]
LabelTypes ==
    /\ pc \in [Thread -> Label] /\ sent \in [Thread -> Label] /\ after \in [Thread -> Label]
HandTypes ==
    /\ q \in [Thread -> MaybeService] /\ nq \in [Thread -> MaybeService]
    /\ victim \in [Thread -> MaybeService] /\ born \in [Thread -> MaybeService]
    /\ put \in [Thread -> MaybeService] /\ dead \in [Thread -> MaybeService]
    /\ target \in [Thread -> MaybeService]
LetterTypes ==
    /\ msg \in [Thread -> Message \cup {NoMessage}]
    /\ out \in [Thread -> Message \cup {NoMessage}]

(* The groups make up TypeOK, before a step and after it.                  *)
LEMMA TypesByGroup ==
    /\ TypeOK <=> /\ ServiceTypes /\ QueueTypes /\ LoopTypes /\ LabelTypes
                  /\ HandTypes /\ LetterTypes /\ ops \in 0..MaxOps
    /\ TypeOK' <=> /\ ServiceTypes' /\ QueueTypes' /\ LoopTypes' /\ LabelTypes'
                   /\ HandTypes' /\ LetterTypes' /\ ops' \in 0..MaxOps
  BY DEF TypeOK, ServiceTypes, QueueTypes, LoopTypes, LabelTypes, HandTypes, LetterTypes

(* What a thread's place says of the types of its variables.               *)
ArgsOK(t) ==
    /\ InSend(t) => target[t] \in Service /\ out[t] \in Message
    /\ InPut(t) => put[t] \in Service
    /\ pc[t] \in {"mqpop", "mqlen", "handler", "swap", "requeue", "init"} =>
           t \in Worker /\ q[t] \in Service
    /\ pc[t] = "requeue" => nq[t] \in Service
    /\ pc[t] = "mqlen" => Weight[t] \in Nat
    /\ pc[t] \in {"init", "ready", "publish"} => born[t] \in Service
    /\ pc[t] \in {"mqrelease", "drop"} => dead[t] \in Service
    /\ pc[t] = "retire" => victim[t] \in Service

(* A thread at work has the service and the message it works on in hand.   *)
LEMMA ArgsTyped ==
    ASSUME HandTypes, NEW t \in Thread, ThreadInv(t)
    PROVE  ArgsOK(t)
  BY DEF HandTypes, MaybeService, ThreadInv, At, InSend, InPut, ArgsOK

(* The places a thread may be at are labels.                               *)
LEMMA LabelFacts ==
    /\ "idle" \in Label /\ "fetch" \in Label /\ "grab" \in Label /\ "mqpop" \in Label
    /\ "mqlen" \in Label /\ "handler" \in Label /\ "swap" \in Label /\ "requeue" \in Label
    /\ "sgrab" \in Label /\ "spush" \in Label /\ "put" \in Label /\ "mark" \in Label
    /\ "free" \in Label /\ "retire" \in Label /\ "init" \in Label /\ "ready" \in Label
    /\ "publish" \in Label /\ "mqrelease" \in Label /\ "drop" \in Label
  BY DEF Label

(* A step keeps the types of the contexts and the handle table.            *)
LEMMA StepKeepsServiceTypes ==
    ASSUME ServiceTypes, NEW t \in Thread, ArgsOK(t), Step(t) \/ Call(t)
    PROVE  ServiceTypes'
<1> USE DEF ServiceTypes, Goto, PutBack, EndPut, StartSend, EndSend, EndBatch, GlobalPush,
            services, queues, loop, sending, putting, ArgsOK, InSend, InPut
<1>1. CASE Fetch(t) \/ Grab(t) \/ MqPopMessage(t)
  BY <1>1 DEF Fetch, Grab, MqPopMessage
<1>2. CASE MqPopEmpty(t) \/ MqLen(t) \/ Return(t)
  BY <1>2 DEF MqPopEmpty, MqLen, Return
<1>3. CASE Swap(t) \/ Requeue(t) \/ SendGrab(t)
  BY <1>3 DEF Swap, Requeue, SendGrab
<1>4. CASE SendPush(t) \/ Put(t) \/ Mark(t)
  BY <1>4 DEF SendPush, Put, Mark
<1>5. CASE Free(t) \/ Retire(t) \/ InitOk(t)
  BY <1>5 DEF Free, Retire, AfterRetire, Home, InitOk
<1>6. CASE InitFail(t) \/ Ready(t) \/ Publish(t)
  BY <1>6 DEF InitFail, Ready, Publish
<1>7. CASE MqRelease(t) \/ Drop(t) \/ DropEmpty(t)
  BY <1>7 DEF MqRelease, AfterRelease, Drop, DropEmpty
<1>8. ASSUME NEW d \in Known, Send(t, d) \/ SendExternal(t, d) \/ Kill(t, d)
       PROVE  ServiceTypes'
  BY DispatchAssumption, <1>8 DEF Send, SendExternal, Kill, Known, InCallback, Self, Home
<1>9. ASSUME NEW s \in Service, Launch(t, s)
       PROVE  ServiceTypes'
  BY <1>9 DEF Launch
<1> QED
  BY <1>1, <1>2, <1>3, <1>4, <1>5, <1>6, <1>7, <1>8, <1>9 DEF Step, Call

(* A step keeps the types of the queues, listed services included.         *)
LEMMA StepKeepsQueueTypes ==
    ASSUME QueueTypes, NEW t \in Thread, ArgsOK(t), Step(t) \/ Call(t)
    PROVE  QueueTypes'
<1> USE DEF QueueTypes, Goto, PutBack, EndPut, StartSend, EndSend, EndBatch, GlobalPush,
            services, queues, loop, sending, putting, ArgsOK, InSend, InPut
<1>1. CASE Fetch(t)
  BY <1>1 DEF Fetch
<1>2. CASE Grab(t)
  BY <1>2 DEF Grab
<1>3. CASE MqPopMessage(t)
  BY <1>3 DEF MqPopMessage
<1>4. CASE MqPopEmpty(t)
  BY <1>4 DEF MqPopEmpty
<1>5. CASE MqLen(t)
  BY <1>5 DEF MqLen
<1>6. CASE Return(t)
  BY <1>6 DEF Return
<1>7. CASE Swap(t)
  <2>1. CASE globalmq = <<>>
    BY <1>7, <2>1 DEF Swap
  <2>2. CASE ~(globalmq = <<>>)
    <3>1. globalmq' = Tail(globalmq)
      BY <1>7, <2>2 DEF Swap
    <3>2. globalmq' \in Seq(Service)
      BY <2>2, <3>1
    <3> QED
      BY <1>7, <2>2, <3>2 DEF Swap
  <2> QED
    BY <2>1, <2>2
<1>8. CASE Requeue(t)
  <2>1. globalmq' = Append(globalmq, q[t]) /\ q[t] \in Service
    BY <1>8 DEF Requeue
  <2>2. globalmq' \in Seq(Service)
    BY <2>1
  <2> QED
    BY <1>8, <2>2 DEF Requeue
<1>9. CASE SendGrab(t)
  BY <1>9 DEF SendGrab
<1>10. CASE SendPush(t)
  <2>1. CASE in_global[target[t]] = 0
    <3>1. globalmq' = Append(globalmq, target[t]) /\ target[t] \in Service
      BY <1>10, <2>1 DEF SendPush
    <3>2. globalmq' \in Seq(Service)
      BY <2>1, <3>1
    <3>3. messages' \in [Service -> Seq(Message)]
      BY <1>10, <2>1 DEF SendPush
    <3> QED
      BY <1>10, <2>1, <3>2, <3>3 DEF SendPush
  <2>2. CASE ~(in_global[target[t]] = 0)
    BY <1>10, <2>2 DEF SendPush
  <2> QED
    BY <2>1, <2>2
<1>11. CASE Put(t)
  BY <1>11 DEF Put
<1>12. CASE Mark(t)
  <2>1. CASE in_global[put[t]] # 1
    <3>1. globalmq' = Append(globalmq, put[t]) /\ put[t] \in Service
      BY <1>12, <2>1 DEF Mark
    <3>2. globalmq' \in Seq(Service)
      BY <2>1, <3>1
    <3> QED
      BY <1>12, <2>1, <3>2 DEF Mark
  <2>2. CASE ~(in_global[put[t]] # 1)
    BY <1>12, <2>2 DEF Mark
  <2> QED
    BY <2>1, <2>2
<1>13. CASE Free(t)
  BY <1>13 DEF Free
<1>14. CASE Retire(t)
  BY <1>14 DEF Retire, AfterRetire, Home
<1>15. CASE InitOk(t)
  BY <1>15 DEF InitOk
<1>16. CASE InitFail(t)
  BY <1>16 DEF InitFail
<1>17. CASE Ready(t)
  BY <1>17 DEF Ready
<1>18. CASE Publish(t)
  BY <1>18 DEF Publish
<1>19. CASE MqRelease(t)
  <2>1. CASE release[dead[t]] = 1
    BY <1>19, <2>1 DEF MqRelease, AfterRelease
  <2>2. CASE ~(release[dead[t]] = 1)
    <3>1. globalmq' = Append(globalmq, dead[t]) /\ dead[t] \in Service
      BY <1>19, <2>2 DEF MqRelease, AfterRelease
    <3>2. globalmq' \in Seq(Service)
      BY <2>2, <3>1
    <3> QED
      BY <1>19, <2>2, <3>2 DEF MqRelease, AfterRelease
  <2> QED
    BY <2>1, <2>2
<1>20. CASE Drop(t)
  BY <1>20 DEF Drop
<1>21. CASE DropEmpty(t)
  BY <1>21 DEF DropEmpty, AfterRelease
<1>22. ASSUME NEW d \in Known, Send(t, d) \/ SendExternal(t, d) \/ Kill(t, d)
       PROVE  QueueTypes'
  BY DispatchAssumption, <1>22 DEF Send, SendExternal, Kill, Known, InCallback, Self, Home
<1>23. ASSUME NEW s \in Service, Launch(t, s)
       PROVE  QueueTypes'
  BY <1>23 DEF Launch
<1> QED
  BY <1>1, <1>2, <1>3, <1>4, <1>5, <1>6, <1>7, <1>8, <1>9, <1>10, <1>11, <1>12, <1>13, <1>14, <1>15, <1>16, <1>17, <1>18, <1>19, <1>20, <1>21, <1>22, <1>23 DEF Step, Call

(* A step keeps the types of the loop counters.                            *)
LEMMA StepKeepsLoopTypes ==
    ASSUME LoopTypes, QueueTypes, NEW t \in Thread, ArgsOK(t), Step(t) \/ Call(t)
    PROVE  LoopTypes'
<1> USE DEF LoopTypes, Goto, PutBack, EndPut, StartSend, EndSend, EndBatch, GlobalPush,
            services, queues, loop, sending, putting, ArgsOK, InSend, InPut
<1>1. CASE Fetch(t) \/ Grab(t) \/ MqPopMessage(t)
  BY <1>1 DEF Fetch, Grab, MqPopMessage
<1>2. CASE MqPopEmpty(t)
  BY <1>2 DEF MqPopEmpty
<1>3. CASE MqLen(t)
  <2>1. t \in Worker /\ Weight[t] \in Nat /\ Len(messages[q[t]]) \in Nat
    BY <1>3 DEF MqLen, QueueTypes
  <2>2. 2^Weight[t] \in Nat \ {0}
    BY <2>1, DispatchAssumption
  <2>3. \A x \in Nat, k \in Nat \ {0} : x \div k \in Nat
    OBVIOUS
  <2>4. Len(messages[q[t]]) \div 2^Weight[t] \in Nat
    BY <2>1, <2>2, <2>3
  <2> QED
    BY <2>4, <1>3 DEF MqLen
<1>4. CASE Return(t) \/ Swap(t) \/ Requeue(t)
  BY <1>4 DEF Return, Swap, Requeue
<1>5. CASE SendGrab(t) \/ SendPush(t) \/ Put(t)
  BY <1>5 DEF SendGrab, SendPush, Put
<1>6. CASE Mark(t) \/ Free(t) \/ Retire(t)
  BY <1>6 DEF Mark, Free, Retire, AfterRetire, Home
<1>7. CASE InitOk(t) \/ InitFail(t) \/ Ready(t)
  BY <1>7 DEF InitOk, InitFail, Ready
<1>8. CASE Publish(t) \/ MqRelease(t) \/ Drop(t)
  BY <1>8 DEF Publish, MqRelease, AfterRelease, Drop
<1>9. CASE DropEmpty(t)
  BY <1>9 DEF DropEmpty, AfterRelease
<1>10. ASSUME NEW d \in Known, Send(t, d) \/ SendExternal(t, d) \/ Kill(t, d)
       PROVE  LoopTypes'
  BY DispatchAssumption, <1>10 DEF Send, SendExternal, Kill, Known, InCallback, Self, Home
<1>11. ASSUME NEW s \in Service, Launch(t, s)
       PROVE  LoopTypes'
  BY <1>11 DEF Launch
<1> QED
  BY <1>1, <1>2, <1>3, <1>4, <1>5, <1>6, <1>7, <1>8, <1>9, <1>10, <1>11 DEF Step, Call

(* A step keeps the types of the places of the threads.                    *)
LEMMA StepKeepsLabelTypes ==
    ASSUME LabelTypes, NEW t \in Thread, ArgsOK(t), Step(t) \/ Call(t)
    PROVE  LabelTypes'
<1> USE DEF LabelTypes, Goto, PutBack, EndPut, StartSend, EndSend, EndBatch, GlobalPush,
            services, queues, loop, sending, putting, ArgsOK, InSend, InPut
<1> USE LabelFacts
<1>1. CASE Fetch(t) \/ Grab(t) \/ MqPopMessage(t)
  BY <1>1 DEF Fetch, Grab, MqPopMessage
<1>2. CASE MqPopEmpty(t) \/ MqLen(t) \/ Return(t)
  BY <1>2 DEF MqPopEmpty, MqLen, Return
<1>3. CASE Swap(t) \/ Requeue(t) \/ SendGrab(t)
  BY <1>3 DEF Swap, Requeue, SendGrab
<1>4. CASE SendPush(t) \/ Put(t) \/ Mark(t)
  BY <1>4 DEF SendPush, Put, Mark
<1>5. CASE Free(t) \/ Retire(t) \/ InitOk(t)
  BY <1>5 DEF Free, Retire, AfterRetire, Home, InitOk
<1>6. CASE InitFail(t) \/ Ready(t) \/ Publish(t)
  BY <1>6 DEF InitFail, Ready, Publish
<1>7. CASE MqRelease(t) \/ Drop(t) \/ DropEmpty(t)
  BY <1>7 DEF MqRelease, AfterRelease, Drop, DropEmpty
<1>8. ASSUME NEW d \in Known, Send(t, d) \/ SendExternal(t, d) \/ Kill(t, d)
       PROVE  LabelTypes'
  BY DispatchAssumption, <1>8 DEF Send, SendExternal, Kill, Known, InCallback, Self, Home
<1>9. ASSUME NEW s \in Service, Launch(t, s)
       PROVE  LabelTypes'
  BY <1>9 DEF Launch
<1> QED
  BY <1>1, <1>2, <1>3, <1>4, <1>5, <1>6, <1>7, <1>8, <1>9 DEF Step, Call

(* A step keeps the types of the services the threads have in hand.        *)
LEMMA StepKeepsHandTypes ==
    ASSUME HandTypes, QueueTypes, NEW t \in Thread, ArgsOK(t), Step(t) \/ Call(t)
    PROVE  HandTypes'
<1> USE DEF HandTypes, Goto, PutBack, EndPut, StartSend, EndSend, EndBatch, GlobalPush,
            services, queues, loop, sending, putting, ArgsOK, InSend, InPut
<1>m. NoService \in MaybeService /\ \A s \in Service : s \in MaybeService
  BY DEF MaybeService
<1>1. CASE Fetch(t)
  <2>1. globalmq # <<>> => Head(globalmq) \in Service
    BY DEF QueueTypes
  <2> QED
    BY <1>m, <1>1, <2>1 DEF Fetch
<1>2. CASE Grab(t) \/ MqPopMessage(t) \/ MqPopEmpty(t)
  BY <1>m, <1>2 DEF Grab, MqPopMessage, MqPopEmpty
<1>3. CASE MqLen(t) \/ Return(t)
  BY <1>m, <1>3 DEF MqLen, Return
<1>4. CASE Swap(t)
  <2>1. globalmq # <<>> => Head(globalmq) \in Service
    BY DEF QueueTypes
  <2> QED
    BY <1>m, <1>4, <2>1 DEF Swap
<1>5. CASE Requeue(t) \/ SendGrab(t) \/ SendPush(t)
  <2>1. CASE Requeue(t)
    BY <1>m, <2>1 DEF Requeue
  <2>2. CASE SendGrab(t) \/ SendPush(t)
    BY <1>m, <2>2 DEF SendGrab, SendPush
  <2> QED
    BY <1>5, <2>1, <2>2
<1>6. CASE Put(t) \/ Mark(t) \/ Free(t)
  BY <1>m, <1>6 DEF Put, Mark, Free
<1>7. CASE Retire(t) \/ InitOk(t) \/ InitFail(t)
  BY <1>m, <1>7 DEF Retire, AfterRetire, Home, InitOk, InitFail
<1>8. CASE Ready(t) \/ Publish(t) \/ MqRelease(t)
  BY <1>m, <1>8 DEF Ready, Publish, MqRelease, AfterRelease
<1>9. CASE Drop(t)
  <2>1. Head(messages[dead[t]]) \in Message
    BY <1>9 DEF Drop, QueueTypes
  <2> QED
    BY <1>m, <1>9, <2>1 DEF Drop, Message
<1>10. CASE DropEmpty(t)
  BY <1>m, <1>10 DEF DropEmpty, AfterRelease
<1>11. ASSUME NEW d \in Known, Send(t, d) \/ SendExternal(t, d) \/ Kill(t, d)
       PROVE  HandTypes'
  BY <1>m, DispatchAssumption, <1>11 DEF Send, SendExternal, Kill, Known, InCallback, Self, Home
<1>12. ASSUME NEW s \in Service, Launch(t, s)
       PROVE  HandTypes'
  BY <1>m, <1>12 DEF Launch
<1> QED
  BY <1>1, <1>2, <1>3, <1>4, <1>5, <1>6, <1>7, <1>8, <1>9, <1>10, <1>11, <1>12 DEF Step, Call

(* A step keeps the types of the messages the threads have in hand.        *)
LEMMA StepKeepsLetterTypes ==
    ASSUME LetterTypes, QueueTypes, HandTypes, NEW t \in Thread, ArgsOK(t), Step(t) \/ Call(t)
    PROVE  LetterTypes'
<1> USE DEF LetterTypes, Goto, PutBack, EndPut, StartSend, EndSend, EndBatch, GlobalPush,
            services, queues, loop, sending, putting, ArgsOK, InSend, InPut
<1>1. CASE Fetch(t) \/ Grab(t)
  BY <1>1 DEF Fetch, Grab
<1>2. CASE MqPopMessage(t)
  <2>1. Head(messages[q[t]]) \in Message
    BY <1>2 DEF MqPopMessage, QueueTypes
  <2> QED
    BY <1>2, <2>1 DEF MqPopMessage
<1>3. CASE MqPopEmpty(t) \/ MqLen(t) \/ Return(t)
  BY <1>3 DEF MqPopEmpty, MqLen, Return
<1>4. CASE Swap(t) \/ Requeue(t) \/ SendGrab(t)
  BY <1>4 DEF Swap, Requeue, SendGrab
<1>5. CASE SendPush(t) \/ Put(t) \/ Mark(t)
  BY <1>5 DEF SendPush, Put, Mark
<1>6. CASE Free(t) \/ Retire(t) \/ InitOk(t)
  BY <1>6 DEF Free, Retire, AfterRetire, Home, InitOk
<1>7. CASE InitFail(t) \/ Ready(t) \/ Publish(t)
  BY <1>7 DEF InitFail, Ready, Publish
<1>8. CASE MqRelease(t)
  BY <1>8 DEF MqRelease, AfterRelease
<1>9. CASE Drop(t)
  <2>1. Head(messages[dead[t]]) \in Message
    BY <1>9 DEF Drop, QueueTypes
  <2> QED
    BY <1>9, <2>1 DEF Drop, Message
<1>10. CASE DropEmpty(t)
  BY <1>10 DEF DropEmpty, AfterRelease
<1>11. ASSUME NEW d \in Known, Send(t, d) \/ SendExternal(t, d) \/ Kill(t, d)
       PROVE  LetterTypes'
  <2>1. Self(t) \in MaybeService /\ d \in MaybeService
    BY DEF HandTypes, MaybeService, Self, Known
  <2> QED
    BY <2>1, <1>11 DEF Send, SendExternal, Kill, Message, MaybeService
<1>12. ASSUME NEW s \in Service, Launch(t, s)
       PROVE  LetterTypes'
  BY <1>12 DEF Launch
<1> QED
  BY <1>1, <1>2, <1>3, <1>4, <1>5, <1>6, <1>7, <1>8, <1>9, <1>10, <1>11, <1>12 DEF Step, Call

(* A step keeps the types of everything.                                   *)
LEMMA StepKeepsTypes ==
    ASSUME TypeOK, NEW t \in Thread, ThreadInv(t), Step(t) \/ Call(t)
    PROVE  TypeOK'
<1>1. /\ ServiceTypes /\ QueueTypes /\ LoopTypes /\ LabelTypes /\ HandTypes /\ LetterTypes
      /\ ops \in 0..MaxOps /\ ArgsOK(t)
  BY TypesByGroup, ArgsTyped
<1>2. /\ ServiceTypes' /\ QueueTypes' /\ LoopTypes'
      /\ LabelTypes' /\ HandTypes' /\ LetterTypes'
  BY <1>1, StepKeepsServiceTypes, StepKeepsQueueTypes, StepKeepsLoopTypes,
     StepKeepsLabelTypes, StepKeepsHandTypes, StepKeepsLetterTypes
<1>3. ops' = ops \/ (ops' = ops + 1 /\ ops < MaxOps)
  <2>1. CASE Fetch(t) \/ Grab(t) \/ MqPopMessage(t) \/ MqPopEmpty(t) \/ MqLen(t) \/ Return(t)
    BY <2>1 DEF Fetch, Grab, MqPopMessage, MqPopEmpty, MqLen, Return
  <2>2. CASE Swap(t) \/ Requeue(t) \/ SendGrab(t) \/ SendPush(t) \/ Put(t) \/ Mark(t)
    BY <2>2 DEF Swap, Requeue, SendGrab, SendPush, Put, Mark
  <2>3. CASE Free(t) \/ Retire(t) \/ InitOk(t) \/ InitFail(t) \/ Ready(t) \/ Publish(t)
    BY <2>3 DEF Free, Retire, InitOk, InitFail, Ready, Publish
  <2>4. CASE MqRelease(t) \/ Drop(t) \/ DropEmpty(t)
    BY <2>4 DEF MqRelease, Drop, DropEmpty
  <2>5. CASE Call(t)
    BY <2>5 DEF Call, Send, SendExternal, Kill, Launch
  <2> QED
    BY <2>1, <2>2, <2>3, <2>4, <2>5 DEF Step
<1>4. ops' \in 0..MaxOps
  BY <1>1, <1>3, DispatchAssumption
<1> QED
  BY <1>2, <1>4, TypesByGroup
-----------------------------------------------------------------------------
(* A queue's mark stays.                                                   *)
LEMMA MarksStay ==
    ASSUME TypeOK, NEW t \in Thread, ArgsOK(t), Step(t) \/ Call(t), NEW s \in Service
    PROVE  release[s] = 1 => release'[s] = 1
<1>1. CASE Mark(t)
  BY <1>1, TypesByGroup DEF Mark, QueueTypes, ArgsOK, InPut
<1>2. CASE ~Mark(t)
  <2>1. release' = release
    BY <1>2 DEF Step, Call, Fetch, Grab, MqPopMessage, MqPopEmpty, MqLen, Return, Swap,
           Requeue, SendGrab, SendPush, Put, Free, Retire, InitOk, InitFail, Ready,
           Publish, MqRelease, Drop, DropEmpty, Send, SendExternal, Kill, Launch, queues
  <2> QED
    BY <2>1
<1> QED
  BY <1>1, <1>2

(* The thread that takes the step keeps its own variables in order.        *)
LEMMA StepKeepsOwnThread ==
    ASSUME TypeOK, NEW t \in Thread, ThreadInv(t), ArgsOK(t), Step(t) \/ Call(t)
    PROVE  ThreadInv(t)'
<1>0. /\ QueueTypes /\ LabelTypes /\ HandTypes /\ LetterTypes /\ ArgsOK(t)
      /\ NoService \notin Service /\ NoMessage \notin Message
  BY TypesByGroup, DispatchAssumption, NoMessageAssumption
<1> USE <1>0 DEF QueueTypes, LabelTypes, HandTypes, LetterTypes, ArgsOK, ThreadInv, At,
                 InSend, InPut, Goto, PutBack, EndPut, StartSend, EndSend, EndBatch,
                 services, queues, loop, sending, putting
<1>1. CASE Fetch(t)
  BY <1>1 DEF Fetch
<1>2. CASE Grab(t)
  BY <1>2 DEF Grab
<1>3. CASE MqPopMessage(t)
  <2>1. Head(messages[q[t]]) \in Message /\ (Weight[t] >= 0 => Weight[t] \in Nat)
    BY <1>3, DispatchAssumption DEF MqPopMessage
  <2> QED
    BY <1>3, <2>1 DEF MqPopMessage
<1>4. CASE MqPopEmpty(t)
  BY <1>4 DEF MqPopEmpty
<1>5. CASE MqLen(t)
  BY <1>5 DEF MqLen
<1>6. CASE Return(t)
  BY <1>6 DEF Return
<1>7. CASE Swap(t)
  BY <1>7 DEF Swap
<1>8. CASE Requeue(t)
  BY <1>8 DEF Requeue
<1>9. CASE SendGrab(t)
  BY <1>9 DEF SendGrab
<1>10. CASE SendPush(t)
  BY <1>10 DEF SendPush
<1>11. CASE Put(t)
  BY <1>11 DEF Put
<1>12. CASE Mark(t)
  BY <1>12 DEF Mark
<1>13. CASE Free(t)
  BY <1>13 DEF Free
<1>14. CASE Retire(t)
  BY <1>14 DEF Retire, AfterRetire, Home
<1>15. CASE InitOk(t)
  BY <1>15 DEF InitOk
<1>16. CASE InitFail(t)
  BY <1>16 DEF InitFail
<1>17. CASE Ready(t)
  BY <1>17 DEF Ready
<1>18. CASE Publish(t)
  BY <1>18 DEF Publish
<1>19. CASE MqRelease(t)
  BY <1>19 DEF MqRelease, AfterRelease
<1>20. CASE Drop(t)
  <2>1. Head(messages[dead[t]]) \in Message
    BY <1>20 DEF Drop
  <2>2. Head(messages[dead[t]]).source \in Service \cup {NoService}
    BY <2>1 DEF Message
  <2>3. \A x \in Service : [source |-> x, type |-> "error"] \in Message
    BY DEF Message
  <2> QED
    BY <1>20, <2>2, <2>3 DEF Drop
<1>21. CASE DropEmpty(t)
  BY <1>21 DEF DropEmpty, AfterRelease
<1>22. ASSUME NEW d \in Known, Send(t, d) \/ SendExternal(t, d) \/ Kill(t, d)
       PROVE  ThreadInv(t)'
  <2>1. d \in Service /\ (InCallback(t) => Self(t) \in Service)
    BY DEF InCallback, Self, Known, MaybeService
  <2>2. \A x \in Service \cup {NoService} : /\ [source |-> x, type |-> "request"] \in Message
                                         /\ [source |-> x, type |-> "exit"] \in Message
    BY DEF Message
  <2>3. CASE Send(t, d)
    BY <2>1, <2>2, <2>3 DEF Send, InCallback, Home
  <2>4. CASE SendExternal(t, d)
    BY <2>1, <2>2, <2>4 DEF SendExternal
  <2>5. CASE Kill(t, d)
    <3>1. CASE Monitor = NoService
      BY <2>1, <2>5, <3>1 DEF Kill, InCallback
    <3>2. CASE Monitor # NoService
      <4>1. Monitor \in Service
        BY <3>2, DispatchAssumption
      <4>2. /\ pc'[t] = "sgrab" /\ sent'[t] = "retire" /\ target'[t] = Monitor
            /\ out'[t] = [source |-> d, type |-> "exit"] /\ victim'[t] = d
        BY <2>5, <3>2 DEF Kill
      <4>3. UNCHANGED <<q, nq, born, dead, msg, release>>
        BY <2>5 DEF Kill
      <4> QED
        <5>1. pc[t] \in {"init", "handler"} /\ d # NoService
          BY <2>1, <2>5 DEF Kill, InCallback
        <5>2. out'[t] \in Message
          <6>1. [source |-> d, type |-> "exit"] \in Message
            BY <2>1 DEF Message
          <6> QED
            BY <4>2, <6>1
        <5> QED
          BY <4>1, <4>2, <4>3, <5>1, <5>2
    <3> QED
      BY <3>1, <3>2
  <2> QED
    BY <1>22, <2>3, <2>4, <2>5
<1>23. ASSUME NEW s \in Service, Launch(t, s)
       PROVE  ThreadInv(t)'
  BY <1>23 DEF Launch
<1> QED
  BY <1>1, <1>2, <1>3, <1>4, <1>5, <1>6, <1>7, <1>8, <1>9, <1>10, <1>11, <1>12,
     <1>13, <1>14, <1>15, <1>16, <1>17, <1>18, <1>19, <1>20, <1>21, <1>22, <1>23
     DEF Step, Call

(* So do the others, which it does not touch.                              *)
LEMMA StepKeepsThreads ==
    ASSUME TypeOK, NEW t \in Thread, \A x \in Thread : ThreadInv(x), Step(t) \/ Call(t)
    PROVE  \A x \in Thread : ThreadInv(x)'
<1>1. ArgsOK(t) /\ HandTypes
  BY ArgsTyped, TypesByGroup
<1>2. ThreadInv(t)'
  BY <1>1, StepKeepsOwnThread
<1>3. ASSUME NEW x \in Thread \ {t}
      PROVE  ThreadInv(x)'
  <2>1. Only(t)
    BY StepIsLocal
  <2>2. dead[x] \in Service => (release[dead[x]] = 1 => release'[dead[x]] = 1)
    BY <1>1, MarksStay
  <2>3. dead[x] # NoService => dead[x] \in Service
    BY <1>1 DEF HandTypes, MaybeService
  <2> QED
    BY <2>1, <2>2, <2>3 DEF Only, ThreadInv, At, InSend, InPut
<1> QED
  BY <1>2, <1>3
-----------------------------------------------------------------------------
(* There are finitely many threads, and so of threads that hold something. *)
LEMMA FiniteThreads ==
    /\ IsFiniteSet(Thread)
    /\ \A S \in SUBSET Thread : IsFiniteSet(S) /\ Cardinality(S) \in Nat
<1>1. IsFiniteSet(Thread)
  BY DispatchAssumption, FS_Union DEF Thread
<1>2. \A S \in SUBSET Thread : IsFiniteSet(S)
  BY <1>1, FS_Subset
<1> QED
  BY <1>1, <1>2, FS_CardinalityType

(* A set of threads that differs at t only is smaller or larger by one.    *)
LEMMA CountMoves ==
    ASSUME NEW E \in SUBSET Thread, NEW F \in SUBSET Thread, NEW t \in Thread,
           \A x \in Thread \ {t} : x \in E <=> x \in F
    PROVE  Cardinality(F) = Cardinality(E) + One(t \in F) - One(t \in E)
<1>1. /\ IsFiniteSet(E) /\ IsFiniteSet(F)
      /\ Cardinality(E) \in Nat /\ Cardinality(F) \in Nat
  BY FiniteThreads
<1>2. CASE (t \in E) = (t \in F)
  <2>1. E = F
    BY <1>2
  <2> QED
    BY <1>1, <2>1 DEF One
<1>3. CASE t \in E /\ t \notin F
  <2>1. E = F \cup {t}
    BY <1>3
  <2> QED
    BY <1>1, <1>3, <2>1, FS_AddElement DEF One
<1>4. CASE t \notin E /\ t \in F
  <2>1. F = E \cup {t}
    BY <1>4
  <2> QED
    BY <1>1, <1>4, <2>1, FS_AddElement DEF One
<1> QED
  BY <1>2, <1>3, <1>4

(* Threads marked with what they hold are as many as the threads.          *)
LEMMA MarkedThreads ==
    ASSUME NEW E \in SUBSET Thread, NEW k
    PROVE  /\ IsFiniteSet({<<x, k>> : x \in E})
           /\ Cardinality({<<x, k>> : x \in E}) = Cardinality(E)
<1> DEFINE f == [x \in E |-> <<x, k>>]
           F == {<<x, k>> : x \in E}
<1>1. f \in Bijection(E, F)
  <2>1. f \in [E -> F]
    OBVIOUS
  <2>2. \A x, y \in E : f[x] = f[y] => x = y
    OBVIOUS
  <2>3. \A y \in F : \E x \in E : f[x] = y
    OBVIOUS
  <2> QED
    BY <2>1, <2>2, <2>3 DEF Bijection, Injection, Surjection, IsInjective
<1>2. ExistsBijection(E, F)
  BY <1>1 DEF ExistsBijection
<1> QED
  BY <1>2, FiniteThreads, FS_Bijection

(* Disjoint sets are counted one after the other.                          *)
LEMMA DisjointCount ==
    ASSUME NEW U, NEW V, IsFiniteSet(U), IsFiniteSet(V), U \cap V = {}
    PROVE  /\ IsFiniteSet(U \cup V)
           /\ Cardinality(U \cup V) = Cardinality(U) + Cardinality(V)
<1>1. Cardinality(U) \in Nat /\ Cardinality(V) \in Nat
  BY FS_CardinalityType
<1>2. Cardinality(U \cup V) = Cardinality(U) + Cardinality(V) - Cardinality(U \cap V)
  BY FS_Union
<1>3. Cardinality(U \cap V) = 0
  BY FS_EmptySet
<1> QED
  BY <1>1, <1>2, <1>3, FS_Union

(* Threads of four kinds, each marked with its kind                        *)
Marked(E, a, F, b, G, c, H, d) ==
    {<<x, a>> : x \in E} \cup {<<x, b>> : x \in F} \cup
    {<<x, c>> : x \in G} \cup {<<x, d>> : x \in H}

(* Holders of four kinds are counted kind by kind.                         *)
LEMMA FourKinds ==
    ASSUME NEW E \in SUBSET Thread, NEW F \in SUBSET Thread,
           NEW G \in SUBSET Thread, NEW H \in SUBSET Thread,
           NEW a, NEW b, NEW c, NEW d,
           a # b, a # c, a # d, b # c, b # d, c # d
    PROVE  Cardinality(Marked(E, a, F, b, G, c, H, d))
           = Cardinality(E) + Cardinality(F) + Cardinality(G) + Cardinality(H)
<1> DEFINE P == {<<x, a>> : x \in E}
           Q == {<<x, b>> : x \in F}
           R == {<<x, c>> : x \in G}
           S == {<<x, d>> : x \in H}
<1>1. /\ IsFiniteSet(P) /\ Cardinality(P) = Cardinality(E)
      /\ IsFiniteSet(Q) /\ Cardinality(Q) = Cardinality(F)
      /\ IsFiniteSet(R) /\ Cardinality(R) = Cardinality(G)
      /\ IsFiniteSet(S) /\ Cardinality(S) = Cardinality(H)
  BY MarkedThreads
<1>2. /\ Cardinality(E) \in Nat /\ Cardinality(F) \in Nat
      /\ Cardinality(G) \in Nat /\ Cardinality(H) \in Nat
  BY FiniteThreads
<1>3. P \cap Q = {} /\ (P \cup Q) \cap R = {} /\ (P \cup Q \cup R) \cap S = {}
  OBVIOUS
<1> HIDE DEF P, Q, R, S
<1>4. IsFiniteSet(P \cup Q) /\ Cardinality(P \cup Q) = Cardinality(P) + Cardinality(Q)
  BY <1>1, <1>3, DisjointCount
<1>5. /\ IsFiniteSet(P \cup Q \cup R)
      /\ Cardinality(P \cup Q \cup R) = Cardinality(P \cup Q) + Cardinality(R)
  BY <1>1, <1>3, <1>4, DisjointCount
<1>6. Cardinality(P \cup Q \cup R \cup S)
          = Cardinality(P \cup Q \cup R) + Cardinality(S)
  BY <1>1, <1>3, <1>5, DisjointCount
<1>7. Cardinality(P \cup Q \cup R \cup S)
          = Cardinality(E) + Cardinality(F) + Cardinality(G) + Cardinality(H)
  BY <1>1, <1>2, <1>4, <1>5, <1>6
<1> QED
  BY <1>7 DEF P, Q, R, S, Marked
-----------------------------------------------------------------------------
(* The references of s and the places of its queue that t has in hand.     *)
Held(t, s) == One(Dispatching(t, s)) + One(Sending(t, s))
                  + One(Releasing(t, s)) + One(Launching(t, s))
Carried(t, s) == One(q[t] = s) + One(nq[t] = s) + One(born[t] = s) + One(dead[t] = s)

(* The references in hand are finitely many.                               *)
LEMMA HoldersCounted ==
    ASSUME NEW s
    PROVE  IsFiniteSet(Holders(s)) /\ Cardinality(Holders(s)) \in Nat
<1> DEFINE Kinds == {"dispatch", "send", "release", "launch"}
<1>1. IsFiniteSet(Kinds)
  <2>1. Kinds = {"dispatch"} \cup {"send"} \cup {"release"} \cup {"launch"}
    OBVIOUS
  <2>2. \A x : IsFiniteSet({x})
    BY FS_Singleton
  <2>3. IsFiniteSet({"dispatch"} \cup {"send"})
    BY <2>2, FS_Union
  <2>4. IsFiniteSet({"dispatch"} \cup {"send"} \cup {"release"})
    BY <2>2, <2>3, FS_Union
  <2>5. IsFiniteSet({"dispatch"} \cup {"send"} \cup {"release"} \cup {"launch"})
    BY <2>2, <2>4, FS_Union
  <2> QED
    BY <2>1, <2>5
<1>2. IsFiniteSet(Thread \X Kinds)
  BY <1>1, FiniteThreads, FS_Product
<1>3. Holders(s) \in SUBSET (Thread \X Kinds)
  BY DEF Holders
<1> QED
  BY <1>2, <1>3, FS_Subset, FS_CardinalityType

(* The references in hand change by what the thread that moves holds.      *)
LEMMA HoldersMove ==
    ASSUME NEW t \in Thread, NEW s \in Service, Only(t)
    PROVE  /\ Cardinality(Holders(s)) \in Nat
           /\ Cardinality(Holders(s))' = Cardinality(Holders(s)) + Held(t, s)' - Held(t, s)
           /\ Held(t, s) \in Nat /\ Held(t, s)' \in Nat
           /\ Cardinality(Holders(s)) >= Held(t, s)
<1> DEFINE E == {x \in Thread : Dispatching(x, s)}
           F == {x \in Thread : Sending(x, s)}
           G == {x \in Thread : Releasing(x, s)}
           H == {x \in Thread : Launching(x, s)}
<1>0. /\ E \in SUBSET Thread /\ E' \in SUBSET Thread /\ F \in SUBSET Thread
      /\ F' \in SUBSET Thread /\ G \in SUBSET Thread /\ G' \in SUBSET Thread
      /\ H \in SUBSET Thread /\ H' \in SUBSET Thread
  OBVIOUS
<1>1. Holders(s) = Marked(E, "dispatch", F, "send", G, "release", H, "launch")
  BY DEF Holders, Marked
<1>2. Holders(s)' = Marked(E', "dispatch", F', "send", G', "release", H', "launch")
  BY DEF Holders, Marked, Dispatching, Sending, Releasing,
         Launching, GivingBack
<1>3. /\ Cardinality(E) \in Nat /\ Cardinality(F) \in Nat
      /\ Cardinality(G) \in Nat /\ Cardinality(H) \in Nat
  BY FiniteThreads
<1>4. \A x \in Thread \ {t} : /\ x \in E <=> x \in E'
                              /\ x \in F <=> x \in F'
                              /\ x \in G <=> x \in G'
                              /\ x \in H <=> x \in H'
  BY DEF Only, Dispatching, Sending, Releasing, Launching, GivingBack
<1>5. /\ Cardinality(E') = Cardinality(E) + One(t \in E') - One(t \in E)
      /\ Cardinality(F') = Cardinality(F) + One(t \in F') - One(t \in F)
      /\ Cardinality(G') = Cardinality(G) + One(t \in G') - One(t \in G)
      /\ Cardinality(H') = Cardinality(H) + One(t \in H') - One(t \in H)
  BY <1>0, <1>4, CountMoves
<1>6. /\ Cardinality(E) >= One(t \in E) /\ Cardinality(F) >= One(t \in F)
      /\ Cardinality(G) >= One(t \in G) /\ Cardinality(H) >= One(t \in H)
  <2>1. ASSUME NEW S \in SUBSET Thread
        PROVE  Cardinality(S) >= One(t \in S)
    <3>1. Cardinality(S \ {t}) = Cardinality(S) + One(t \in S \ {t}) - One(t \in S)
      BY CountMoves
    <3> QED
      BY <3>1, FiniteThreads DEF One
  <2> QED
    BY <2>1
<1>7. /\ Held(t, s) = One(t \in E) + One(t \in F) + One(t \in G) + One(t \in H)
      /\ Held(t, s)' = One(t \in E') + One(t \in F') + One(t \in G') + One(t \in H')
  BY DEF Held, One, Dispatching, Sending, Releasing,
         Launching, GivingBack
<1>8. /\ One(t \in E) \in Nat /\ One(t \in F) \in Nat /\ One(t \in G) \in Nat
      /\ One(t \in H) \in Nat /\ One(t \in E') \in Nat /\ One(t \in F') \in Nat
      /\ One(t \in G') \in Nat /\ One(t \in H') \in Nat
  BY DEF One
<1> HIDE DEF E, F, G, H
<1>9. Cardinality(Holders(s)) = Cardinality(E) + Cardinality(F) + Cardinality(G) + Cardinality(H)
  BY <1>0, <1>1, FourKinds
<1>10. Cardinality(Holders(s)')
           = Cardinality(E') + Cardinality(F') + Cardinality(G') + Cardinality(H')
  BY <1>0, <1>2, FourKinds
<1>11. Cardinality(Holders(s)) \in Nat /\ Held(t, s) \in Nat /\ Held(t, s)' \in Nat
  BY <1>3, <1>7, <1>8, <1>9
<1>12. Cardinality(Holders(s)) >= Held(t, s)
  BY <1>3, <1>6, <1>7, <1>8, <1>9
<1>13. Cardinality(Holders(s)') = Cardinality(Holders(s)) + Held(t, s)' - Held(t, s)
  BY <1>3, <1>5, <1>7, <1>8, <1>9, <1>10
<1> QED
  BY <1>11, <1>12, <1>13

(* So do the queues in hand.                                               *)
LEMMA HandsMove ==
    ASSUME NEW t \in Thread, NEW s \in Service, Only(t)
    PROVE  /\ Cardinality(InHands(s)) \in Nat
           /\ Cardinality(InHands(s))' = Cardinality(InHands(s)) + Carried(t, s)' - Carried(t, s)
           /\ Carried(t, s) \in Nat /\ Carried(t, s)' \in Nat
           /\ Cardinality(InHands(s)) >= Carried(t, s)
<1> DEFINE E == {x \in Thread : q[x] = s}
           F == {x \in Thread : nq[x] = s}
           G == {x \in Thread : born[x] = s}
           H == {x \in Thread : dead[x] = s}
<1>0. /\ E \in SUBSET Thread /\ E' \in SUBSET Thread /\ F \in SUBSET Thread
      /\ F' \in SUBSET Thread /\ G \in SUBSET Thread /\ G' \in SUBSET Thread
      /\ H \in SUBSET Thread /\ H' \in SUBSET Thread
  OBVIOUS
<1>1. InHands(s) = Marked(E, "dispatch", F, "next", G, "launch", H, "release")
  BY DEF InHands, Marked
<1>2. InHands(s)' = Marked(E', "dispatch", F', "next", G', "launch", H', "release")
  BY DEF InHands, Marked
<1>3. /\ Cardinality(E) \in Nat /\ Cardinality(F) \in Nat
      /\ Cardinality(G) \in Nat /\ Cardinality(H) \in Nat
  BY FiniteThreads
<1>4. \A x \in Thread \ {t} : /\ x \in E <=> x \in E'
                              /\ x \in F <=> x \in F'
                              /\ x \in G <=> x \in G'
                              /\ x \in H <=> x \in H'
  BY DEF Only
<1>5. /\ Cardinality(E') = Cardinality(E) + One(t \in E') - One(t \in E)
      /\ Cardinality(F') = Cardinality(F) + One(t \in F') - One(t \in F)
      /\ Cardinality(G') = Cardinality(G) + One(t \in G') - One(t \in G)
      /\ Cardinality(H') = Cardinality(H) + One(t \in H') - One(t \in H)
  BY <1>0, <1>4, CountMoves
<1>6. /\ Cardinality(E) >= One(t \in E) /\ Cardinality(F) >= One(t \in F)
      /\ Cardinality(G) >= One(t \in G) /\ Cardinality(H) >= One(t \in H)
  <2>1. ASSUME NEW S \in SUBSET Thread
        PROVE  Cardinality(S) >= One(t \in S)
    <3>1. Cardinality(S \ {t}) = Cardinality(S) + One(t \in S \ {t}) - One(t \in S)
      BY CountMoves
    <3> QED
      BY <3>1, FiniteThreads DEF One
  <2> QED
    BY <2>1
<1>7. /\ Carried(t, s) = One(t \in E) + One(t \in F) + One(t \in G) + One(t \in H)
      /\ Carried(t, s)' = One(t \in E') + One(t \in F') + One(t \in G') + One(t \in H')
  BY DEF Carried, One
<1>8. /\ One(t \in E) \in Nat /\ One(t \in F) \in Nat /\ One(t \in G) \in Nat
      /\ One(t \in H) \in Nat /\ One(t \in E') \in Nat /\ One(t \in F') \in Nat
      /\ One(t \in G') \in Nat /\ One(t \in H') \in Nat
  BY DEF One
<1> HIDE DEF E, F, G, H
<1>9. Cardinality(InHands(s)) = Cardinality(E) + Cardinality(F) + Cardinality(G) + Cardinality(H)
  BY <1>0, <1>1, FourKinds
<1>10. Cardinality(InHands(s)')
           = Cardinality(E') + Cardinality(F') + Cardinality(G') + Cardinality(H')
  BY <1>0, <1>2, FourKinds
<1>11. Cardinality(InHands(s)) \in Nat /\ Carried(t, s) \in Nat /\ Carried(t, s)' \in Nat
  BY <1>3, <1>7, <1>8, <1>9
<1>12. Cardinality(InHands(s)) >= Carried(t, s)
  BY <1>3, <1>6, <1>7, <1>8, <1>9
<1>13. Cardinality(InHands(s)') = Cardinality(InHands(s)) + Carried(t, s)' - Carried(t, s)
  BY <1>3, <1>5, <1>7, <1>8, <1>9, <1>10
<1> QED
  BY <1>11, <1>12, <1>13

(* The positions of s in a list                                            *)
Places(g, s) == {k \in DOMAIN g : g[k] = s}

(* A service is listed finitely often.                                     *)
LEMMA PlacesFinite ==
    ASSUME NEW g \in Seq(Service), NEW s
    PROVE  IsFiniteSet(Places(g, s)) /\ Cardinality(Places(g, s)) \in Nat
<1>1. IsFiniteSet(DOMAIN g)
  BY FS_Interval DEF Places
<1>2. Places(g, s) \in SUBSET (DOMAIN g)
  BY DEF Places
<1> QED
  BY <1>1, <1>2, FS_Subset, FS_CardinalityType

(* A service at the end of the list is listed once more.                   *)
LEMMA PlacesAppend ==
    ASSUME NEW g \in Seq(Service), NEW x \in Service, NEW s
    PROVE  Cardinality(Places(Append(g, x), s)) = Cardinality(Places(g, s)) + One(x = s)
<1> DEFINE h == Append(g, x)
           e == Len(g) + 1
<1>1. /\ Len(h) = e /\ h[e] = x /\ e \notin DOMAIN g /\ DOMAIN h = DOMAIN g \cup {e}
      /\ \A k \in DOMAIN g : h[k] = g[k]
  OBVIOUS
<1>2. Places(h, s) = IF x = s THEN Places(g, s) \cup {e} ELSE Places(g, s)
  BY <1>1 DEF Places
<1>3. e \notin Places(g, s)
  BY <1>1 DEF Places
<1>4. IsFiniteSet(Places(g, s)) /\ Cardinality(Places(g, s)) \in Nat
  BY PlacesFinite
<1>5. Cardinality(Places(g, s) \cup {e}) = Cardinality(Places(g, s)) + 1
  BY <1>3, <1>4, FS_AddElement
<1> QED
  BY <1>2, <1>4, <1>5 DEF One

(* The list without its head: the others move up by one.                   *)
LEMMA PlacesTail ==
    ASSUME NEW g \in Seq(Service), g # <<>>, NEW s
    PROVE  /\ Cardinality(Places(Tail(g), s)) = Cardinality(Places(g, s)) - One(Head(g) = s)
           /\ Cardinality(Places(g, s)) >= One(Head(g) = s)
<1> DEFINE h == Tail(g)
           R == Places(g, s) \ {1}
           f == [k \in Places(h, s) |-> k + 1]
<1>1. /\ h \in Seq(Service) /\ Len(h) = Len(g) - 1 /\ Len(g) \in Nat \ {0}
      /\ \A k \in 1..Len(h) : h[k] = g[k + 1]
      /\ Head(g) = g[1] /\ DOMAIN g = 1..Len(g) /\ DOMAIN h = 1..Len(h)
  OBVIOUS
<1>2. f \in Bijection(Places(h, s), R)
  <2>1. f \in [Places(h, s) -> R]
    BY <1>1 DEF Places
  <2>2. \A x, y \in Places(h, s) : f[x] = f[y] => x = y
    BY <1>1 DEF Places
  <2>3. \A y \in R : \E x \in Places(h, s) : f[x] = y
    <3>1. ASSUME NEW y \in R
          PROVE  y - 1 \in Places(h, s) /\ f[y - 1] = y
      BY <1>1 DEF Places
    <3> QED
      BY <3>1
  <2> QED
    BY <2>1, <2>2, <2>3 DEF Bijection, Injection, Surjection, IsInjective
<1>3. Cardinality(R) = Cardinality(Places(h, s))
  <2>1. IsFiniteSet(Places(h, s))
    BY <1>1, PlacesFinite
  <2>2. ExistsBijection(Places(h, s), R)
    BY <1>2 DEF ExistsBijection
  <2> QED
    BY <2>1, <2>2, FS_Bijection
<1>4. 1 \in Places(g, s) <=> Head(g) = s
  BY <1>1 DEF Places
<1>5. Cardinality(R) = Cardinality(Places(g, s)) - One(Head(g) = s)
  <2>1. IsFiniteSet(Places(g, s)) /\ Cardinality(Places(g, s)) \in Nat
    BY PlacesFinite
  <2>2. Cardinality(R) = IF 1 \in Places(g, s) THEN Cardinality(Places(g, s)) - 1
                                               ELSE Cardinality(Places(g, s))
    BY <2>1, FS_RemoveElement
  <2> QED
    BY <1>4, <2>1, <2>2 DEF One
<1>6. Cardinality(R) \in Nat
  BY <1>1, <1>3, PlacesFinite
<1> QED
  BY <1>3, <1>5, <1>6, PlacesFinite DEF One
-----------------------------------------------------------------------------
(* The count of s moves with the references t takes or gives back and with *)
(* that of the handle table.                                               *)
RefMoves(t, s) ==
    ref'[s] + Held(t, s) + One(s \in registered)
        = ref[s] + Held(t, s)' + One(s \in registered')

(* Most steps neither begin nor go on with a deletion, and take references *)
(* only of what is referenced already.                                     *)
Quiet(t) ==
    /\ \A s \in Service : RefMoves(t, s) /\ (ref'[s] = ref[s] \/ ref[s] > 0)
    /\ UNCHANGED <<context, release>>
    /\ pc[t] \notin {"mark", "free"} /\ pc'[t] \notin {"mark", "free"}

(* The count of references in hand and in the table is right after a step. *)
LEMMA CountFollows ==
    ASSUME TypeOK, TypeOK', NEW t \in Thread, Only(t), NEW s \in Service, RefInv(s), RefMoves(t, s)
    PROVE  /\ ref'[s] = Cardinality(Holders(s))' + One(s \in registered')
           /\ ref[s] \in Nat /\ ref'[s] \in Nat
           /\ ref[s] >= Held(t, s) + One(s \in registered)
<1>1. /\ Cardinality(Holders(s)) \in Nat
      /\ Cardinality(Holders(s))' = Cardinality(Holders(s)) + Held(t, s)' - Held(t, s)
      /\ Held(t, s) \in Nat /\ Held(t, s)' \in Nat
      /\ Cardinality(Holders(s)) >= Held(t, s)
  BY HoldersMove
<1>2. One(s \in registered) \in {0, 1} /\ One(s \in registered') \in {0, 1}
  BY DEF One
<1>3. ref[s] = Cardinality(Holders(s)) + One(s \in registered)
  BY DEF RefInv
<1>4. ref[s] \in Int /\ ref'[s] \in Int
  BY DEF TypeOK
<1> QED
  BY <1>1, <1>2, <1>3, <1>4 DEF RefMoves

(* A quiet step keeps the references counted.                              *)
LEMMA QuietKeepsRefs ==
    ASSUME TypeOK, TypeOK', NEW t \in Thread, Only(t), Quiet(t), NEW s \in Service, RefInv(s)
    PROVE  RefInv(s)'
<1>1. /\ RefMoves(t, s) /\ (ref'[s] = ref[s] \/ ref[s] > 0)
      /\ context'[s] = context[s] /\ release'[s] = release[s]
  BY DEF Quiet
<1>2. /\ ref'[s] = Cardinality(Holders(s))' + One(s \in registered')
      /\ ref[s] \in Nat /\ ref'[s] \in Nat
  BY <1>1, CountFollows
<1>3. \A x \in Thread : Deletes(x, s)' <=> Deletes(x, s)
  BY DEF Quiet, Only, Deletes
<1>4. \A x \in Thread : Deletes(x, s) => pc'[x] = pc[x]
  BY DEF Quiet, Only, Deletes
<1> QED
  BY <1>1, <1>2, <1>3, <1>4 DEF RefInv

(* Which steps are quiet                                                   *)
LEMMA QuietSteps ==
    ASSUME IInv, NEW t \in Thread, ArgsOK(t),
           \/ Fetch(t) \/ Grab(t) \/ MqPopMessage(t) \/ MqPopEmpty(t) \/ MqLen(t)
           \/ Return(t) \/ Swap(t) \/ Requeue(t) \/ SendGrab(t) \/ SendPush(t)
           \/ Put(t) /\ ref[put[t]] # 1
           \/ Retire(t) \/ InitOk(t) \/ InitFail(t) \/ Ready(t) \/ Publish(t)
           \/ MqRelease(t) \/ Drop(t) \/ DropEmpty(t)
           \/ \E d \in Known : Send(t, d) \/ SendExternal(t, d) \/ Kill(t, d)
    PROVE  Quiet(t)
<1>1. \A s \in Service : ref[s] \in Nat /\ (s \in registered => ref[s] > 0)
  BY HoldersCounted DEF IInv, RefInv, One
<1>2. /\ ServiceTypes /\ LabelTypes /\ HandTypes /\ ThreadInv(t) /\ ArgsOK(t)
      /\ NoService \notin Service
  BY TypesByGroup, DispatchAssumption DEF IInv
<1> USE <1>1, <1>2
    DEF ServiceTypes, LabelTypes, HandTypes, ThreadInv, ArgsOK, At, InSend, InPut,
        Quiet, RefMoves, Held, One, Dispatching, Sending, Releasing, Launching, GivingBack,
        Goto, PutBack, EndPut, StartSend, EndSend, EndBatch,
        services, queues, loop, sending, putting
<1>3. CASE Fetch(t)
  BY <1>3 DEF Fetch
<1>4. CASE Grab(t)
  BY <1>4 DEF Grab
<1>5. CASE MqPopMessage(t)
  BY <1>5 DEF MqPopMessage
<1>6. CASE MqPopEmpty(t)
  BY <1>6 DEF MqPopEmpty
<1>7. CASE MqLen(t)
  BY <1>7 DEF MqLen
<1>8. CASE Return(t)
  BY <1>8 DEF Return
<1>9. CASE Swap(t)
  BY <1>9 DEF Swap
<1>10. CASE Requeue(t)
  BY <1>10 DEF Requeue
<1>11. CASE SendGrab(t)
  BY <1>11 DEF SendGrab
<1>12. CASE SendPush(t)
  BY <1>12 DEF SendPush
<1>13. CASE Put(t) /\ ref[put[t]] # 1
  <2>1. Only(t) /\ put[t] \in Service
    BY <1>13, StepIsLocal DEF IInv, Step, Put
  <2>2. Held(t, put[t]) >= 1
    BY <1>13, <2>1 DEF Put
  <2>3. ref[put[t]] > 0
    <3> HIDE DEF Held, One
    <3>1. ref[put[t]] = Cardinality(Holders(put[t])) + One(put[t] \in registered)
      BY <2>1 DEF IInv, RefInv
    <3>2. One(put[t] \in registered) >= 0 /\ One(put[t] \in registered) \in Nat
      BY DEF One
    <3> QED
      BY <2>1, <2>2, <3>1, <3>2, HoldersMove
  <2> QED
    BY <1>13, <2>1, <2>3 DEF Put
<1>14. CASE Retire(t)
  BY <1>14 DEF Retire, AfterRetire, Home
<1>15. CASE InitOk(t)
  BY <1>15 DEF InitOk
<1>16. CASE InitFail(t)
  BY <1>16 DEF InitFail
<1>17. CASE Ready(t)
  BY <1>17 DEF Ready
<1>18. CASE Publish(t)
  BY <1>18 DEF Publish
<1>19. CASE MqRelease(t)
  BY <1>19 DEF MqRelease, AfterRelease
<1>20. CASE Drop(t)
  BY <1>20 DEF Drop
<1>21. CASE DropEmpty(t)
  BY <1>21 DEF DropEmpty, AfterRelease
<1>22. ASSUME NEW d \in Known, Send(t, d) \/ SendExternal(t, d) \/ Kill(t, d)
       PROVE  Quiet(t)
  BY <1>22 DEF Send, SendExternal, Kill, InCallback, Home
<1> QED
  BY <1>3, <1>4, <1>5, <1>6, <1>7, <1>8, <1>9, <1>10, <1>11, <1>12, <1>13, <1>14, <1>15, <1>16, <1>17, <1>18, <1>19, <1>20, <1>21, <1>22

(* What the invariant says of the thread that moves.                       *)
LEMMA StepFacts ==
    ASSUME IInv, NEW t \in Thread, Step(t) \/ Call(t)
    PROVE  /\ ServiceTypes /\ QueueTypes /\ LabelTypes /\ HandTypes /\ LetterTypes
           /\ TypeOK /\ TypeOK' /\ ServiceTypes' /\ QueueTypes' /\ HandTypes' /\ LetterTypes'
           /\ ThreadInv(t) /\ ThreadInv(t)' /\ ArgsOK(t) /\ Only(t)
           /\ NoService \notin Service
           /\ \A s \in Service : RefInv(s) /\ ref[s] \in Nat
<1>1. TypeOK /\ (\A x \in Thread : ThreadInv(x)) /\ \A s \in Service : RefInv(s)
  BY DEF IInv
<1>2. /\ ServiceTypes /\ QueueTypes /\ LabelTypes /\ HandTypes /\ LetterTypes
      /\ NoService \notin Service
  BY <1>1, TypesByGroup, DispatchAssumption
<1>3. ArgsOK(t) /\ Only(t) /\ TypeOK'
  BY <1>1, <1>2, ArgsTyped, StepIsLocal, StepKeepsTypes
<1>4. ThreadInv(t)'
  BY <1>1, StepKeepsThreads
<1>5. \A s \in Service : ref[s] \in Nat
  BY <1>1, HoldersCounted DEF RefInv, One
<1> QED
  BY <1>1, <1>2, <1>3, <1>4, <1>5, TypesByGroup

(* The last reference goes: whoever gave it back deletes the context.      *)
LEMMA LastPutKeepsRefs ==
    ASSUME IInv, NEW t \in Thread, Put(t), ref[put[t]] = 1, NEW s \in Service
    PROVE  RefInv(s)'
<1> DEFINE p == put[t]
<1>0. Step(t)
  BY DEF Step
<1>1. /\ ServiceTypes /\ LabelTypes /\ HandTypes /\ TypeOK /\ TypeOK' /\ ArgsOK(t) /\ Only(t)
      /\ RefInv(s) /\ RefInv(p) /\ p \in Service /\ NoService \notin Service
  BY <1>0, StepFacts DEF Put, ArgsOK, InPut
<1>2. RefMoves(t, s)
  <2>1. /\ pc[t] = "put" /\ pc'[t] = "mark"
        /\ after'[t] = IF after[t] = "ready" THEN "publish" ELSE after[t]
        /\ ref'[s] = IF s = p THEN ref[s] - 1 ELSE ref[s]
        /\ UNCHANGED <<q, born, put, registered>>
    BY <1>1 DEF Put, Goto, ServiceTypes, LabelTypes, loop
  <2> QED
    BY <1>1, <2>1 DEF RefMoves, Held, One, Dispatching, Sending, Releasing, Launching,
              GivingBack, ServiceTypes
<1>3. /\ ref'[s] = Cardinality(Holders(s))' + One(s \in registered')
      /\ ref[s] \in Nat /\ ref'[s] \in Nat
  BY <1>1, <1>2, CountFollows
<1>4. /\ pc[t] = "put" /\ pc'[t] = "mark" /\ put' = put
      /\ ref'[s] = IF s = p THEN 0 ELSE ref[s]
      /\ context' = context /\ release' = release
  BY <1>1 DEF Put, Goto, ServiceTypes, LabelTypes, services, queues
<1>5. \A x \in Thread : Deletes(x, s)' <=> Deletes(x, s) \/ (x = t /\ s = p)
  BY <1>4, <1>1 DEF Deletes, Only
<1>6. \A x \in Thread : Deletes(x, s) => pc'[x] = pc[x] /\ x # t
  BY <1>4, <1>1 DEF Deletes, Only
<1>7. CASE s = p
  <2>1. ref[s] = 1 /\ ref'[s] = 0
    BY <1>4, <1>7
  <2>2. /\ context[s] = "alive" /\ release[s] # 1 /\ context[s] # "freed"
        /\ \A x \in Thread : ~Deletes(x, s)
    BY <1>1, <2>1 DEF RefInv
  <2> QED
    BY <1>3, <1>4, <1>5, <1>7, <2>1, <2>2 DEF RefInv
<1>8. CASE s # p
  BY <1>1, <1>3, <1>4, <1>5, <1>6, <1>8 DEF RefInv
<1> QED
  BY <1>7, <1>8

(* It marks the queue, and then the context is gone.                       *)
LEMMA MarkKeepsRefs ==
    ASSUME IInv, NEW t \in Thread, Mark(t), NEW s \in Service
    PROVE  RefInv(s)'
<1> DEFINE p == put[t]
<1>0. Step(t)
  BY DEF Step
<1>1. /\ QueueTypes /\ LabelTypes /\ HandTypes /\ TypeOK /\ TypeOK' /\ ArgsOK(t) /\ Only(t)
      /\ RefInv(s) /\ p \in Service
  BY <1>0, StepFacts DEF Mark, ArgsOK, InPut
<1>2. RefMoves(t, s)
  BY <1>1 DEF Mark, Goto, RefMoves, Held, One, Dispatching, Sending, Releasing, Launching,
              GivingBack, LabelTypes, services, loop, sending, putting
<1>3. /\ ref'[s] = Cardinality(Holders(s))' + One(s \in registered')
      /\ ref'[s] = ref[s]
  BY <1>1, <1>2, CountFollows DEF Mark, services
<1>4. /\ pc[t] = "mark" /\ pc'[t] = "free" /\ put' = put /\ context' = context
      /\ release'[s] = IF s = p THEN 1 ELSE release[s]
  BY <1>1 DEF Mark, Goto, QueueTypes, LabelTypes, services, putting
<1>5. \A x \in Thread : Deletes(x, s)' <=> Deletes(x, s)
  BY <1>4, <1>1 DEF Deletes, Only
<1>6. \A x \in Thread : Deletes(x, s) => (x = t <=> s = p) /\ (x # t => pc'[x] = pc[x])
  BY <1>4, <1>1 DEF Deletes, Only, RefInv
<1>7. s = p => Deletes(t, s)
  BY <1>4 DEF Deletes
<1> QED
  BY <1>1, <1>3, <1>4, <1>5, <1>6, <1>7 DEF RefInv

(* The memory of a marked context is freed.                                *)
LEMMA FreeKeepsRefs ==
    ASSUME IInv, NEW t \in Thread, Free(t), NEW s \in Service
    PROVE  RefInv(s)'
<1> DEFINE p == put[t]
<1>0. Step(t)
  BY DEF Step
<1>1. /\ ServiceTypes /\ LabelTypes /\ HandTypes /\ TypeOK /\ TypeOK' /\ ThreadInv(t)
      /\ ArgsOK(t) /\ Only(t) /\ RefInv(s) /\ p \in Service /\ NoService \notin Service
  BY <1>0, StepFacts DEF Free, ArgsOK, InPut
<1>2. RefMoves(t, s)
  BY <1>1 DEF Free, EndPut, Goto, RefMoves, Held, One, Dispatching, Sending, Releasing,
              Launching, GivingBack, LabelTypes, HandTypes, loop, sending, ThreadInv, InPut
<1>3. /\ ref'[s] = Cardinality(Holders(s))' + One(s \in registered')
      /\ ref'[s] = ref[s]
  BY <1>1, <1>2, CountFollows DEF Free
<1>4. /\ pc[t] = "free" /\ pc'[t] \notin {"mark", "free"} /\ release' = release
      /\ context'[s] = IF s = p THEN "freed" ELSE context[s]
  BY <1>1 DEF Free, EndPut, Goto, ServiceTypes, LabelTypes, queues, ThreadInv, InPut
<1>5. \A x \in Thread : Deletes(x, s)' <=> Deletes(x, s) /\ x # t
  BY <1>4, <1>1 DEF Deletes, Only
<1>6. \A x \in Thread : Deletes(x, s) => (x = t <=> s = p) /\ (x # t => pc'[x] = pc[x])
  BY <1>4, <1>1 DEF Deletes, Only, RefInv
<1>7. s = p => Deletes(t, s)
  BY <1>4 DEF Deletes
<1> QED
  BY <1>1, <1>3, <1>4, <1>5, <1>6, <1>7 DEF RefInv

(* A launched context starts with the launcher's reference and the table's. *)
LEMMA LaunchKeepsRefs ==
    ASSUME IInv, NEW t \in Thread, NEW b \in Service, Launch(t, b), NEW s \in Service
    PROVE  RefInv(s)'
<1>0. Call(t)
  BY DEF Call
<1>1. /\ ServiceTypes /\ LabelTypes /\ HandTypes /\ TypeOK /\ TypeOK' /\ ThreadInv(t) /\ Only(t)
      /\ RefInv(s) /\ RefInv(b) /\ ref[s] \in Nat /\ ref[b] \in Nat /\ NoService \notin Service
  BY <1>0, StepFacts
<1>2. ref[b] = 0 /\ b \notin registered /\ Held(t, b) = 0 /\ release[b] # 1
  <2>1. context[b] = "unborn" /\ ref[b] = 0
    BY <1>1 DEF Launch, RefInv
  <2>2. /\ Cardinality(Holders(b)) \in Nat /\ Held(t, b) \in Nat
        /\ Cardinality(Holders(b)) >= Held(t, b)
    BY <1>1, HoldersMove
  <2>3. ref[b] = Cardinality(Holders(b)) + One(b \in registered)
    BY <1>1 DEF RefInv
  <2>4. release[b] # 1
    BY <1>1, <2>1 DEF RefInv
  <2> QED
    BY <2>1, <2>2, <2>3, <2>4 DEF One
<1>3. pc[t] = "handler" /\ q[t] # b /\ born[t] = NoService
  BY <1>1, <1>2 DEF Launch, Held, One, Dispatching, Sending, Releasing, Launching,
                    GivingBack, ThreadInv, At, InSend, InPut
<1>4. RefMoves(t, s)
  BY <1>1, <1>2, <1>3 DEF Launch, Goto, RefMoves, Held, One, Dispatching, Sending, Releasing,
         Launching, GivingBack, ServiceTypes, LabelTypes, HandTypes, loop, sending, putting
<1>5. ref'[s] = Cardinality(Holders(s))' + One(s \in registered')
  BY <1>1, <1>4, CountFollows
<1>6. /\ ref'[s] = IF s = b THEN 2 ELSE ref[s]
      /\ context'[s] = IF s = b THEN "alive" ELSE context[s]
      /\ release' = release /\ context[b] = "unborn"
      /\ pc'[t] = "init"
  BY <1>1 DEF Launch, Goto, ServiceTypes, LabelTypes
<1>7. \A x \in Thread : /\ Deletes(x, s)' <=> Deletes(x, s)
                        /\ Deletes(x, s) => pc'[x] = pc[x] /\ s # b
  BY <1>1, <1>3, <1>6 DEF Deletes, Only, RefInv, Launch, putting
<1> QED
  BY <1>1, <1>2, <1>5, <1>6, <1>7 DEF RefInv

(* So every step keeps the references counted.                             *)
LEMMA StepKeepsRefs ==
    ASSUME IInv, NEW t \in Thread, Step(t) \/ Call(t), NEW s \in Service
    PROVE  RefInv(s)'
<1>1. ArgsOK(t) /\ TypeOK /\ TypeOK' /\ Only(t) /\ RefInv(s)
  BY StepFacts
<1>2. CASE Quiet(t)
  BY <1>1, <1>2, QuietKeepsRefs
<1>3. CASE (Put(t) /\ ref[put[t]] = 1) \/ Mark(t) \/ Free(t)
  BY <1>3, LastPutKeepsRefs, MarkKeepsRefs, FreeKeepsRefs
<1>4. CASE \E b \in Service : Launch(t, b)
  BY <1>4, LaunchKeepsRefs
<1> QED
  BY <1>1, <1>2, <1>3, <1>4, QuietSteps DEF Step, Call
-----------------------------------------------------------------------------
(* How the places on the global list change                                *)
LEMMA ListedMoves ==
    ASSUME QueueTypes, NEW s \in Service
    PROVE  /\ Cardinality(Listed(s)) \in Nat
           /\ globalmq' = globalmq => Cardinality(Listed(s))' = Cardinality(Listed(s))
           /\ \A x \in Service : globalmq' = Append(globalmq, x) =>
                  Cardinality(Listed(s))' = Cardinality(Listed(s)) + One(x = s)
           /\ globalmq # <<>> /\ globalmq' = Tail(globalmq) =>
                  /\ Cardinality(Listed(s))' = Cardinality(Listed(s)) - One(Head(globalmq) = s)
                  /\ Cardinality(Listed(s)) >= One(Head(globalmq) = s)
<1>1. Listed(s) = Places(globalmq, s) /\ Listed(s)' = Places(globalmq', s)
  BY DEF Listed, Places
<1>2. globalmq \in Seq(Service)
  BY DEF QueueTypes
<1>3. Cardinality(Listed(s)) \in Nat
  BY <1>1, <1>2, PlacesFinite
<1>4. \A x \in Service : globalmq' = Append(globalmq, x) =>
          Cardinality(Listed(s))' = Cardinality(Listed(s)) + One(x = s)
  BY <1>1, <1>2, PlacesAppend
<1>5. globalmq # <<>> /\ globalmq' = Tail(globalmq) =>
          /\ Cardinality(Listed(s))' = Cardinality(Listed(s)) - One(Head(globalmq) = s)
          /\ Cardinality(Listed(s)) >= One(Head(globalmq) = s)
  BY <1>1, <1>2, PlacesTail
<1> QED
  BY <1>1, <1>3, <1>4, <1>5

(* The places of s, on the list and in hands                               *)
PlacesOf(s) == Cardinality(Listed(s)) + Cardinality(InHands(s))

(* What t puts on the list leaves its hands, and the other way round.      *)
PlaceKept(t, s) ==
    Cardinality(Listed(s))' + Carried(t, s)' = Cardinality(Listed(s)) + Carried(t, s)

(* Most steps only move queues about and take messages out of them.        *)
Still(t) ==
    /\ \A s \in Service : /\ PlaceKept(t, s)
                          /\ context'[s] = "unborn" <=> context[s] = "unborn"
                          /\ messages'[s] = messages[s] \/ messages[s] # <<>>
    /\ UNCHANGED <<queue, in_global, release>>

(* A step that only moves queues about keeps them in one place.            *)
LEMMA StillKeepsPlaces ==
    ASSUME TypeOK, TypeOK', NEW t \in Thread, Only(t), NEW s \in Service, PlaceInv(s), Still(t)
    PROVE  PlaceInv(s)'
<1>1. /\ Cardinality(InHands(s))' = Cardinality(InHands(s)) + Carried(t, s)' - Carried(t, s)
      /\ Cardinality(InHands(s)) \in Nat /\ Carried(t, s) \in Nat /\ Carried(t, s)' \in Nat
  BY HandsMove
<1>2. Cardinality(Listed(s)) \in Nat /\ Cardinality(Listed(s))' \in Nat
  <2>1. Listed(s)' = Places(globalmq', s) /\ globalmq' \in Seq(Service)
    BY DEF Listed, Places, TypeOK
  <2> QED
    BY <2>1, ListedMoves, TypesByGroup, PlacesFinite
<1>3. Cardinality(Listed(s))' + Cardinality(InHands(s))'
          = Cardinality(Listed(s)) + Cardinality(InHands(s))
  BY <1>1, <1>2 DEF Still, PlaceKept
<1> QED
  BY <1>3 DEF PlaceInv, Still

(* Which steps only move queues about                                      *)
LEMMA StillSteps ==
    ASSUME IInv, NEW t \in Thread,
           \/ Fetch(t) \/ Grab(t) \/ MqPopMessage(t) \/ MqLen(t) \/ Return(t)
           \/ Swap(t) \/ Requeue(t) \/ SendGrab(t) \/ Put(t) \/ Free(t)
           \/ Retire(t) \/ InitOk(t) \/ InitFail(t) \/ Ready(t) \/ Publish(t)
           \/ MqRelease(t) \/ Drop(t)
           \/ \E d \in Known : Send(t, d) \/ SendExternal(t, d) \/ Kill(t, d)
    PROVE  Still(t)
<1>0. Step(t) \/ Call(t)
  BY DEF Step, Call
<1>1. /\ ServiceTypes /\ QueueTypes /\ LabelTypes /\ HandTypes /\ ThreadInv(t) /\ ArgsOK(t)
      /\ NoService \notin Service
      /\ \A s \in Service : \A x \in Thread : Deletes(x, s) => context[s] = "alive"
  BY <1>0, StepFacts DEF RefInv
<1>2. ASSUME NEW s \in Service
      PROVE  /\ Cardinality(Listed(s)) \in Nat
             /\ globalmq' = globalmq => Cardinality(Listed(s))' = Cardinality(Listed(s))
             /\ \A x \in Service : globalmq' = Append(globalmq, x) =>
                  Cardinality(Listed(s))' = Cardinality(Listed(s)) + One(x = s)
             /\ globalmq # <<>> /\ globalmq' = Tail(globalmq) =>
                  /\ Cardinality(Listed(s))' = Cardinality(Listed(s)) - One(Head(globalmq) = s)
                  /\ Cardinality(Listed(s)) >= One(Head(globalmq) = s)
  BY <1>1, ListedMoves
<1> USE <1>1, <1>2
    DEF HandTypes, MaybeService, ThreadInv, ArgsOK, At, InSend, InPut,
        Still, PlaceKept, Carried, One, Goto, PutBack, EndPut, StartSend, EndSend, GlobalPush,
        services, queues, loop, sending, putting
<1>3. CASE Fetch(t)
  BY <1>3 DEF Fetch, QueueTypes
<1>4. CASE Grab(t)
  BY <1>4 DEF Grab
<1>5. CASE MqPopMessage(t)
  BY <1>5 DEF MqPopMessage, QueueTypes
<1>6. CASE MqLen(t) \/ Return(t)
  BY <1>6 DEF MqLen, Return
<1>7. CASE Swap(t)
  <2>1. CASE globalmq = <<>>
    BY <1>7, <2>1 DEF Swap
  <2>2. CASE globalmq # <<>>
    <3>1. /\ globalmq' = Tail(globalmq) /\ nq'[t] = Head(globalmq) /\ nq[t] = NoService
          /\ Head(globalmq) \in Service
          /\ UNCHANGED <<q, born, dead, context, messages, queue, in_global, release>>
      BY <1>7, <2>2 DEF Swap, QueueTypes
    <3> QED
      BY <2>2, <3>1
  <2> QED
    BY <2>1, <2>2
<1>8. CASE Requeue(t)
  <2>1. /\ globalmq' = Append(globalmq, q[t]) /\ q[t] \in Service
        /\ q'[t] = nq[t] /\ nq'[t] = NoService
        /\ UNCHANGED <<born, dead, context, messages, queue, in_global, release>>
    BY <1>8 DEF Requeue
  <2> QED
    BY <2>1
<1>9. CASE SendGrab(t) \/ Put(t)
  BY <1>9 DEF SendGrab, Put
<1>10. CASE Free(t)
  BY <1>10 DEF Free, Deletes, ServiceTypes
<1>11. CASE Retire(t) \/ InitOk(t) \/ Ready(t)
  BY <1>11 DEF Retire, InitOk, Ready
<1>12. CASE InitFail(t)
  BY <1>12 DEF InitFail
<1>13. CASE Publish(t)
  <2>1. /\ globalmq' = Append(globalmq, born[t]) /\ born[t] \in Service
        /\ born'[t] = NoService
        /\ UNCHANGED <<q, nq, dead, context, messages, queue, in_global, release>>
    BY <1>13 DEF Publish
  <2>2. ASSUME NEW s \in Service
        PROVE  Cardinality(Listed(s))' = Cardinality(Listed(s)) + One(born[t] = s)
    BY <2>1, <1>2, Zenon
  <2>3. born[t] # NoService
    BY <2>1
  <2> HIDE DEF ThreadInv, ArgsOK
  <2> QED
    BY <2>1, <2>2, <2>3
<1>14. CASE MqRelease(t)
  BY <1>14 DEF MqRelease
<1>15. CASE Drop(t)
  BY <1>15 DEF Drop, QueueTypes
<1>16. ASSUME NEW d \in Known, Send(t, d) \/ SendExternal(t, d) \/ Kill(t, d)
       PROVE  Still(t)
  BY <1>16 DEF Send, SendExternal, Kill
<1> QED
  BY <1>3, <1>4, <1>5, <1>6, <1>7, <1>8, <1>9, <1>10, <1>11, <1>12, <1>13, <1>14,
     <1>15, <1>16

(* How the places of s change                                              *)
LEMMA PlacesMove ==
    ASSUME IInv, NEW t \in Thread, Step(t) \/ Call(t), NEW s \in Service
    PROVE  /\ Cardinality(InHands(s)) \in Nat /\ Cardinality(InHands(s))' \in Nat
           /\ Cardinality(Listed(s)) \in Nat /\ Cardinality(Listed(s))' \in Nat
           /\ Carried(t, s) \in Nat /\ Carried(t, s)' \in Nat
           /\ Cardinality(InHands(s)) >= Carried(t, s)
           /\ Cardinality(InHands(s))' = Cardinality(InHands(s)) + Carried(t, s)' - Carried(t, s)
<1>1. Only(t) /\ QueueTypes /\ QueueTypes'
  BY StepFacts
<1>2. /\ Cardinality(InHands(s)) \in Nat /\ Carried(t, s) \in Nat /\ Carried(t, s)' \in Nat
      /\ Cardinality(InHands(s)) >= Carried(t, s)
      /\ Cardinality(InHands(s))' = Cardinality(InHands(s)) + Carried(t, s)' - Carried(t, s)
  BY <1>1, HandsMove
<1>3. Cardinality(Listed(s)) \in Nat /\ Cardinality(Listed(s))' \in Nat
  <2>1. /\ Listed(s) = Places(globalmq, s) /\ globalmq \in Seq(Service)
        /\ Listed(s)' = Places(globalmq', s) /\ globalmq' \in Seq(Service)
    BY <1>1 DEF Listed, Places, QueueTypes
  <2> QED
    BY <2>1, PlacesFinite
<1>4. Cardinality(InHands(s))' \in Nat
  BY <1>2
<1> QED
  BY <1>2, <1>3, <1>4

(* Who has a reference of s in hand finds its queue alive and unmarked.    *)
LEMMA HeldIsAlive ==
    ASSUME IInv, NEW t \in Thread, Step(t) \/ Call(t), NEW s \in Service, Held(t, s) >= 1
    PROVE  /\ ref[s] > 0 /\ context[s] = "alive" /\ release[s] = 0 /\ queue[s] = "alive"
           /\ \A x \in Thread : ~Deletes(x, s)
<1>1. Only(t) /\ QueueTypes /\ ServiceTypes /\ RefInv(s) /\ ref[s] \in Nat
  BY StepFacts
<1>2. Cardinality(Holders(s)) \in Nat /\ Cardinality(Holders(s)) >= 1
  BY <1>1, HoldersMove
<1>3. ref[s] > 0
  BY <1>1, <1>2 DEF RefInv, One
<1>4. PlaceInv(s)
  BY DEF IInv
<1> QED
  BY <1>1, <1>3, <1>4 DEF RefInv, PlaceInv, QueueTypes

(* A queue found empty is parked: it leaves the worker's hands for nowhere. *)
LEMMA PopEmptyKeepsPlaces ==
    ASSUME IInv, NEW t \in Thread, MqPopEmpty(t), NEW s \in Service
    PROVE  PlaceInv(s)'
<1> DEFINE p == q[t]
<1>0. Step(t)
  BY DEF Step
<1>1. /\ QueueTypes /\ HandTypes /\ ThreadInv(t) /\ ArgsOK(t) /\ PlaceInv(s)
      /\ NoService \notin Service /\ p \in Service
  BY <1>0, StepFacts DEF IInv, ArgsOK, MqPopEmpty
<1>2. Held(t, p) >= 1
  BY <1>1 DEF MqPopEmpty, Held, One, Dispatching, GivingBack
<1>3. release[p] = 0 /\ queue[p] = "alive"
  BY <1>0, <1>1, <1>2, HeldIsAlive
<1>4. /\ q'[t] = NoService /\ in_global'[s] = IF s = p THEN 0 ELSE in_global[s]
      /\ messages[p] = <<>>
      /\ UNCHANGED <<nq, born, dead, context, queue, release, messages, globalmq>>
  BY <1>1 DEF MqPopEmpty, QueueTypes, HandTypes, services
<1>5. /\ Carried(t, s)' = Carried(t, s) - One(s = p)
      /\ Carried(t, s) >= One(s = p)
  BY <1>1, <1>4 DEF Carried, One
<1>6. Cardinality(Listed(s))' = Cardinality(Listed(s))
  BY <1>1, <1>4, ListedMoves
<1>7. CASE s = p
  <2>1. Cardinality(Listed(s)) + Cardinality(InHands(s)) \in {0, 1}
    BY <1>1 DEF PlaceInv, One
  <2>2. Cardinality(Listed(s))' + Cardinality(InHands(s))' = 0
    BY <1>0, <1>5, <1>6, <1>7, <2>1, PlacesMove DEF One
  <2>3. /\ queue'[s] = "alive" /\ in_global'[s] = 0 /\ release'[s] = 0
        /\ messages'[s] = <<>> /\ context'[s] = context[s] /\ queue[s] = "alive"
    BY <1>3, <1>4, <1>7
  <2> QED
    BY <1>1, <2>2, <2>3 DEF PlaceInv, One
<1>8. CASE s # p
  <2>1. Cardinality(Listed(s))' + Cardinality(InHands(s))'
            = Cardinality(Listed(s)) + Cardinality(InHands(s))
    BY <1>0, <1>5, <1>6, <1>8, PlacesMove DEF One
  <2> QED
    BY <1>1, <1>4, <1>8, <2>1 DEF PlaceInv
<1> QED
  BY <1>7, <1>8

(* A message for a parked queue announces it.                              *)
LEMMA SendPushKeepsPlaces ==
    ASSUME IInv, NEW t \in Thread, SendPush(t), NEW s \in Service
    PROVE  PlaceInv(s)'
<1> DEFINE p == target[t]
<1>0. Step(t)
  BY DEF Step
<1>1. /\ QueueTypes /\ HandTypes /\ ThreadInv(t) /\ ArgsOK(t) /\ PlaceInv(s) /\ p \in Service
  BY <1>0, StepFacts DEF IInv, ArgsOK, SendPush, InSend
<1>2. Held(t, p) >= 1
  BY <1>1 DEF SendPush, Held, One, Sending
<1>3. release[p] = 0 /\ queue[p] = "alive"
  BY <1>0, <1>1, <1>2, HeldIsAlive
<1>4. /\ in_global'[s] = IF s = p THEN 1 ELSE in_global[s]
      /\ s # p => messages'[s] = messages[s]
      /\ UNCHANGED <<q, nq, born, dead, context, queue, release>>
  BY <1>1 DEF SendPush, QueueTypes, services, loop
<1>5. Carried(t, s)' = Carried(t, s)
  BY <1>4 DEF Carried
<1>6. Cardinality(Listed(s))' = Cardinality(Listed(s)) + One(s = p /\ in_global[p] = 0)
  <2>1. CASE in_global[p] = 0
    BY <1>1, <2>1, ListedMoves DEF SendPush, GlobalPush, One
  <2>2. CASE in_global[p] # 0
    <3>1. globalmq' = globalmq
      BY <2>2 DEF SendPush
    <3> QED
      BY <1>1, <2>2, <3>1, ListedMoves DEF One
  <2> QED
    BY <2>1, <2>2
<1>7. CASE s = p
  BY <1>0, <1>1, <1>3, <1>4, <1>5, <1>6, <1>7, PlacesMove DEF PlaceInv, One, QueueTypes
<1>8. CASE s # p
  BY <1>0, <1>1, <1>4, <1>5, <1>6, <1>8, PlacesMove DEF PlaceInv, One
<1> QED
  BY <1>7, <1>8

(* A parked queue whose service is deleted is listed to be released.       *)
LEMMA MarkKeepsPlaces ==
    ASSUME IInv, NEW t \in Thread, Mark(t), NEW s \in Service
    PROVE  PlaceInv(s)'
<1> DEFINE p == put[t]
<1>0. Step(t)
  BY DEF Step
<1>1. /\ QueueTypes /\ ArgsOK(t) /\ PlaceInv(s) /\ p \in Service
  BY <1>0, StepFacts DEF IInv, ArgsOK, Mark, InPut
<1>2. context[p] = "alive" /\ release[p] = 0 /\ queue[p] = "alive"
  <2>1. Deletes(t, p) /\ RefInv(p) /\ PlaceInv(p)
    BY <1>1 DEF IInv, Deletes, Mark
  <2> QED
    BY <1>1, <2>1 DEF RefInv, PlaceInv, QueueTypes, Mark
<1>3. /\ release'[s] = IF s = p THEN 1 ELSE release[s]
      /\ UNCHANGED <<q, nq, born, dead, context, queue, in_global, messages>>
  BY <1>1 DEF Mark, QueueTypes, services, loop
<1>4. Carried(t, s)' = Carried(t, s)
  BY <1>3 DEF Carried
<1>5. Cardinality(Listed(s))' = Cardinality(Listed(s)) + One(s = p /\ in_global[p] # 1)
  <2>1. CASE in_global[p] # 1
    BY <1>1, <2>1, ListedMoves DEF Mark, GlobalPush, One
  <2>2. CASE in_global[p] = 1
    <3>1. globalmq' = globalmq
      BY <2>2 DEF Mark
    <3> QED
      BY <1>1, <2>2, <3>1, ListedMoves DEF One
  <2> QED
    BY <2>1, <2>2
<1>6. CASE s = p
  BY <1>0, <1>1, <1>2, <1>3, <1>4, <1>5, <1>6, PlacesMove DEF PlaceInv, One, QueueTypes
<1>7. CASE s # p
  BY <1>0, <1>1, <1>3, <1>4, <1>5, <1>7, PlacesMove DEF PlaceInv, One
<1> QED
  BY <1>6, <1>7

(* A new queue is in its launcher's hands.                                 *)
LEMMA LaunchKeepsPlaces ==
    ASSUME IInv, NEW t \in Thread, NEW b \in Service, Launch(t, b), NEW s \in Service
    PROVE  PlaceInv(s)'
<1>0. Call(t)
  BY DEF Call
<1>1. /\ QueueTypes /\ ServiceTypes /\ HandTypes /\ ThreadInv(t) /\ NoService \notin Service
      /\ PlaceInv(s)
  BY <1>0, StepFacts DEF IInv
<1>2. /\ queue'[s] = IF s = b THEN "alive" ELSE queue[s]
      /\ context'[s] = IF s = b THEN "alive" ELSE context[s]
      /\ in_global'[s] = IF s = b THEN 1 ELSE in_global[s]
      /\ born'[t] = b /\ born[t] = NoService /\ context[b] = "unborn"
      /\ UNCHANGED <<q, nq, dead, release, messages, globalmq>>
  BY <1>1 DEF Launch, QueueTypes, ServiceTypes, HandTypes, loop, ThreadInv, At, InSend, InPut
<1>3. Carried(t, s)' = Carried(t, s) + One(s = b)
  BY <1>1, <1>2 DEF Carried, One
<1>4. Cardinality(Listed(s))' = Cardinality(Listed(s))
  BY <1>1, <1>2, ListedMoves
<1>5. Cardinality(Listed(s))' + Cardinality(InHands(s))'
          = Cardinality(Listed(s)) + Cardinality(InHands(s)) + One(s = b)
  BY <1>0, <1>3, <1>4, PlacesMove DEF One
<1>6. CASE s = b
  <2>1. queue[s] = "unborn"
    BY <1>1, <1>2, <1>6 DEF PlaceInv
  <2>2. Cardinality(Listed(s)) + Cardinality(InHands(s)) = 0
    BY <1>1, <2>1 DEF PlaceInv, One
  <2>3. Cardinality(Listed(s))' + Cardinality(InHands(s))' = 1
    BY <1>5, <1>6, <2>2 DEF One
  <2>4. /\ queue'[s] = "alive" /\ context'[s] = "alive" /\ in_global'[s] = 1
    BY <1>2, <1>6
  <2> QED
    BY <2>3, <2>4 DEF PlaceInv, One
<1>7. CASE s # b
  <2>1. Cardinality(Listed(s))' + Cardinality(InHands(s))'
            = Cardinality(Listed(s)) + Cardinality(InHands(s))
    BY <1>0, <1>5, <1>7, PlacesMove DEF One
  <2> QED
    BY <1>1, <1>2, <1>7, <2>1 DEF PlaceInv
<1> QED
  BY <1>6, <1>7

(* A queue whose messages are all bounced is freed and nowhere.            *)
LEMMA DropEmptyKeepsPlaces ==
    ASSUME IInv, NEW t \in Thread, DropEmpty(t), NEW s \in Service
    PROVE  PlaceInv(s)'
<1> DEFINE p == dead[t]
<1>0. Step(t)
  BY DEF Step
<1>1. /\ QueueTypes /\ HandTypes /\ ThreadInv(t) /\ ArgsOK(t) /\ PlaceInv(s)
      /\ NoService \notin Service /\ p \in Service
  BY <1>0, StepFacts DEF IInv, ArgsOK, DropEmpty
<1>2. release[p] = 1
  BY DEF IInv, ThreadInv, At, InSend, InPut, DropEmpty
<1>3. /\ dead'[t] = NoService
      /\ in_global'[s] = IF s = p THEN 0 ELSE in_global[s]
      /\ queue'[s] = IF s = p THEN "freed" ELSE queue[s]
      /\ UNCHANGED <<q, nq, born, context, release, messages, globalmq>>
  BY <1>1 DEF DropEmpty, QueueTypes, HandTypes, services, loop
<1>4. /\ Carried(t, s)' = Carried(t, s) - One(s = p)
      /\ Carried(t, s) >= One(s = p)
  BY <1>1, <1>3 DEF Carried, One
<1>5. Cardinality(Listed(s))' = Cardinality(Listed(s))
  BY <1>1, <1>3, ListedMoves
<1>6. CASE s = p
  <2>1. Cardinality(Listed(s)) + Cardinality(InHands(s)) \in {0, 1}
    BY <1>1 DEF PlaceInv, One
  <2>2. /\ Cardinality(Listed(s)) + Cardinality(InHands(s)) = 1
        /\ Cardinality(Listed(s))' + Cardinality(InHands(s))' = 0
    BY <1>0, <1>4, <1>5, <1>6, <2>1, PlacesMove DEF One
  <2>3. queue[s] = "alive"
    BY <1>1, <2>2 DEF PlaceInv, One
  <2>4. /\ queue'[s] = "freed" /\ release'[s] = 1 /\ context'[s] = context[s]
    BY <1>2, <1>3, <1>6
  <2> QED
    BY <1>1, <2>2, <2>3, <2>4 DEF PlaceInv, One
<1>7. CASE s # p
  <2>1. Cardinality(Listed(s))' + Cardinality(InHands(s))'
            = Cardinality(Listed(s)) + Cardinality(InHands(s))
    BY <1>0, <1>4, <1>5, <1>7, PlacesMove DEF One
  <2> QED
    BY <1>1, <1>3, <1>7, <2>1 DEF PlaceInv
<1> QED
  BY <1>6, <1>7

(* So every step keeps each queue in its one place.                        *)
LEMMA StepKeepsPlaces ==
    ASSUME IInv, NEW t \in Thread, Step(t) \/ Call(t), NEW s \in Service
    PROVE  PlaceInv(s)'
<1>1. TypeOK /\ TypeOK' /\ Only(t) /\ PlaceInv(s)
  BY StepFacts DEF IInv
<1>2. CASE Still(t)
  BY <1>1, <1>2, StillKeepsPlaces
<1>3. CASE MqPopEmpty(t) \/ SendPush(t) \/ Mark(t) \/ DropEmpty(t)
  BY <1>3, PopEmptyKeepsPlaces, SendPushKeepsPlaces, MarkKeepsPlaces, DropEmptyKeepsPlaces
<1>4. CASE \E b \in Service : Launch(t, b)
  BY <1>4, LaunchKeepsPlaces
<1> QED
  BY <1>2, <1>3, <1>4, StillSteps DEF Step, Call
-----------------------------------------------------------------------------
(* The queues in hand are finitely many.                                   *)
LEMMA HandsCounted ==
    ASSUME NEW s
    PROVE  IsFiniteSet(InHands(s)) /\ Cardinality(InHands(s)) \in Nat
<1> DEFINE Kinds == {"dispatch", "next", "launch", "release"}
<1>1. IsFiniteSet(Kinds)
  <2>1. Kinds = {"dispatch"} \cup {"next"} \cup {"launch"} \cup {"release"}
    OBVIOUS
  <2>2. \A x : IsFiniteSet({x})
    BY FS_Singleton
  <2>3. IsFiniteSet({"dispatch"} \cup {"next"})
    BY <2>2, FS_Union
  <2>4. IsFiniteSet({"dispatch"} \cup {"next"} \cup {"launch"})
    BY <2>2, <2>3, FS_Union
  <2>5. IsFiniteSet({"dispatch"} \cup {"next"} \cup {"launch"} \cup {"release"})
    BY <2>2, <2>4, FS_Union
  <2> QED
    BY <2>1, <2>5
<1>2. IsFiniteSet(Thread \X Kinds)
  BY <1>1, FiniteThreads, FS_Product
<1>3. InHands(s) \in SUBSET (Thread \X Kinds)
  BY DEF InHands
<1> QED
  BY <1>2, <1>3, FS_Subset, FS_CardinalityType

(* A queue is in one hand at most.                                         *)
LEMMA OneHand ==
    ASSUME IInv, NEW s \in Service, NEW a \in InHands(s), NEW b \in InHands(s)
    PROVE  a = b
<1>1. IsFiniteSet(InHands(s)) /\ Cardinality(InHands(s)) \in Nat
  BY HandsCounted
<1>2. Cardinality(InHands(s)) <= 1
  <2>1. Cardinality(Listed(s)) \in Nat
    <3>1. Listed(s) = Places(globalmq, s) /\ globalmq \in Seq(Service)
      BY DEF Listed, Places, IInv, TypeOK
    <3> QED
      BY <3>1, PlacesFinite
  <2> QED
    BY <1>1, <2>1 DEF IInv, PlaceInv, One
<1>3. IsFiniteSet(InHands(s) \ {a}) /\ Cardinality(InHands(s) \ {a}) = Cardinality(InHands(s)) - 1
  BY <1>1, FS_RemoveElement
<1>4. Cardinality(InHands(s) \ {a}) = 0
  BY <1>1, <1>2, <1>3, FS_CardinalityType
<1>5. InHands(s) \ {a} = {}
  BY <1>3, <1>4, FS_EmptySet
<1> QED
  BY <1>5

(* So no two threads dispatch, launch or release the same service.         *)
LEMMA OneThread ==
    ASSUME IInv, NEW s \in Service, NEW t \in Thread, NEW x \in Thread
    PROVE  /\ q[t] = s /\ q[x] = s => t = x
           /\ q[t] = s => born[x] # s /\ dead[x] # s
<1>1. /\ q[t] = s => <<t, "dispatch">> \in InHands(s)
      /\ q[x] = s => <<x, "dispatch">> \in InHands(s)
      /\ born[x] = s => <<x, "launch">> \in InHands(s)
      /\ dead[x] = s => <<x, "release">> \in InHands(s)
  BY DEF InHands
<1>2. \A a, b \in InHands(s) : a = b
  BY OneHand
<1>3. <<t, "dispatch">> # <<x, "launch">> /\ <<t, "dispatch">> # <<x, "release">>
  OBVIOUS
<1>4. <<t, "dispatch">> = <<x, "dispatch">> => t = x
  OBVIOUS
<1> QED
  BY <1>1, <1>2, <1>3, <1>4

(* A worker that dispatches a service holds a reference of it.             *)
LEMMA DispatchedIsAlive ==
    ASSUME IInv, NEW s \in Service, NEW x \in Thread, Dispatching(x, s)
    PROVE  ref[s] > 0 /\ context[s] = "alive" /\ release[s] # 1
<1>1. <<x, "dispatch">> \in Holders(s)
  BY DEF Holders
<1>2. Cardinality(Holders(s)) \in Nat /\ IsFiniteSet(Holders(s))
  BY HoldersCounted
<1>3. Cardinality(Holders(s)) # 0
  BY <1>1, <1>2, FS_EmptySet
<1>4. RefInv(s)
  BY DEF IInv
<1>5. ref[s] > 0
  BY <1>2, <1>3, <1>4 DEF RefInv, One
<1> QED
  BY <1>4, <1>5 DEF RefInv

(* A service that is registered or dispatched stays open, and one that is  *)
(* being launched stays in hand until it is open or retired.               *)
StaysOpen(t, s) ==
    /\ init[s] /\ context[s] = "alive" => init'[s]
    /\ Dispatching(t, s)' => Dispatching(t, s) \/ (q[t] = s /\ s \in registered /\ init' = init)
    /\ s \in registered' => s \in registered \/ (born'[t] = s /\ At(t)' # "publish")
    /\ s \in registered' /\ born[t] = s /\ At(t) # "publish" =>
           \/ init'[s]
           \/ born'[t] = s /\ At(t)' # "publish"
           \/ dead'[t] = s /\ victim'[t] = s
    /\ s \in registered' /\ dead[t] = s /\ victim[t] = s => dead'[t] = s /\ victim'[t] = s

(* Which every step sees to.                                               *)
LEMMA StepStaysOpen ==
    ASSUME IInv, NEW t \in Thread, Step(t) \/ Call(t), NEW s \in Service
    PROVE  StaysOpen(t, s)
<1>1. /\ ServiceTypes /\ LabelTypes /\ HandTypes /\ ThreadInv(t) /\ ArgsOK(t)
      /\ NoService \notin Service
  BY StepFacts
<1>2. s \in registered => context[s] = "alive"
  BY <1>1, HoldersCounted DEF IInv, RefInv, One
<1> USE <1>1
    DEF ServiceTypes, LabelTypes, HandTypes, ThreadInv, ArgsOK, At, InSend, InPut, StaysOpen,
        Dispatching, GivingBack, Goto, PutBack, EndPut, StartSend, EndSend,
        services, queues, loop, sending, putting
<1>3. CASE Fetch(t) \/ Grab(t)
  BY <1>3 DEF Fetch, Grab
<1>4. CASE MqPopMessage(t) \/ MqPopEmpty(t)
  BY <1>4 DEF MqPopMessage, MqPopEmpty
<1>5. CASE MqLen(t) \/ Return(t)
  BY <1>5 DEF MqLen, Return
<1>6. CASE Swap(t)
  BY <1>6 DEF Swap
<1>7. CASE Requeue(t)
  BY <1>7 DEF Requeue
<1>8. CASE SendGrab(t)
  BY <1>8 DEF SendGrab
<1>9. CASE SendPush(t)
  BY <1>9 DEF SendPush
<1>10. CASE Put(t)
  <2>1. ref[put[t]] = 1 /\ after[t] = "ready" => put[t] \notin registered
    <3>1. Only(t) /\ RefInv(put[t]) /\ put[t] \in Service
      BY <1>10, StepFacts DEF Put
    <3>2. Held(t, put[t]) >= 1
      BY <1>10, <3>1 DEF Put, Held, One, Releasing
    <3> QED
      BY <3>1, <3>2, HoldersMove DEF RefInv, One
  <2> QED
    BY <1>10, <2>1 DEF Put
<1>11. CASE Mark(t) \/ Free(t)
  BY <1>11 DEF Mark, Free
<1>12. CASE Retire(t)
  BY <1>12 DEF Retire, AfterRetire, Home
<1>13. CASE InitOk(t) \/ InitFail(t)
  BY <1>13 DEF InitOk, InitFail
<1>14. CASE Ready(t)
  BY <1>2, <1>14 DEF Ready
<1>15. CASE Publish(t)
  BY <1>15 DEF Publish
<1>16. CASE MqRelease(t) \/ DropEmpty(t)
  BY <1>16 DEF MqRelease, DropEmpty, AfterRelease
<1>17. CASE Drop(t)
  BY <1>17 DEF Drop
<1>18. ASSUME NEW d \in Known, Send(t, d) \/ SendExternal(t, d) \/ Kill(t, d)
       PROVE  StaysOpen(t, s)
  BY <1>18 DEF Send, SendExternal, Kill, InCallback, Home
<1>19. ASSUME NEW b \in Service, Launch(t, b)
       PROVE  StaysOpen(t, s)
  BY <1>19 DEF Launch
<1> QED
  BY <1>3, <1>4, <1>5, <1>6, <1>7, <1>8, <1>9, <1>10, <1>11, <1>12, <1>13, <1>14,
     <1>15, <1>16, <1>17, <1>18, <1>19 DEF Step, Call

(* So every step keeps what can be found and dispatched open.              *)
LEMMA StepKeepsOpen ==
    ASSUME IInv, NEW t \in Thread, Step(t) \/ Call(t), NEW s \in Service
    PROVE  OpenInv(s)'
<1>1. /\ Only(t) /\ OpenInv(s) /\ StaysOpen(t, s)
      /\ s \in registered => context[s] = "alive"
  BY StepFacts, StepStaysOpen, HoldersCounted DEF IInv, RefInv, One
<1>2. ASSUME s \in registered'
      PROVE  \/ init'[s]
             \/ \E x \in Thread : born'[x] = s /\ At(x)' # "publish"
             \/ \E x \in Thread : dead'[x] = s /\ victim'[x] = s
  <2>1. CASE s \notin registered
    BY <1>1, <1>2, <2>1 DEF StaysOpen
  <2>2. CASE s \in registered /\ init[s]
    BY <1>1, <2>2 DEF StaysOpen
  <2>3. ASSUME s \in registered, NEW x \in Thread, born[x] = s, At(x) # "publish"
        PROVE  \/ init'[s]
               \/ born'[x] = s /\ At(x)' # "publish"
               \/ dead'[x] = s /\ victim'[x] = s
    BY <1>1, <1>2, <2>3 DEF StaysOpen, Only, At, InSend, InPut
  <2>4. ASSUME s \in registered, NEW x \in Thread, dead[x] = s, victim[x] = s
        PROVE  dead'[x] = s /\ victim'[x] = s
    BY <1>1, <1>2, <2>4 DEF StaysOpen, Only
  <2> QED
    BY <1>1, <2>1, <2>2, <2>3, <2>4 DEF OpenInv
<1>3. ASSUME NEW x \in Thread, Dispatching(x, s)'
      PROVE  init'[s]
  <2>1. CASE Dispatching(x, s)
    BY <1>1, <2>1, DispatchedIsAlive DEF OpenInv, StaysOpen
  <2>2. CASE ~Dispatching(x, s)
    <3>1. x = t
      BY <1>1, <1>3, <2>2 DEF Only, Dispatching, GivingBack
    <3>2. q[t] = s /\ s \in registered /\ init' = init
      BY <1>1, <1>3, <2>2, <3>1 DEF StaysOpen
    <3> QED
      BY <1>1, <3>2, OneThread DEF OpenInv
  <2> QED
    BY <2>1, <2>2
<1> QED
  BY <1>2, <1>3 DEF OpenInv
-----------------------------------------------------------------------------
(* The contexts whose memory is live                                       *)
Alive == {s \in Service : context[s] = "alive"}

(* They are counted: a launch adds one, and Free takes one away.           *)
LEMMA StepKeepsTotal ==
    ASSUME IInv, NEW t \in Thread, Step(t) \/ Call(t)
    PROVE  TotalInv'
<1>1. /\ ServiceTypes /\ ServiceTypes' /\ ArgsOK(t) /\ total = Cardinality(Alive)
  BY StepFacts DEF IInv, TotalInv, Alive
<1>2. IsFiniteSet(Alive) /\ Cardinality(Alive) \in Nat
  BY DispatchAssumption, FS_Subset, FS_CardinalityType DEF Alive
<1>3. CASE UNCHANGED <<context, total>>
  BY <1>1, <1>3 DEF TotalInv, Alive
<1>4. CASE Free(t)
  <2>1. put[t] \in Alive
    <3>1. Deletes(t, put[t]) /\ RefInv(put[t]) /\ put[t] \in Service
      BY <1>1, <1>4 DEF IInv, Deletes, Free, ArgsOK, InPut
    <3> QED
      BY <3>1 DEF RefInv, Alive
  <2>2. total' = total - 1 /\ Alive' = Alive \ {put[t]}
    BY <1>1, <1>4, <2>1 DEF Free, Alive, ServiceTypes
  <2>3. Cardinality(Alive \ {put[t]}) = Cardinality(Alive) - 1
    BY <1>2, <2>1, FS_RemoveElement
  <2> QED
    BY <1>1, <2>2, <2>3 DEF TotalInv, Alive
<1>5. ASSUME NEW b \in Service, Launch(t, b)
      PROVE  TotalInv'
  <2>1. total' = total + 1 /\ Alive' = Alive \cup {b} /\ b \notin Alive
    BY <1>1, <1>5 DEF Launch, Alive, ServiceTypes
  <2>2. Cardinality(Alive \cup {b}) = Cardinality(Alive) + 1
    BY <1>2, <2>1, FS_AddElement
  <2> QED
    BY <1>1, <2>1, <2>2 DEF TotalInv, Alive
<1> USE DEF services
<1>6. CASE Fetch(t) \/ Grab(t) \/ MqPopMessage(t) \/ MqPopEmpty(t) \/ MqLen(t) \/ Return(t)
  BY <1>3, <1>6 DEF Fetch, Grab, MqPopMessage, MqPopEmpty, MqLen, Return
<1>7. CASE Swap(t) \/ Requeue(t) \/ SendGrab(t) \/ SendPush(t) \/ Put(t) \/ Mark(t)
  BY <1>3, <1>7 DEF Swap, Requeue, SendGrab, SendPush, Put, Mark
<1>8. CASE Retire(t) \/ InitOk(t) \/ InitFail(t) \/ Ready(t) \/ Publish(t)
  BY <1>3, <1>8 DEF Retire, InitOk, InitFail, Ready, Publish
<1>9. CASE MqRelease(t) \/ Drop(t) \/ DropEmpty(t)
  BY <1>3, <1>9 DEF MqRelease, Drop, DropEmpty
<1>10. ASSUME NEW d \in Known, Send(t, d) \/ SendExternal(t, d) \/ Kill(t, d)
       PROVE  TotalInv'
  BY <1>3, <1>10 DEF Send, SendExternal, Kill
<1> QED
  BY <1>4, <1>5, <1>6, <1>7, <1>8, <1>9, <1>10 DEF Step, Call
-----------------------------------------------------------------------------
(* A list that names every member of a set and is no longer than it names  *)
(* each of them once.                                                      *)
LEMMA EachListedOnce ==
    ASSUME NEW R, IsFiniteSet(R), NEW g \in [1..Cardinality(R) -> R],
           \A s \in R : \E k \in DOMAIN g : g[k] = s, NEW s \in R
    PROVE  Cardinality(Places(g, s)) = 1
<1> DEFINE D == 1..Cardinality(R)
<1>1. Cardinality(R) \in Nat
  BY FS_CardinalityType
<1>2. IsFiniteSet(D) /\ Cardinality(D) = Cardinality(R)
  BY <1>1, FS_Interval
<1>3. g \in Surjection(D, R)
  BY DEF Surjection
<1>4. g \in Injection(D, R)
  BY <1>2, <1>3, FS_SurjSameCardinalityImpliesInj
<1>5. \A j, k \in D : g[j] = g[k] => j = k
  BY <1>4 DEF Injection, IsInjective
<1>6. PICK k \in D : g[k] = s
  OBVIOUS
<1>7. Places(g, s) = {k}
  BY <1>5, <1>6 DEF Places
<1> QED
  BY <1>7, FS_Singleton

(* Nobody holds anything when the threads begin to run.                    *)
LEMMA InitInv ==
    ASSUME Init
    PROVE  IInv
<1>1. IsFiniteSet(Root) /\ Cardinality(Root) \in Nat /\ Root \subseteq Service
  BY DispatchAssumption, FS_Subset, FS_CardinalityType
<1>2. NoService \notin Service /\ Worker \cap External = {}
  BY DispatchAssumption
<1>3. globalmq \in [1..Cardinality(Root) -> Root] /\ globalmq \in Seq(Service)
  <2>1. globalmq \in [1..Cardinality(Root) -> Root]
    BY DEF Init
  <2>2. globalmq \in [1..Cardinality(Root) -> Service]
    BY <1>1, <2>1
  <2> QED
    BY <1>1, <2>1, <2>2
<1>4. TypeOK
  <2>1. ServiceTypes
    BY <1>1 DEF Init, ServiceTypes
  <2>2. QueueTypes
    <3>1. \A s \in Root : <<[source |-> s, type |-> "request"]>> \in Seq(Message)
      BY <1>1 DEF Message
    <3>2. <<>> \in Seq(Message)
      OBVIOUS
    <3>3. messages \in [Service -> Seq(Message)]
      BY <3>1, <3>2 DEF Init
    <3> QED
      BY <1>3, <3>3 DEF Init, QueueTypes
  <2>3. LoopTypes /\ LabelTypes /\ ops \in 0..MaxOps
    BY DispatchAssumption, LabelFacts DEF Init, LoopTypes, LabelTypes
  <2>4. HandTypes
    BY DEF Init, HandTypes, MaybeService
  <2>5. LetterTypes
    BY DEF Init, LetterTypes
  <2> QED
    BY <2>1, <2>2, <2>3, <2>4, <2>5, TypesByGroup
<1>5. TotalInv
  <2>1. {s \in Service : context[s] = "alive"} = Root
    BY <1>1 DEF Init
  <2> QED
    BY <2>1 DEF Init, TotalInv
<1>6. ASSUME NEW t \in Thread
      PROVE  ThreadInv(t)
  BY <1>2 DEF Init, ThreadInv, At, InSend, InPut, Thread
<1>7. ASSUME NEW s \in Service
      PROVE  RefInv(s) /\ OpenInv(s)
  <2>1. Holders(s) = {}
    BY <1>2 DEF Init, Holders, Dispatching, Sending, Releasing, Launching, GivingBack, Thread
  <2>2. Cardinality(Holders(s)) = 0
    BY <2>1, FS_EmptySet
  <2>3. \A t \in Thread : ~Deletes(t, s) /\ ~Dispatching(t, s)
    BY <1>2 DEF Init, Deletes, Dispatching
  <2>4. /\ ref[s] = One(s \in Root) /\ registered = Root /\ release[s] = 0
        /\ context[s] = IF s \in Root THEN "alive" ELSE "unborn"
        /\ init[s] = (s \in Root)
    BY DEF Init, One
  <2>5. RefInv(s)
    BY <2>2, <2>3, <2>4 DEF RefInv, One
  <2>6. OpenInv(s)
    BY <2>3, <2>4 DEF OpenInv
  <2> QED
    BY <2>5, <2>6
<1>8. ASSUME NEW s \in Service
      PROVE  PlaceInv(s)
  <2>1. InHands(s) = {}
    BY <1>2 DEF Init, InHands
  <2>2. Cardinality(InHands(s)) = 0
    BY <2>1, FS_EmptySet
  <2>3. Cardinality(Listed(s)) = One(s \in Root)
    <3>1. Listed(s) = Places(globalmq, s)
      BY DEF Listed, Places
    <3>2. CASE s \in Root
      BY <1>1, <1>3, <3>1, <3>2, EachListedOnce DEF Init, One
    <3>3. CASE s \notin Root
      <4>1. Listed(s) = {}
        BY <1>3, <3>3 DEF Listed
      <4> QED
        BY <3>3, <4>1, FS_EmptySet DEF One
    <3> QED
      BY <3>2, <3>3
  <2>4. /\ s \in Root => context[s] = "alive" /\ queue[s] = "alive" /\ in_global[s] = 1
        /\ s \notin Root => context[s] = "unborn" /\ queue[s] = "unborn"
        /\ release[s] = 0
    BY DEF Init
  <2> QED
    BY <2>2, <2>3, <2>4 DEF PlaceInv, One
<1> QED
  BY <1>4, <1>5, <1>6, <1>7, <1>8 DEF IInv

(* Nothing happens to the invariant while everybody sleeps.                *)
LEMMA StutterKeeps ==
    ASSUME IInv, UNCHANGED vars
    PROVE  IInv'
<1> USE DEF vars, services, queues, loop, sending, putting
<1>1. TypeOK' /\ TotalInv'
  BY DEF IInv, TypeOK, TotalInv
<1>2. \A t \in Thread : ThreadInv(t)'
  BY DEF IInv, ThreadInv, At, InSend, InPut
<1>3. \A s \in Service : RefInv(s)'
  BY DEF IInv, RefInv, Deletes, Holders, Dispatching, Sending, Releasing, Launching, GivingBack
<1>4. \A s \in Service : PlaceInv(s)'
  BY DEF IInv, PlaceInv, Listed, InHands
<1>5. \A s \in Service : OpenInv(s)'
  BY DEF IInv, OpenInv, At, InSend, InPut, Dispatching, GivingBack
<1> QED
  BY <1>1, <1>2, <1>3, <1>4, <1>5 DEF IInv

(* The invariant is inductive.                                             *)
LEMMA NextKeepsInv ==
    ASSUME IInv, [Next]_vars
    PROVE  IInv'
<1>1. ASSUME NEW t \in Thread, Step(t) \/ Call(t)
      PROVE  IInv'
  <2>1. TypeOK' /\ \A x \in Thread : ThreadInv(x)'
    BY <1>1, StepFacts, StepKeepsThreads DEF IInv
  <2>2. TotalInv'
    BY <1>1, StepKeepsTotal
  <2>3. \A s \in Service : RefInv(s)' /\ PlaceInv(s)' /\ OpenInv(s)'
    BY <1>1, StepKeepsRefs, StepKeepsPlaces, StepKeepsOpen
  <2> QED
    BY <2>1, <2>2, <2>3 DEF IInv
<1>2. CASE UNCHANGED vars
  BY <1>2, StutterKeeps
<1> QED
  BY <1>1, <1>2 DEF Next, Asleep

(* The invariant holds in every state that can be reached.                 *)
LEMMA Invariant == Spec => []IInv
  BY InitInv, NextKeepsInv, PTL DEF Spec

(* Every variable stays in its range: no handle, message or label that the *)
(* code does not know is ever in a thread's hands.                         *)
THEOREM TypeCorrect == Spec => []TypeOK
<1>1. IInv => TypeOK
  BY DEF IInv
<1> QED
  BY <1>1, Invariant, PTL

(* The count in a context is the references in the handle table and in the *)
(* threads' hands, nobody holds a freed one, and the total is the number   *)
(* of live contexts: they are freed with the last reference and not before *)
(* (snownet_context_release, delete_context).                              *)
THEOREM ReferencesAreCounted == Spec => []ReferencesCounted
<1>1. IInv => ReferencesCounted
  BY DEF IInv, RefInv, TotalInv, ReferencesCounted, One
<1> QED
  BY <1>1, Invariant, PTL

(* A live queue is in one place or parked, empty and unmarked, and a freed *)
(* one is nowhere: the assertions of snownet_globalmq_push and _release    *)
(* hold, and no message is left in a queue that nobody will look at.       *)
THEOREM QueuesHaveOnePlace == Spec => []QueueHasOnePlace
<1>1. ASSUME IInv, NEW s \in Service
      PROVE  LET places == Cardinality(Listed(s)) + Cardinality(InHands(s))
             IN  CASE queue[s] = "alive" -> places = 1 \/ (places = 0 /\ Parked(s))
                   [] OTHER -> places = 0
  <2>1. PlaceInv(s) /\ in_global[s] \in {0, 1} /\ release[s] \in {0, 1}
    BY <1>1 DEF IInv, TypeOK
  <2>2. CASE queue[s] = "alive"
    BY <2>1, <2>2 DEF PlaceInv, Parked, One
  <2>3. CASE queue[s] # "alive"
    BY <2>1, <2>3 DEF PlaceInv, One
  <2> QED
    BY <2>2, <2>3
<1>2. IInv => QueueHasOnePlace
  BY <1>1 DEF QueueHasOnePlace
<1> QED
  BY <1>2, Invariant, PTL
-----------------------------------------------------------------------------
(* The message s handles, of the queues and the messages in hand           *)
HandledIn(qs, ms, s) ==
    LET busy == {x \in Thread : qs[x] = s /\ ms[x] # NoMessage}
    IN  IF busy = {} THEN NoMessage ELSE ms[CHOOSE x \in busy : TRUE]

(* It is the one the only thread that handles one has, if there is one.    *)
LEMMA HandledOnce ==
    ASSUME NEW qs, NEW ms, NEW s, NEW t \in Thread,
           qs[t] = s, \A x \in Thread : qs[x] = s => x = t
    PROVE  HandledIn(qs, ms, s) = ms[t]
<1> DEFINE busy == {x \in Thread : qs[x] = s /\ ms[x] # NoMessage}
<1>1. CASE ms[t] = NoMessage
  <2>1. busy = {}
    BY <1>1
  <2> QED
    BY <1>1, <2>1 DEF HandledIn
<1>2. CASE ms[t] # NoMessage
  <2>1. busy = {t}
    BY <1>2
  <2>2. (CHOOSE x \in busy : TRUE) = t
    BY <2>1
  <2> QED
    BY <2>1, <2>2 DEF HandledIn
<1> QED
  BY <1>1, <1>2

(* Queues that change hands without a message in hand do not matter.       *)
LEMMA HandledStays ==
    ASSUME NEW qs, NEW ms, NEW qt, NEW mt, NEW s,
           \A x \in Thread : /\ qs[x] = s /\ ms[x] # NoMessage <=> qt[x] = s /\ mt[x] # NoMessage
                             /\ qs[x] = s /\ ms[x] # NoMessage => mt[x] = ms[x]
    PROVE  HandledIn(qt, mt, s) = HandledIn(qs, ms, s)
<1> DEFINE busy == {x \in Thread : qs[x] = s /\ ms[x] # NoMessage}
<1>1. {x \in Thread : qt[x] = s /\ mt[x] # NoMessage} = busy
  OBVIOUS
<1>2. CASE busy = {}
  BY <1>1, <1>2 DEF HandledIn
<1>3. CASE busy # {}
  <2>1. (CHOOSE x \in busy : TRUE) \in busy
    BY <1>3
  <2>2. mt[CHOOSE x \in busy : TRUE] = ms[CHOOSE x \in busy : TRUE]
    BY <2>1
  <2> QED
    BY <1>1, <1>3, <2>2 DEF HandledIn
<1> QED
  BY <1>2, <1>3

(* The message a service handles is that of the thread that dispatches it. *)
LEMMA HandlingIs ==
    /\ \A s : Handling(s) = HandledIn(q, msg, s)
    /\ \A s : Handling(s)' = HandledIn(q', msg', s)
  BY DEF Handling, HandledIn

(* Only taking a message and returning from it change what is handled.     *)
LEMMA HandlingStays ==
    ASSUME IInv, NEW t \in Thread, Step(t) \/ Call(t), ~MqPopMessage(t), ~Return(t)
    PROVE  \A s \in Service : Handling(s)' = Handling(s)
<1>1. /\ HandTypes /\ ThreadInv(t) /\ NoService \notin Service /\ Only(t)
  BY StepFacts
<1>2. msg' = msg /\ (q'[t] = q[t] \/ msg[t] = NoMessage)
  <2> USE <1>1 DEF ThreadInv, At, InSend, InPut, loop, HandTypes
  <2>1. CASE Fetch(t) \/ Grab(t)
    BY <2>1 DEF Fetch, Grab
  <2>2. CASE MqPopEmpty(t) \/ MqLen(t)
    BY <2>2 DEF MqPopEmpty, MqLen
  <2>3. CASE Swap(t) \/ Requeue(t) \/ SendGrab(t) \/ SendPush(t)
    BY <2>3 DEF Swap, Requeue, SendGrab, SendPush
  <2>4. CASE Put(t) \/ Mark(t) \/ Free(t) \/ Retire(t)
    BY <2>4 DEF Put, Mark, Free, Retire
  <2>5. CASE InitOk(t) \/ InitFail(t) \/ Ready(t) \/ Publish(t)
    BY <2>5 DEF InitOk, InitFail, Ready, Publish
  <2>6. CASE MqRelease(t) \/ Drop(t) \/ DropEmpty(t)
    BY <2>6 DEF MqRelease, Drop, DropEmpty
  <2>7. CASE Call(t)
    BY <2>7 DEF Call, Send, SendExternal, Kill, Launch
  <2> QED
    BY <2>1, <2>2, <2>3, <2>4, <2>5, <2>6, <2>7 DEF Step
<1>3. ASSUME NEW s \in Service
      PROVE  HandledIn(q', msg', s) = HandledIn(q, msg, s)
  <2>1. \A x \in Thread :
            /\ q[x] = s /\ msg[x] # NoMessage <=> q'[x] = s /\ msg'[x] # NoMessage
            /\ q[x] = s /\ msg[x] # NoMessage => msg'[x] = msg[x]
    BY <1>1, <1>2 DEF Only
  <2> QED
    BY <2>1, HandledStays
<1> QED
  BY <1>3, HandlingIs

(* The service has been through its init and is not being deleted.         *)
IsOpen(s) == init[s] /\ release[s] = 0

(* Only a launch, a retirement, the deletion of the context and the end of *)
(* init change it.                                                         *)
LEMMA SeenStays ==
    ASSUME IInv, NEW t \in Thread, Step(t) \/ Call(t),
           ~Retire(t), ~Mark(t), ~Ready(t), \A b \in Service : ~Launch(t, b)
    PROVE  \A s \in Service : Phase(s)' = Phase(s) /\ IsOpen(s)' = IsOpen(s)
<1> USE DEF services, queues, IsOpen
<1>1. CASE UNCHANGED <<context, registered, release, init>>
  BY <1>1 DEF Phase
<1>2. CASE Free(t)
  <2>1. ServiceTypes /\ ArgsOK(t)
    BY StepFacts
  <2>2. release[put[t]] = 1 /\ context[put[t]] = "alive"
    <3>1. Deletes(t, put[t]) /\ put[t] \in Service /\ RefInv(put[t])
      BY <1>2, <2>1 DEF Free, Deletes, ArgsOK, InPut, IInv
    <3> QED
      BY <1>2, <3>1 DEF RefInv, Free
  <2>3. /\ context' = [context EXCEPT ![put[t]] = "freed"]
        /\ UNCHANGED <<registered, release, init>>
    BY <1>2 DEF Free
  <2> QED
    BY <2>1, <2>2, <2>3 DEF Phase, ServiceTypes
<1>3. CASE Fetch(t) \/ Grab(t) \/ MqPopMessage(t) \/ MqPopEmpty(t) \/ MqLen(t) \/ Return(t)
  BY <1>1, <1>3 DEF Fetch, Grab, MqPopMessage, MqPopEmpty, MqLen, Return
<1>4. CASE Swap(t) \/ Requeue(t) \/ SendGrab(t) \/ SendPush(t) \/ Put(t)
  BY <1>1, <1>4 DEF Swap, Requeue, SendGrab, SendPush, Put
<1>5. CASE InitOk(t) \/ InitFail(t) \/ Publish(t)
  BY <1>1, <1>5 DEF InitOk, InitFail, Publish
<1>6. CASE MqRelease(t) \/ Drop(t) \/ DropEmpty(t)
  BY <1>1, <1>6 DEF MqRelease, Drop, DropEmpty
<1>7. ASSUME NEW d \in Known, Send(t, d) \/ SendExternal(t, d) \/ Kill(t, d)
      PROVE  UNCHANGED <<context, registered, release, init>>
  BY <1>7 DEF Send, SendExternal, Kill
<1> QED
  BY <1>1, <1>2, <1>3, <1>4, <1>5, <1>6, <1>7 DEF Step, Call

(* A mailbox changes when a message is accepted, taken or bounced.         *)
LEMMA MailboxStays ==
    ASSUME NEW t \in Thread, Step(t) \/ Call(t), ~MqPopMessage(t), ~SendPush(t), ~Drop(t)
    PROVE  messages' = messages
<1> USE DEF queues
<1>1. CASE Fetch(t) \/ Grab(t) \/ MqPopEmpty(t) \/ MqLen(t) \/ Return(t)
  BY <1>1 DEF Fetch, Grab, MqPopEmpty, MqLen, Return
<1>2. CASE Swap(t) \/ Requeue(t) \/ SendGrab(t) \/ Put(t) \/ Mark(t) \/ Free(t)
  BY <1>2 DEF Swap, Requeue, SendGrab, Put, Mark, Free
<1>3. CASE Retire(t) \/ InitOk(t) \/ InitFail(t) \/ Ready(t) \/ Publish(t)
  BY <1>3 DEF Retire, InitOk, InitFail, Ready, Publish
<1>4. CASE MqRelease(t) \/ DropEmpty(t) \/ Call(t)
  BY <1>4 DEF MqRelease, DropEmpty, Call, Send, SendExternal, Kill, Launch
<1> QED
  BY <1>1, <1>2, <1>3, <1>4 DEF Step

(* Two threads never drain one queue.                                      *)
LEMMA OneDrainer ==
    ASSUME IInv, NEW s \in Service, NEW t \in Thread, NEW x \in Thread,
           dead[t] = s, dead[x] = s
    PROVE  t = x
<1>1. <<t, "release">> \in InHands(s) /\ <<x, "release">> \in InHands(s)
  BY DEF InHands
<1>2. <<t, "release">> = <<x, "release">>
  BY <1>1, OneHand
<1> QED
  BY <1>2

(* Who is owed an error changes with what the thread that moves is about.  *)
LEMMA OwedSame ==
    ASSUME NEW t \in Thread, Only(t), NEW s, Tells(t, s)' <=> Tells(t, s),
           Tells(t, s) => target'[t] = target[t]
    PROVE  Owed(s)' = Owed(s)
<1>1. \A x \in Thread : /\ Tells(x, s)' <=> Tells(x, s)
                        /\ Tells(x, s) => target'[x] = target[x]
  <2> TAKE x \in Thread
  <2>1. CASE x = t
    BY <2>1
  <2>2. CASE x # t
    BY <2>2 DEF Only, Tells
  <2> QED
    BY <2>1, <2>2
<1>2. {x \in Thread : Tells(x, s)'} = {x \in Thread : Tells(x, s)}
  BY <1>1
<1>3. Owed(s)' = {target'[x] : x \in {y \in Thread : Tells(y, s)'}}
  BY DEF Owed
<1>4. \A x \in {y \in Thread : Tells(y, s)} : target'[x] = target[x]
  BY <1>1
<1> QED
  BY <1>2, <1>3, <1>4 DEF Owed

(* It changes when a message is dropped, and when its sender is told or    *)
(* found gone.                                                             *)
LEMMA OwedStays ==
    ASSUME IInv, NEW t \in Thread, Step(t) \/ Call(t),
           ~SendGrab(t), ~SendPush(t), ~Drop(t)
    PROVE  \A s \in Service : Owed(s)' = Owed(s)
<1>1. LabelTypes /\ HandTypes /\ ThreadInv(t) /\ Only(t)
  BY StepFacts
<1>2. ASSUME NEW s \in Service
      PROVE  ~Tells(t, s) /\ ~Tells(t, s)'
  <2> USE <1>1 DEF LabelTypes, Tells, Goto, PutBack, EndPut, StartSend, EndBatch,
                   ThreadInv, At, InSend, InPut, sending
  <2>1. CASE Fetch(t) \/ Grab(t) \/ MqPopMessage(t)
    BY <2>1 DEF Fetch, Grab, MqPopMessage
  <2>2. CASE MqPopEmpty(t) \/ MqLen(t) \/ Return(t)
    BY <2>2 DEF MqPopEmpty, MqLen, Return
  <2>3. CASE Swap(t) \/ Requeue(t)
    BY <2>3 DEF Swap, Requeue
  <2>4. CASE Put(t) \/ Mark(t) \/ Free(t)
    BY <2>4 DEF Put, Mark, Free
  <2>5. CASE Retire(t) \/ InitOk(t) \/ InitFail(t)
    BY <2>5 DEF Retire, InitOk, InitFail, AfterRetire, Home
  <2>6. CASE Ready(t) \/ Publish(t) \/ MqRelease(t) \/ DropEmpty(t)
    BY <2>6 DEF Ready, Publish, MqRelease, DropEmpty, AfterRelease
  <2>7. CASE Call(t)
    BY <2>7 DEF Call, Send, SendExternal, Kill, Launch, InCallback, Home
  <2> QED
    BY <2>1, <2>2, <2>3, <2>4, <2>5, <2>6, <2>7 DEF Step
<1> QED
  BY <1>1, <1>2, OwedSame

(* A thread that has told the sender, or found it gone, owes no more.      *)
LEMMA ErrandEnds ==
    ASSUME IInv, NEW t \in Thread, Only(t), NEW p \in Service, Tells(t, p),
           \A s : ~Tells(t, s)'
    PROVE  /\ Owed(p) = {target[t]} /\ Owed(p)' = {}
           /\ \A s \in Service \ {p} : Owed(s)' = Owed(s)
<1>1. \A x \in Thread : Tells(x, p) => x = t
  BY OneDrainer DEF Tells
<1>2. {x \in Thread : Tells(x, p)} = {t}
  BY <1>1
<1>3. Owed(p) = {target[t]}
  BY <1>2 DEF Owed
<1>4. \A x \in Thread : ~Tells(x, p)'
  <2> TAKE x \in Thread
  <2>1. CASE x = t
    BY <2>1
  <2>2. CASE x # t
    BY <1>1, <2>2 DEF Only, Tells
  <2> QED
    BY <2>1, <2>2
<1>5. Owed(p)' = {}
  BY <1>4 DEF Owed
<1>6. \A s \in Service \ {p} : ~Tells(t, s)
  BY DEF Tells
<1> QED
  BY <1>3, <1>5, <1>6, OwedSame

(* A worker that takes a message has its service open and idle.            *)
LEMMA PopTakes ==
    ASSUME IInv, NEW t \in Thread, MqPopMessage(t)
    PROVE  A!Take(q[t])
<1>0. /\ Step(t) /\ ~Retire(t) /\ ~Mark(t) /\ ~Ready(t) /\ \A b \in Service : ~Launch(t, b)
      /\ ~SendGrab(t) /\ ~SendPush(t) /\ ~Drop(t)
  BY DEF Step, MqPopMessage, Retire, Mark, Ready, Launch, SendGrab, SendPush, Drop
<1>1. PICK p \in Service : p = q[t]
  BY <1>0, StepFacts DEF MqPopMessage, ArgsOK
<1>2. /\ QueueTypes /\ LetterTypes /\ ThreadInv(t) /\ NoService \notin Service
      /\ OpenInv(p) /\ RefInv(p)
  BY <1>0, <1>1, StepFacts DEF IInv
<1>3. Dispatching(t, p)
  BY <1>1 DEF MqPopMessage, Dispatching, GivingBack
<1>4. IsOpen(p) /\ Phase(p) \in {"reachable", "retired"}
  BY <1>2, <1>3, DispatchedIsAlive DEF OpenInv, IsOpen, Phase, QueueTypes
<1>5. \A s \in Service : Phase(s)' = Phase(s) /\ IsOpen(s)' = IsOpen(s) /\ Owed(s)' = Owed(s)
  BY <1>0, SeenStays, OwedStays
<1>6. /\ messages[p] # <<>> /\ messages' = [messages EXCEPT ![p] = Tail(messages[p])]
      /\ msg' = [msg EXCEPT ![t] = Head(messages[p])] /\ q' = q
  BY <1>1 DEF MqPopMessage
<1>7. \A x \in Thread : q[x] = p => x = t
  BY <1>1, OneThread
<1>8. Handling(p) = NoMessage
  <2>1. msg[t] = NoMessage
    BY <1>2 DEF MqPopMessage, ThreadInv, At, InSend, InPut
  <2> QED
    BY <1>1, <1>7, <2>1, HandledOnce, HandlingIs
<1>9. Handling(p)' = Head(messages[p])
  <2>1. msg'[t] = Head(messages[p]) /\ q'[t] = p /\ \A x \in Thread : q'[x] = p => x = t
    BY <1>1, <1>2, <1>6, <1>7 DEF LetterTypes
  <2> QED
    BY <2>1, HandledOnce, HandlingIs
<1>10. ASSUME NEW s \in Service, s # p
       PROVE  Handling(s)' = Handling(s)
  <2>1. \A x \in Thread :
            /\ q[x] = s /\ msg[x] # NoMessage <=> q'[x] = s /\ msg'[x] # NoMessage
            /\ q[x] = s /\ msg[x] # NoMessage => msg'[x] = msg[x]
    BY <1>1, <1>2, <1>6, <1>10 DEF LetterTypes
  <2> QED
    BY <2>1, HandledStays, HandlingIs
<1> HIDE DEF MqPopMessage
<1>11. A!Take(p)
  BY <1>4, <1>5, <1>6, <1>8, <1>9, <1>10 DEF A!Take, IsOpen
<1> QED
  BY <1>1, <1>11

(* A callback that returns leaves its service idle.                        *)
LEMMA ReturnFinishes ==
    ASSUME IInv, NEW t \in Thread, Return(t)
    PROVE  A!Finish(q[t])
<1>0. Step(t) /\ ~SendGrab(t) /\ ~SendPush(t) /\ ~Drop(t)
  BY DEF Step, Return, SendGrab, SendPush, Drop
<1>1. PICK p \in Service : p = q[t]
  BY <1>0, StepFacts DEF Return, ArgsOK
<1>2. LetterTypes /\ ThreadInv(t) /\ NoService \notin Service
  BY <1>0, <1>1, StepFacts DEF IInv
<1>3. /\ messages' = messages /\ \A s \in Service : Phase(s)' = Phase(s) /\ IsOpen(s)' = IsOpen(s)
      /\ \A s \in Service : Owed(s)' = Owed(s)
  BY <1>0, OwedStays DEF Return, services, queues, Phase, IsOpen
<1>4. msg' = [msg EXCEPT ![t] = NoMessage] /\ q' = q
  BY DEF Return
<1>5. \A x \in Thread : q[x] = p => x = t
  BY <1>1, OneThread
<1>6. Handling(p) # NoMessage
  <2>1. msg[t] # NoMessage
    BY <1>1, <1>2 DEF Return, ThreadInv, At, InSend, InPut
  <2> QED
    BY <1>1, <1>5, <2>1, HandledOnce, HandlingIs
<1>7. Handling(p)' = NoMessage
  <2>1. msg'[t] = NoMessage /\ q'[t] = p /\ \A x \in Thread : q'[x] = p => x = t
    BY <1>1, <1>2, <1>4, <1>5 DEF LetterTypes
  <2> QED
    BY <2>1, HandledOnce, HandlingIs
<1>8. ASSUME NEW s \in Service, s # p
      PROVE  Handling(s)' = Handling(s)
  <2>1. \A x \in Thread :
            /\ q[x] = s /\ msg[x] # NoMessage <=> q'[x] = s /\ msg'[x] # NoMessage
            /\ q[x] = s /\ msg[x] # NoMessage => msg'[x] = msg[x]
    BY <1>1, <1>2, <1>4, <1>8 DEF LetterTypes
  <2> QED
    BY <2>1, HandledStays, HandlingIs
<1>9. A!Finish(p)
  BY <1>3, <1>6, <1>7, <1>8 DEF A!Finish, IsOpen
<1> QED
  BY <1>1, <1>9

(* A sender that has grabbed its destination finds it not torn down; the   *)
(* message is the error that the drain of a queue owes, or any other.      *)
LEMMA PushPosts ==
    ASSUME IInv, NEW t \in Thread, SendPush(t)
    PROVE  \/ \E s \in Service, m \in Message : A!Post(s, m)
           \/ \E s \in Service, d \in Service : A!Tell(s, d)
<1>0. /\ Step(t) /\ ~Retire(t) /\ ~Mark(t) /\ ~Ready(t) /\ \A b \in Service : ~Launch(t, b)
      /\ ~MqPopMessage(t) /\ ~Return(t)
  BY DEF Step, MqPopMessage, Retire, Mark, Ready, Launch, Return, SendPush
<1>1. PICK p \in Service : p = target[t]
  BY <1>0, StepFacts DEF SendPush, ArgsOK, InSend
<1>2. out[t] \in Message
  BY <1>0, StepFacts DEF SendPush, ArgsOK, InSend
<1>3. /\ \A s \in Service : Phase(s)' = Phase(s) /\ IsOpen(s)' = IsOpen(s)
      /\ \A s \in Service : Handling(s)' = Handling(s)
  BY <1>0, SeenStays, HandlingStays
<1>4. Held(t, p) >= 1
  BY <1>1 DEF SendPush, Held, One, Sending
<1>5. Phase(p) \in {"reachable", "retired"}
  BY <1>0, <1>1, <1>4, HeldIsAlive DEF Phase
<1>6. messages' = [messages EXCEPT ![p] = Append(messages[p], out[t])]
  BY <1>1 DEF SendPush
<1>7. Only(t) /\ LabelTypes /\ HandTypes /\ ThreadInv(t) /\ \A s : ~Tells(t, s)'
  <2>1. Only(t) /\ LabelTypes /\ HandTypes /\ ThreadInv(t)
    BY <1>0, StepFacts
  <2> QED
    BY <2>1 DEF SendPush, PutBack, Goto, Tells, LabelTypes
<1>8. CASE sent[t] = "drop"
  <2>1. PICK e \in Service : e = dead[t]
    BY <1>7, <1>8 DEF SendPush, ThreadInv, At, InSend, HandTypes, MaybeService
  <2>2. Tells(t, e) /\ out[t] = [source |-> e, type |-> "error"]
    BY <1>7, <1>8, <2>1 DEF SendPush, Tells, ThreadInv, InSend
  <2>3. /\ Owed(e) = {p} /\ Owed(e)' = {}
        /\ \A s \in Service \ {e} : Owed(s)' = Owed(s)
    BY <1>1, <1>7, <2>2, ErrandEnds
  <2>4. A!Tell(e, p)
    BY <1>3, <1>5, <1>6, <2>2, <2>3 DEF A!Tell, IsOpen
  <2> QED
    BY <2>4
<1>9. CASE sent[t] # "drop"
  <2>1. \A s \in Service : Owed(s)' = Owed(s)
    <3>1. \A s : ~Tells(t, s)
      BY <1>9 DEF Tells
    <3> QED
      BY <1>7, <3>1, OwedSame
  <2>2. A!Post(p, out[t])
    BY <1>3, <1>5, <1>6, <2>1 DEF A!Post, IsOpen
  <2> QED
    BY <1>2, <2>2
<1> QED
  BY <1>8, <1>9

(* A drain whose error finds nobody has a sender that has been retired.    *)
LEMMA GrabTells ==
    ASSUME IInv, NEW t \in Thread, SendGrab(t)
    PROVE  [A!ActorsNext]_(A!actorVars)
<1>0. /\ Step(t) /\ ~Retire(t) /\ ~Mark(t) /\ ~Ready(t) /\ \A b \in Service : ~Launch(t, b)
      /\ ~MqPopMessage(t) /\ ~Return(t) /\ ~SendPush(t) /\ ~Drop(t)
  BY DEF Step, MqPopMessage, Retire, Mark, Ready, Launch, Return, SendPush, Drop, SendGrab
<1>1. PICK p \in Service : p = target[t]
  BY <1>0, StepFacts DEF SendGrab, ArgsOK, InSend
<1>2. /\ \A s \in Service : Phase(s)' = Phase(s) /\ IsOpen(s)' = IsOpen(s)
      /\ \A s \in Service : Handling(s)' = Handling(s)
      /\ messages' = messages
  BY <1>0, SeenStays, HandlingStays, MailboxStays
<1>3. Only(t) /\ LabelTypes /\ HandTypes /\ ThreadInv(t)
  BY <1>0, StepFacts
<1>4. CASE p \in registered
  <2>1. pc'[t] = "spush" /\ UNCHANGED <<target, sent, dead>>
    BY <1>1, <1>3, <1>4 DEF SendGrab, Goto, sending, LabelTypes
  <2>2. \A s \in Service : Owed(s)' = Owed(s)
    <3>1. \A s : Tells(t, s)' <=> Tells(t, s)
      BY <2>1 DEF Tells, SendGrab
    <3> QED
      BY <1>3, <2>1, <3>1, OwedSame
  <2> QED
    BY <1>2, <2>2 DEF A!actorVars, IsOpen
<1>5. CASE p \notin registered /\ sent[t] = "drop"
  <2>1. PICK e \in Service : e = dead[t]
    BY <1>3, <1>5 DEF SendGrab, ThreadInv, At, InSend, HandTypes, MaybeService
  <2>2. Tells(t, e) /\ \A s : ~Tells(t, s)'
    BY <1>1, <1>3, <1>5, <2>1 DEF SendGrab, Tells, Goto, LabelTypes
  <2>3. /\ Owed(e) = {p} /\ Owed(e)' = {}
        /\ \A s \in Service \ {e} : Owed(s)' = Owed(s)
    BY <1>1, <1>3, <2>2, ErrandEnds
  <2>4. Phase(p) # "reachable"
    BY <1>5 DEF Phase
  <2>5. A!TellNobody(e, p)
    BY <1>2, <2>3, <2>4 DEF A!TellNobody, IsOpen
  <2> QED
    BY <2>5 DEF A!ActorsNext
<1>6. CASE p \notin registered /\ sent[t] # "drop"
  <2>1. pc'[t] \notin {"sgrab", "spush"}
    BY <1>1, <1>3, <1>6 DEF SendGrab, Goto, LabelTypes, ThreadInv, InSend
  <2>2. \A s : ~Tells(t, s)' /\ ~Tells(t, s)
    BY <1>6, <2>1 DEF Tells
  <2>3. \A s \in Service : Owed(s)' = Owed(s)
    BY <1>3, <2>2, OwedSame
  <2> QED
    BY <1>2, <2>3 DEF A!actorVars, IsOpen
<1> QED
  BY <1>4, <1>5, <1>6

(* Retiring a service that can be found makes it a retired one.            *)
LEMMA RetireRetires ==
    ASSUME IInv, NEW t \in Thread, Retire(t)
    PROVE  [A!ActorsNext]_(A!actorVars)
<1>0. /\ Step(t) /\ ~MqPopMessage(t) /\ ~Return(t) /\ ~SendPush(t) /\ ~Drop(t)
      /\ ~SendGrab(t)
  BY DEF Step, MqPopMessage, Retire, Return, SendPush, Drop, SendGrab
<1>1. /\ ServiceTypes /\ \A s \in Service : Handling(s)' = Handling(s)
      /\ messages' = messages /\ UNCHANGED <<context, release, init>>
      /\ \A s \in Service : Owed(s)' = Owed(s)
  BY <1>0, StepFacts, HandlingStays, MailboxStays, OwedStays DEF Retire, queues
<1>2. CASE victim[t] \in registered
  <2>1. PICK v \in Service : v = victim[t]
    BY <1>1, <1>2 DEF ServiceTypes
  <2>2. registered' = registered \ {v} /\ v \in registered
    BY <1>2, <2>1 DEF Retire
  <2>3. context[v] = "alive" /\ release[v] # 1
    <3>1. RefInv(v) /\ ref[v] > 0
      BY <2>2, HoldersCounted DEF IInv, RefInv, One
    <3> QED
      BY <3>1 DEF RefInv
  <2>4. /\ Phase(v) = "reachable" /\ Phase(v)' = "retired"
        /\ \A s \in Service \ {v} : Phase(s)' = Phase(s)
        /\ \A s \in Service : IsOpen(s)' = IsOpen(s)
    BY <1>1, <2>2, <2>3 DEF Phase, IsOpen
  <2>5. A!RetireActor(v)
    BY <1>1, <2>4 DEF A!RetireActor, IsOpen
  <2> QED
    BY <2>5 DEF A!ActorsNext
<1>3. CASE victim[t] \notin registered
  <2>1. \A s \in Service : Phase(s)' = Phase(s) /\ IsOpen(s)' = IsOpen(s)
    BY <1>1, <1>3 DEF Retire, Phase, IsOpen
  <2> QED
    BY <1>1, <2>1 DEF A!actorVars, IsOpen
<1> QED
  BY <1>2, <1>3

(* Marking the queue tears the service down: nobody dispatches it then.    *)
LEMMA MarkTearsDown ==
    ASSUME IInv, NEW t \in Thread, Mark(t)
    PROVE  \E p \in Service : A!TearDown(p)
<1>0. /\ Step(t) /\ ~MqPopMessage(t) /\ ~Return(t) /\ ~SendPush(t) /\ ~Drop(t)
      /\ ~SendGrab(t)
  BY DEF Step, MqPopMessage, Mark, Return, SendPush, Drop, SendGrab
<1>1. PICK p \in Service : p = put[t]
  BY <1>0, StepFacts DEF Mark, ArgsOK, InPut
<1>2. /\ QueueTypes /\ \A s \in Service : Handling(s)' = Handling(s)
      /\ messages' = messages /\ UNCHANGED <<context, registered, init>>
      /\ \A s \in Service : Owed(s)' = Owed(s)
  BY <1>0, StepFacts, HandlingStays, MailboxStays, OwedStays DEF Mark, services
<1>3. release' = [release EXCEPT ![p] = 1]
  BY <1>1 DEF Mark
<1>4. ref[p] = 0 /\ context[p] = "alive" /\ release[p] # 1 /\ p \notin registered
  <2>1. Deletes(t, p) /\ RefInv(p)
    BY <1>1 DEF IInv, Deletes, Mark
  <2>2. Cardinality(Holders(p)) \in Nat
    BY HoldersCounted
  <2> QED
    BY <2>1, <2>2 DEF RefInv, Mark, One
<1>5. Handling(p) = NoMessage
  <2>1. \A x \in Thread : ~(q[x] = p /\ msg[x] # NoMessage)
    <3>1. ASSUME NEW x \in Thread, q[x] = p, msg[x] # NoMessage
          PROVE  Dispatching(x, p)
      <4>1. ThreadInv(x)
        BY DEF IInv
      <4> QED
        BY <3>1, <4>1 DEF ThreadInv, At, InSend, InPut, Dispatching, GivingBack
    <3> QED
      BY <1>4, <3>1, DispatchedIsAlive
  <2> QED
    BY <2>1 DEF Handling
<1>6. /\ Phase(p) = "retired" /\ Phase(p)' = "gone"
      /\ \A s \in Service \ {p} : Phase(s)' = Phase(s) /\ IsOpen(s)' = IsOpen(s)
      /\ IsOpen(p)' = FALSE
  BY <1>2, <1>3, <1>4 DEF Phase, IsOpen, QueueTypes
<1>7. A!TearDown(p)
  BY <1>2, <1>5, <1>6 DEF A!TearDown, IsOpen
<1> QED
  BY <1>1, <1>7

(* A launched service can be found at once, and is not open yet.           *)
LEMMA LaunchBegins ==
    ASSUME IInv, NEW t \in Thread, NEW b \in Service, Launch(t, b)
    PROVE  A!Begin(b)
<1>0. /\ Call(t) /\ ServiceTypes /\ ~SendGrab(t) /\ ~SendPush(t) /\ ~Drop(t)
      /\ \A s \in Service : Owed(s)' = Owed(s)
  <2>1. Call(t) /\ ~SendGrab(t) /\ ~SendPush(t) /\ ~Drop(t)
    BY DEF Call, Launch, SendGrab, SendPush, Drop
  <2> QED
    BY <2>1, StepFacts, OwedStays
<1>1. /\ messages' = messages /\ UNCHANGED <<q, msg, release, init>>
      /\ context' = [context EXCEPT ![b] = "alive"] /\ context[b] = "unborn"
      /\ registered' = registered \cup {b}
  BY DEF Launch, loop
<1>2. \A s \in Service : Handling(s)' = Handling(s) /\ IsOpen(s)' = IsOpen(s)
  BY <1>1, HandlingIs DEF IsOpen
<1>3. release[b] # 1
  BY <1>1 DEF IInv, RefInv
<1>4. /\ Phase(b) = "unborn" /\ Phase(b)' = "reachable"
      /\ \A s \in Service \ {b} : Phase(s)' = Phase(s)
  BY <1>0, <1>1, <1>3 DEF Phase, ServiceTypes
<1> QED
  BY <1>0, <1>1, <1>2, <1>4 DEF A!Begin, IsOpen

(* Init has succeeded: the service opens, unless it is being deleted.      *)
LEMMA ReadyOpens ==
    ASSUME IInv, NEW t \in Thread, Ready(t)
    PROVE  [A!ActorsNext]_(A!actorVars)
<1>0. /\ Step(t) /\ ~MqPopMessage(t) /\ ~Return(t) /\ ~SendPush(t) /\ ~Drop(t)
      /\ ~SendGrab(t)
  BY DEF Step, MqPopMessage, Ready, Return, SendPush, Drop, SendGrab
<1>1. PICK b \in Service : b = born[t]
  BY <1>0, StepFacts DEF Ready, ArgsOK
<1>2. /\ ServiceTypes /\ QueueTypes /\ \A s \in Service : Handling(s)' = Handling(s)
      /\ messages' = messages /\ UNCHANGED <<context, release, registered>>
      /\ \A s \in Service : Owed(s)' = Owed(s)
  BY <1>0, StepFacts, HandlingStays, MailboxStays, OwedStays DEF Ready, queues
<1>3. init' = [init EXCEPT ![b] = (context[b] = "alive")]
  BY <1>1 DEF Ready
<1>4. \A s \in Service : Phase(s)' = Phase(s)
  BY <1>2 DEF Phase
<1>5. \A s \in Service \ {b} : IsOpen(s)' = IsOpen(s)
  BY <1>2, <1>3 DEF IsOpen, ServiceTypes
<1>6. CASE context[b] = "alive" /\ release[b] = 0
  <2>1. IsOpen(b)' = TRUE /\ Phase(b) \in {"reachable", "retired"}
    <3>1. init'[b] = TRUE /\ release'[b] = 0
      BY <1>2, <1>3, <1>6 DEF ServiceTypes
    <3> QED
      BY <1>6, <3>1 DEF IsOpen, Phase
  <2>2. A!Open(b)
    BY <1>2, <1>4, <1>5, <2>1 DEF A!Open, IsOpen
  <2> QED
    BY <2>2 DEF A!ActorsNext
<1>7. CASE ~(context[b] = "alive" /\ release[b] = 0)
  <2>1. release[b] # 0
    <3>1. context[b] # "unborn"
      <4>1. <<t, "launch">> \in InHands(b)
        BY <1>1 DEF InHands
      <4>2. IsFiniteSet(InHands(b)) /\ Cardinality(InHands(b)) # 0
        BY <4>1, HandsCounted, FS_EmptySet
      <4>3. Cardinality(Listed(b)) \in Nat
        BY <1>2, ListedMoves
      <4>4. PlaceInv(b)
        BY DEF IInv
      <4> QED
        BY <4>2, <4>3, <4>4, HandsCounted DEF PlaceInv, One
    <3>2. RefInv(b)
      BY DEF IInv
    <3> QED
      BY <1>2, <1>7, <3>1, <3>2 DEF RefInv, ServiceTypes
  <2>2. IsOpen(b)' = IsOpen(b)
    BY <1>2, <2>1 DEF IsOpen
  <2>3. \A s \in Service : IsOpen(s)' = IsOpen(s)
    BY <1>5, <2>2
  <2> QED
    BY <1>2, <1>4, <2>3 DEF A!actorVars, IsOpen
<1> QED
  BY <1>6, <1>7

(* What is dropped from a marked queue is bounced, and its sender owed the *)
(* error.                                                                  *)
LEMMA DropBounces ==
    ASSUME IInv, NEW t \in Thread, Drop(t)
    PROVE  A!Bounce(dead[t])
<1>0. /\ Step(t) /\ ~Retire(t) /\ ~Mark(t) /\ ~Ready(t) /\ \A b \in Service : ~Launch(t, b)
      /\ ~MqPopMessage(t) /\ ~Return(t)
  BY DEF Step, MqPopMessage, Retire, Mark, Ready, Launch, Return, Drop
<1>1. PICK p \in Service : p = dead[t]
  BY <1>0, StepFacts DEF Drop, ArgsOK
<1>2. /\ \A s \in Service : Phase(s)' = Phase(s) /\ IsOpen(s)' = IsOpen(s)
      /\ \A s \in Service : Handling(s)' = Handling(s)
  BY <1>0, SeenStays, HandlingStays
<1>3. Phase(p) = "gone"
  <2>1. release[p] = 1
    BY <1>1 DEF IInv, ThreadInv, At, InSend, InPut, Drop
  <2> QED
    BY <2>1 DEF IInv, RefInv, Phase
<1>4. messages[p] # <<>> /\ messages' = [messages EXCEPT ![p] = Tail(messages[p])]
  BY <1>1 DEF Drop
<1>5. Only(t) /\ LabelTypes /\ HandTypes /\ QueueTypes /\ NoService \notin Service
  BY <1>0, StepFacts
<1>6. \A x \in Thread : dead[x] = p => x = t
  BY <1>1, OneDrainer
<1>7. Owed(p) = {}
  <2>1. \A x \in Thread : ~Tells(x, p)
    BY <1>6 DEF Tells, Drop
  <2> QED
    BY <2>1 DEF Owed
<1>8. \A s \in Service \ {p} : Owed(s)' = Owed(s)
  <2>1. dead' = dead
    BY DEF Drop
  <2>2. \A s \in Service \ {p} : ~Tells(t, s) /\ ~Tells(t, s)'
    BY <1>1, <2>1 DEF Tells
  <2> QED
    BY <1>5, <2>2, OwedSame
<1>9. Owed(p)' = {Head(messages[p]).source} \ {NoService}
  <2> DEFINE source == Head(messages[p]).source
  <2>1. \A x \in Thread \ {t} : ~Tells(x, p)'
    BY <1>5, <1>6 DEF Only, Tells
  <2>2. CASE source = NoService
    <3>1. UNCHANGED pc
      BY <1>1, <2>2 DEF Drop
    <3>2. \A x \in Thread : ~Tells(x, p)'
      BY <2>1, <3>1 DEF Tells, Drop
    <3> QED
      BY <2>2, <3>2 DEF Owed
  <2>3. CASE source # NoService
    <3>1. pc'[t] = "sgrab" /\ sent'[t] = "drop" /\ target'[t] = source /\ dead' = dead
      BY <1>1, <1>5, <2>3 DEF Drop, StartSend, Goto, LabelTypes, HandTypes
    <3>2. {x \in Thread : Tells(x, p)'} = {t}
      BY <1>1, <2>1, <3>1 DEF Tells
    <3>3. Owed(p)' = {target'[x] : x \in {y \in Thread : Tells(y, p)'}}
      BY DEF Owed
    <3>4. Owed(p)' = {source}
      BY <3>1, <3>2, <3>3
    <3> QED
      BY <2>3, <3>4
  <2> QED
    BY <2>2, <2>3
<1>10. A!Bounce(p)
  BY <1>2, <1>3, <1>4, <1>7, <1>8, <1>9 DEF A!Bounce, IsOpen
<1> QED
  BY <1>1, <1>10

(* Every step of a thread is a step of the actors or changes nothing that  *)
(* the author of a service sees.                                           *)
LEMMA StepImplements ==
    ASSUME IInv, NEW t \in Thread, Step(t) \/ Call(t)
    PROVE  [A!ActorsNext]_(A!actorVars)
<1>1. ArgsOK(t)
  BY StepFacts
<1>2. CASE MqPopMessage(t)
  BY <1>1, <1>2, PopTakes DEF ArgsOK, MqPopMessage, A!ActorsNext
<1>3. CASE Return(t)
  BY <1>1, <1>3, ReturnFinishes DEF ArgsOK, Return, A!ActorsNext
<1>4. CASE SendPush(t)
  BY <1>4, PushPosts DEF A!ActorsNext
<1>5. CASE Retire(t) \/ Ready(t)
  BY <1>5, RetireRetires, ReadyOpens
<1>6. CASE Mark(t)
  BY <1>6, MarkTearsDown DEF A!ActorsNext
<1>7. CASE \E b \in Service : Launch(t, b)
  BY <1>7, LaunchBegins DEF A!ActorsNext
<1>8. CASE Drop(t)
  BY <1>1, <1>8, DropBounces DEF ArgsOK, Drop, A!ActorsNext
<1>9. CASE SendGrab(t)
  BY <1>9, GrabTells
<1>10. CASE /\ ~MqPopMessage(t) /\ ~Return(t) /\ ~SendPush(t) /\ ~Retire(t) /\ ~Ready(t)
           /\ ~Mark(t) /\ ~Drop(t) /\ ~SendGrab(t) /\ \A b \in Service : ~Launch(t, b)
  <2>1. /\ messages' = messages /\ \A s \in Service : Handling(s)' = Handling(s)
        /\ \A s \in Service : Owed(s)' = Owed(s)
    BY <1>10, MailboxStays, HandlingStays, OwedStays
  <2>2. \A s \in Service : Phase(s)' = Phase(s) /\ IsOpen(s)' = IsOpen(s)
    BY <1>10, SeenStays
  <2> QED
    BY <2>1, <2>2 DEF A!actorVars, IsOpen
<1> QED
  BY <1>2, <1>3, <1>4, <1>5, <1>6, <1>7, <1>8, <1>9, <1>10

(* Whatever the workers, the timer and the other services do, a service    *)
(* sees one message at a time, in order, between its init (the assertion   *)
(* in dispatch_message) and the release of its instance, and the sender of *)
(* what is left in its queue finds the error in its own, unless retired    *)
(* itself: the threads, the reference counts and the global list implement *)
(* the actors.                                                             *)
THEOREM DispatchIsActors == Spec => ImplementsActors
<1>1. Init => A!ActorsInit
  <2> SUFFICES ASSUME Init PROVE A!ActorsInit
    OBVIOUS
  <2>1. messages \in [Service -> Seq(Message)]
    BY InitInv DEF IInv, TypeOK
  <2>2. \A s \in Service : Handling(s) = NoMessage
    BY DEF Init, Handling
  <2>3. \A s \in Service : Phase(s) = IF s \in Root THEN "reachable" ELSE "unborn"
    BY DEF Init, Phase
  <2>4. \A s \in Service \ Root : messages[s] = <<>>
    BY DEF Init
  <2>5. ASSUME NEW s \in Service
        PROVE  IsOpen(s) = (s \in Root)
    <3>1. release[s] = 0 /\ init[s] = (s \in Root)
      BY DEF Init
    <3>2. CASE s \in Root
      BY <3>1, <3>2 DEF IsOpen
    <3>3. CASE s \notin Root
      <4>1. (s \in Root) = FALSE
        BY <3>3
      <4>2. init[s] = FALSE
        BY <3>1, <4>1
      <4>3. IsOpen(s) = FALSE
        BY <4>2 DEF IsOpen
      <4> QED
        BY <4>1, <4>3
    <3> QED
      BY <3>2, <3>3
  <2>6. \A s \in Service : Owed(s) = {}
    <3>1. \A x \in Thread : pc[x] \notin {"sgrab", "spush"}
      BY DEF Init
    <3> QED
      BY <3>1 DEF Owed, Tells
  <2> QED
    BY <2>1, <2>2, <2>3, <2>4, <2>5, <2>6 DEF A!ActorsInit, IsOpen
<1>2. IInv /\ [Next]_vars => [A!ActorsNext]_(A!actorVars)
  <2>1. ASSUME IInv, UNCHANGED vars
        PROVE  UNCHANGED A!actorVars
    BY <2>1, HandlingIs DEF vars, services, queues, loop, sending, Phase, Owed, Tells,
                            A!actorVars
  <2> QED
    BY <2>1, StepImplements DEF Next, Asleep
<1> QED
  BY <1>1, <1>2, Invariant, PTL DEF Spec, ImplementsActors, A!ActorsSpec
=============================================================================
