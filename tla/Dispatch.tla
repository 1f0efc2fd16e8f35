------------------------------ MODULE Dispatch ------------------------------
(***************************************************************************)
(* snownet-src/snownet_server.cc with snownet_mq.cc and the global queue:  *)
(* how worker threads share out the services.                              *)
(*                                                                         *)
(* A service is a context (reference counted, found by its handle in the   *)
(* handle table) and a message queue.  A worker pops a queue from the      *)
(* global list, grabs the context of the queue's handle, runs the callback *)
(* on some of its messages, and puts the queue back or keeps it.  Callbacks*)
(* send messages, launch services and retire services, their own included, *)
(* while other threads (timer, socket) send messages too.  A retired       *)
(* service dies when its last reference goes; its queue survives it, comes *)
(* back through the global list, and is drained by whoever finds it marked.*)
(*                                                                         *)
(* Each action is one step of one thread between two points where another  *)
(* thread can see the difference: the body of a function that holds one of *)
(* the locks, or one atomic operation on a counter.  The queue of messages *)
(* is the FIFO that MessageQueue.tla is shown to implement, and the handle *)
(* table is the set of its live entries (its slots are HandleStorage.tla). *)
(***************************************************************************)
EXTENDS Integers, Sequences, FiniteSets

CONSTANTS
    Worker,        \* worker threads
    External,      \* threads that only send: timer and socket
    Service,       \* the contexts that may ever exist, by handle
    Root,          \* the services snownet_start launches before the threads run
    NoService,     \* handle 0
    NoMessage,     \* no message in hand
    Weight,        \* the weight of each worker, -1, 0, 1, ...
    Monitor,       \* the service told of exits (G_NODE.monitor_exit), or NoService
    MaxOps         \* bound: sends, launches and kills in a behaviour

Thread == Worker \cup External

ASSUME DispatchAssumption ==
    /\ Worker \cap External = {}
    /\ Root \subseteq Service
    /\ IsFiniteSet(Worker) /\ IsFiniteSet(External) /\ IsFiniteSet(Service)
    /\ NoService \notin Service
    /\ Weight \in [Worker -> Nat \cup {-1}]
    /\ \A w \in Worker : Weight[w] >= 0 => 2^Weight[w] \in Nat \ {0}
    /\ Monitor \in Service \cup {NoService}
    /\ MaxOps \in Nat

(* A message: what snownet_send keeps of it, its source and its type.      *)
Message == [source : Service \cup {NoService}, type : {"request", "error", "exit"}]

ASSUME NoMessageAssumption == NoMessage \notin Message

VARIABLES
    registered,    \* the services whose handle the handle table holds
    ref,           \* ref[s]: the context's reference count
    context,       \* context[s]: "unborn", "alive" or "freed" memory
    init,          \* init[s]: the context's init flag
    total,         \* G_NODE.total
    globalmq,      \* the global list of message queues
    messages,      \* messages[s]: the messages in s's queue
    in_global,     \* in_global[s]: the queue's in_global flag
    release,       \* release[s]: the queue's release flag
    queue,         \* queue[s]: "unborn", "alive" or "freed" memory
    ops,           \* operations done so far
    pc,            \* pc[t]: where thread t is
    q,             \* q[t]: the queue worker t dispatches
    i, n,          \* i[t], n[t]: dispatch loop counter and limit
    msg,           \* msg[t]: the message t's callback is handling
    nq,            \* nq[t]: the queue t is to go on with
    target,        \* target[t]: destination of the message t sends
    out,           \* out[t]: the message t sends
    sent,          \* sent[t]: where t goes on after sending
    victim,        \* victim[t]: the handle t retires
    born,          \* born[t]: the service t is launching
    put,           \* put[t]: the context whose reference t gives back
    after,         \* after[t]: where t goes on after giving it back
    dead           \* dead[t]: the queue t releases

services == <<registered, ref, context, init, total>>
queues   == <<globalmq, messages, in_global, release, queue>>
loop     == <<q, i, n, msg, nq>>
sending  == <<target, out, sent>>
putting  == <<put, after>>
vars == <<services, queues, loop, sending, putting, victim, born, dead, ops, pc>>

Label == {"idle", "fetch", "grab", "mqpop", "mqlen", "handler", "swap", "requeue",
          "sgrab", "spush", "put", "mark", "free", "retire",
          "init", "ready", "publish", "mqrelease", "drop"}

MaybeService == Service \cup {NoService}

TypeOK ==
    /\ registered \subseteq Service
    /\ ref \in [Service -> Int]
    /\ context \in [Service -> {"unborn", "alive", "freed"}]
    /\ init \in [Service -> BOOLEAN]
    /\ total \in Int
    /\ globalmq \in Seq(Service)
    /\ messages \in [Service -> Seq(Message)]
    /\ in_global \in [Service -> {0, 1}]
    /\ release \in [Service -> {0, 1}]
    /\ queue \in [Service -> {"unborn", "alive", "freed"}]
    /\ ops \in 0..MaxOps
    /\ pc \in [Thread -> Label]
    /\ q \in [Thread -> MaybeService] /\ nq \in [Thread -> MaybeService]
    /\ i \in [Thread -> Nat] /\ n \in [Thread -> Nat]
    /\ msg \in [Thread -> Message \cup {NoMessage}]
    /\ target \in [Thread -> MaybeService]
    /\ out \in [Thread -> Message \cup {NoMessage}]
    /\ sent \in [Thread -> Label]
    /\ victim \in [Thread -> MaybeService] /\ born \in [Thread -> MaybeService]
    /\ put \in [Thread -> MaybeService] /\ after \in [Thread -> Label]
    /\ dead \in [Thread -> MaybeService]

(* snownet_start: the root services are launched, each has a first message *)
(* (snlua sends itself its arguments), and the threads are about to run.   *)
Init ==
    /\ registered = Root
    /\ ref = [s \in Service |-> IF s \in Root THEN 1 ELSE 0]
    /\ context = [s \in Service |-> IF s \in Root THEN "alive" ELSE "unborn"]
    /\ init = [s \in Service |-> s \in Root]
    /\ total = Cardinality(Root)
    /\ globalmq \in {g \in [1..Cardinality(Root) -> Root] :
                        \A s \in Root : \E k \in DOMAIN g : g[k] = s}
    /\ messages = [s \in Service |->
            IF s \in Root THEN <<[source |-> s, type |-> "request"]>> ELSE <<>>]
    /\ in_global = [s \in Service |-> IF s \in Root THEN 1 ELSE 0]
    /\ release = [s \in Service |-> 0]
    /\ queue = [s \in Service |-> IF s \in Root THEN "alive" ELSE "unborn"]
    /\ ops = 0
    /\ pc = [t \in Thread |-> IF t \in Worker THEN "fetch" ELSE "idle"]
    /\ q = [t \in Thread |-> NoService] /\ nq = [t \in Thread |-> NoService]
    /\ i = [t \in Thread |-> 0] /\ n = [t \in Thread |-> 1]
    /\ msg = [t \in Thread |-> NoMessage]
    /\ target = [t \in Thread |-> NoService]
    /\ out = [t \in Thread |-> NoMessage]
    /\ sent = [t \in Thread |-> "idle"]
    /\ victim = [t \in Thread |-> NoService] /\ born = [t \in Thread |-> NoService]
    /\ put = [t \in Thread |-> NoService] /\ after = [t \in Thread |-> "idle"]
    /\ dead = [t \in Thread |-> NoService]
-----------------------------------------------------------------------------
Goto(t, l) == pc' = [pc EXCEPT ![t] = l]

(* context_release(s), after which t goes on at l                          *)
PutBack(t, s, l) ==
    /\ put' = [put EXCEPT ![t] = s]
    /\ after' = [after EXCEPT ![t] = l]
    /\ Goto(t, "put")

EndPut(t) ==
    /\ put' = [put EXCEPT ![t] = NoService]
    /\ after' = [after EXCEPT ![t] = "idle"]
    /\ Goto(t, after[t])

(* snownet_send(from, to, type), after which t goes on at l                *)
StartSend(t, from, to, type, l) ==
    /\ target' = [target EXCEPT ![t] = to]
    /\ out' = [out EXCEPT ![t] = [source |-> from, type |-> type]]
    /\ sent' = [sent EXCEPT ![t] = l]
    /\ Goto(t, "sgrab")

EndSend(t) ==
    /\ target' = [target EXCEPT ![t] = NoService]
    /\ out' = [out EXCEPT ![t] = NoMessage]
    /\ sent' = [sent EXCEPT ![t] = "idle"]

(* snownet_globalmq_push *)
GlobalPush(s) == globalmq' = Append(globalmq, s)

(* What a callback of t can name: the handles some init has given out.     *)
Known == {s \in Service : queue[s] # "unborn"}

(* The callback t is in: the init of a service it launches, or the message *)
(* callback of the service whose queue it dispatches.                      *)
Home(t) == IF born[t] # NoService THEN "init" ELSE "handler"
Self(t) == IF born[t] # NoService THEN born[t] ELSE q[t]
InCallback(t) == pc[t] \in {"init", "handler"}

(* Where a worker goes on after retiring a handle, and after mq_release    *)
AfterRetire(t)  == IF dead[t] # NoService THEN "mqrelease" ELSE Home(t)
AfterRelease(t) == IF q[t] = NoService THEN "fetch" ELSE "handler"
-----------------------------------------------------------------------------
(* The loop counters as the next dispatch starts with them                 *)
EndBatch(t) ==
    /\ i' = [i EXCEPT ![t] = 0]
    /\ n' = [n EXCEPT ![t] = 1]

(* snownet_context_message_dispatch with no queue in hand                  *)
Fetch(t) ==
    /\ pc[t] = "fetch"
    /\ globalmq # <<>>
    /\ q' = [q EXCEPT ![t] = Head(globalmq)]
    /\ globalmq' = Tail(globalmq)
    /\ Goto(t, "grab")
    /\ UNCHANGED <<services, messages, in_global, release, queue, i, n, msg, nq,
                   sending, putting, victim, born, dead, ops>>

(* snownet_handle_grab of the queue's handle: the service, or its remains  *)
Grab(t) ==
    /\ pc[t] = "grab"
    /\ IF q[t] \in registered
       THEN /\ ref' = [ref EXCEPT ![q[t]] = @ + 1]
            /\ Goto(t, "mqpop")
            /\ UNCHANGED <<q, dead>>
       ELSE /\ dead' = [dead EXCEPT ![t] = q[t]]
            /\ q' = [q EXCEPT ![t] = NoService]
            /\ Goto(t, "mqrelease")
            /\ UNCHANGED ref
    /\ UNCHANGED <<registered, context, init, total, queues, i, n, msg, nq,
                   sending, putting, victim, born, ops>>

(* snownet_mq_pop in the dispatch loop finds a message: the callback's     *)
MqPopMessage(t) ==
    /\ pc[t] = "mqpop" /\ messages[q[t]] # <<>>
    /\ msg' = [msg EXCEPT ![t] = Head(messages[q[t]])]
    /\ messages' = [messages EXCEPT ![q[t]] = Tail(@)]
    /\ Goto(t, IF i[t] = 0 /\ Weight[t] >= 0 THEN "mqlen" ELSE "handler")
    /\ UNCHANGED <<services, globalmq, in_global, release, queue, q, i, n, nq,
                   sending, putting, victim, born, dead, ops>>

MqPopKeepsContext(t) ==                              \* mutant of MqPopEmpty
    /\ pc[t] = "mqpop" /\ messages[q[t]] = <<>>
    /\ in_global' = [in_global EXCEPT ![q[t]] = 0]
    /\ q' = [q EXCEPT ![t] = NoService]
    /\ EndBatch(t)
    /\ Goto(t, "fetch")
    /\ UNCHANGED <<services, globalmq, messages, release, queue, msg, nq,
                   sending, putting, victim, born, dead, ops>>

MqPopStaysGlobal(t) ==                               \* mutant of MqPopEmpty
    /\ pc[t] = "mqpop" /\ messages[q[t]] = <<>>
    /\ PutBack(t, q[t], "fetch")
    /\ q' = [q EXCEPT ![t] = NoService]
    /\ EndBatch(t)
    /\ UNCHANGED <<services, queues, msg, nq, sending, victim, born, dead, ops>>

(* It finds none: the queue is left for good, the next one is fetched.     *)
MqPopEmpty(t) ==
    /\ pc[t] = "mqpop" /\ messages[q[t]] = <<>>
    /\ in_global' = [in_global EXCEPT ![q[t]] = 0]
    /\ PutBack(t, q[t], "fetch")
    /\ q' = [q EXCEPT ![t] = NoService]
    /\ EndBatch(t)
    /\ UNCHANGED <<services, globalmq, messages, release, queue, msg, nq,
                   sending, victim, born, dead, ops>>

MqLenOneLess(t) ==                                   \* mutant of MqLen
    /\ pc[t] = "mqlen"
    /\ n' = [n EXCEPT ![t] = Len(messages[q[t]]) \div 2^Weight[t] - 1]
    /\ Goto(t, "handler")
    /\ UNCHANGED <<services, queues, q, i, msg, nq, sending, putting, victim, born, dead, ops>>

(* The share of the backlog a worker of this weight takes in one dispatch  *)
MqLen(t) ==
    /\ pc[t] = "mqlen"
    /\ n' = [n EXCEPT ![t] = Len(messages[q[t]]) \div 2^Weight[t]]
    /\ Goto(t, "handler")
    /\ UNCHANGED <<services, queues, q, i, msg, nq, sending, putting, victim, born, dead, ops>>

(* The callback returns: next message of the batch, or another queue       *)
Return(t) ==
    /\ pc[t] = "handler"
    /\ msg' = [msg EXCEPT ![t] = NoMessage]
    /\ IF i[t] + 1 < n[t]
       THEN /\ i' = [i EXCEPT ![t] = @ + 1]
            /\ Goto(t, "mqpop")
            /\ UNCHANGED n
       ELSE Goto(t, "swap") /\ EndBatch(t)
    /\ UNCHANGED <<services, queues, q, nq, sending, putting, victim, born, dead, ops>>

(* The end of a dispatch: keep the queue only if no other one waits        *)
Swap(t) ==
    /\ pc[t] = "swap"
    /\ IF globalmq = <<>>
       THEN /\ PutBack(t, q[t], "grab")
            /\ UNCHANGED <<globalmq, nq>>
       ELSE /\ nq' = [nq EXCEPT ![t] = Head(globalmq)]
            /\ globalmq' = Tail(globalmq)
            /\ Goto(t, "requeue")
            /\ UNCHANGED putting
    /\ UNCHANGED <<services, messages, in_global, release, queue, q, i, n, msg,
                   sending, victim, born, dead, ops>>

Requeue(t) ==
    /\ pc[t] = "requeue"
    /\ GlobalPush(q[t])
    /\ q' = [q EXCEPT ![t] = nq[t]]
    /\ nq' = [nq EXCEPT ![t] = NoService]
    /\ PutBack(t, q[t], "grab")
    /\ UNCHANGED <<services, messages, in_global, release, queue, i, n, msg,
                   sending, victim, born, dead, ops>>
-----------------------------------------------------------------------------
(* A callback calls snownet_send.                                          *)
Send(t, d) ==
    /\ InCallback(t)
    /\ ops < MaxOps /\ ops' = ops + 1
    /\ StartSend(t, Self(t), d, "request", Home(t))
    /\ UNCHANGED <<services, queues, loop, putting, victim, born, dead>>

(* The timer or the socket thread calls snownet_context_push.              *)
SendExternal(t, d) ==
    /\ pc[t] = "idle"
    /\ ops < MaxOps /\ ops' = ops + 1
    /\ StartSend(t, NoService, d, "request", "idle")
    /\ UNCHANGED <<services, queues, loop, putting, victim, born, dead>>

(* snownet_context_push: the destination is grabbed or the message freed   *)
SendGrab(t) ==
    /\ pc[t] = "sgrab"
    /\ IF target[t] \in registered
       THEN /\ ref' = [ref EXCEPT ![target[t]] = @ + 1]
            /\ Goto(t, "spush")
            /\ UNCHANGED sending
       ELSE /\ EndSend(t)
            /\ Goto(t, sent[t])
            /\ UNCHANGED ref
    /\ UNCHANGED <<registered, context, init, total, queues, loop, putting,
                   victim, born, dead, ops>>

(* snownet_mq_push *)
SendPush(t) ==
    /\ pc[t] = "spush"
    /\ messages' = [messages EXCEPT ![target[t]] = Append(@, out[t])]
    /\ IF in_global[target[t]] = 0
       THEN /\ in_global' = [in_global EXCEPT ![target[t]] = 1]
            /\ GlobalPush(target[t])
       ELSE UNCHANGED <<in_global, globalmq>>
    /\ EndSend(t)
    /\ PutBack(t, target[t], sent[t])
    /\ UNCHANGED <<services, release, queue, loop, victim, born, dead, ops>>
-----------------------------------------------------------------------------
(* snownet_context_release: the last reference deletes the context, and a  *)
(* launcher that held it gets NULL instead of the context                  *)
Put(t) ==
    /\ pc[t] = "put"
    /\ ref' = [ref EXCEPT ![put[t]] = @ - 1]
    /\ IF ref[put[t]] = 1
       THEN /\ Goto(t, "mark")
            /\ after' = [after EXCEPT ![t] = IF @ = "ready" THEN "publish" ELSE @]
            /\ UNCHANGED put
       ELSE EndPut(t)
    /\ UNCHANGED <<registered, context, init, total, queues, loop, sending,
                   victim, born, dead, ops>>

MarkUnlisted(t) ==                                   \* mutant of Mark
    /\ pc[t] = "mark"
    /\ release' = [release EXCEPT ![put[t]] = 1]
    /\ Goto(t, "free")
    /\ UNCHANGED <<services, globalmq, messages, in_global, queue, loop, sending, putting,
                   victim, born, dead, ops>>

(* delete_context up to snownet_mq_mark_release                            *)
Mark(t) ==
    /\ pc[t] = "mark"
    /\ release' = [release EXCEPT ![put[t]] = 1]
    /\ IF in_global[put[t]] # 1 THEN GlobalPush(put[t]) ELSE UNCHANGED globalmq
    /\ Goto(t, "free")
    /\ UNCHANGED <<services, messages, in_global, queue, loop, sending, putting,
                   victim, born, dead, ops>>

(* the rest of delete_context                                              *)
Free(t) ==
    /\ pc[t] = "free"
    /\ context' = [context EXCEPT ![put[t]] = "freed"]
    /\ total' = total - 1
    /\ EndPut(t)
    /\ UNCHANGED <<registered, ref, init, queues, loop, sending,
                   victim, born, dead, ops>>
-----------------------------------------------------------------------------
(* handle_exit, from cmd_exit and cmd_kill: the monitor service is told,   *)
(* then the handle is retired                                              *)
Kill(t, v) ==
    /\ InCallback(t)
    /\ ops < MaxOps /\ ops' = ops + 1
    /\ victim' = [victim EXCEPT ![t] = v]
    /\ IF Monitor = NoService
       THEN Goto(t, "retire") /\ UNCHANGED sending
       ELSE StartSend(t, v, Monitor, "exit", "retire")
    /\ UNCHANGED <<services, queues, loop, putting, born, dead>>

(* snownet_handle_retire *)
Retire(t) ==
    /\ pc[t] = "retire"
    /\ victim' = [victim EXCEPT ![t] = NoService]
    /\ IF victim[t] \in registered
       THEN /\ registered' = registered \ {victim[t]}
            /\ PutBack(t, victim[t], AfterRetire(t))
       ELSE /\ Goto(t, AfterRetire(t))
            /\ UNCHANGED <<registered, putting>>
    /\ UNCHANGED <<ref, context, init, total, queues, loop, sending, born, dead, ops>>
-----------------------------------------------------------------------------
(* snownet_context_new up to the init callback.  Nobody else can name the  *)
(* handle before init gives it out, so its steps are seen as one.          *)
Launch(t, s) ==
    /\ pc[t] = "handler"
    /\ ops < MaxOps /\ ops' = ops + 1
    /\ context[s] = "unborn"
    /\ context' = [context EXCEPT ![s] = "alive"]
    /\ ref' = [ref EXCEPT ![s] = 2]
    /\ registered' = registered \cup {s}
    /\ queue' = [queue EXCEPT ![s] = "alive"]
    /\ in_global' = [in_global EXCEPT ![s] = 1]
    /\ total' = total + 1
    /\ born' = [born EXCEPT ![t] = s]
    /\ Goto(t, "init")
    /\ UNCHANGED <<init, globalmq, messages, release, loop, sending, putting, victim, dead>>

(* init succeeded: the launcher's reference goes back                      *)
InitOk(t) ==
    /\ pc[t] = "init"
    /\ PutBack(t, born[t], "ready")
    /\ UNCHANGED <<services, queues, loop, sending, victim, born, dead, ops>>

(* The context may be freed by now, if somebody else retired it meanwhile: *)
(* the flag then lands in memory that is no longer a context.              *)
Ready(t) ==
    /\ pc[t] = "ready"
    /\ init' = [init EXCEPT ![born[t]] = (context[born[t]] = "alive")]
    /\ Goto(t, "publish")
    /\ UNCHANGED <<registered, ref, context, total, queues, loop, sending, putting,
                   victim, born, dead, ops>>

Publish(t) ==
    /\ pc[t] = "publish"
    /\ GlobalPush(born[t])
    /\ born' = [born EXCEPT ![t] = NoService]
    /\ Goto(t, "handler")
    /\ UNCHANGED <<services, messages, in_global, release, queue, loop, sending, putting,
                   victim, dead, ops>>

(* init failed: release the context, retire its handle, release its queue  *)
InitFail(t) ==
    /\ pc[t] = "init"
    /\ born' = [born EXCEPT ![t] = NoService]
    /\ victim' = [victim EXCEPT ![t] = born[t]]
    /\ dead' = [dead EXCEPT ![t] = born[t]]
    /\ PutBack(t, born[t], "retire")
    /\ UNCHANGED <<services, queues, loop, sending, ops>>
-----------------------------------------------------------------------------
MqReleaseUnmarked(t) ==                              \* mutant of MqRelease
    /\ pc[t] = "mqrelease"
    /\ Goto(t, "drop")
    /\ UNCHANGED <<services, queues, loop, sending, putting, victim, born, dead, ops>>

(* snownet_mq_release: only a marked queue is released, any other goes back *)
MqRelease(t) ==
    /\ pc[t] = "mqrelease"
    /\ IF release[dead[t]] = 1
       THEN Goto(t, "drop") /\ UNCHANGED <<globalmq, dead>>
       ELSE /\ GlobalPush(dead[t])
            /\ dead' = [dead EXCEPT ![t] = NoService]
            /\ Goto(t, AfterRelease(t))
    /\ UNCHANGED <<services, messages, in_global, release, queue, loop, sending, putting,
                   victim, born, ops>>

DropQuietly(t) ==                                    \* mutant of Drop
    /\ pc[t] = "drop"
    /\ messages[dead[t]] # <<>>
    /\ messages' = [messages EXCEPT ![dead[t]] = Tail(@)]
    /\ UNCHANGED <<services, globalmq, in_global, release, queue, loop, sending, putting,
                   victim, born, dead, ops, pc>>

(* _drop_queue with drop_message: every source learns its message is lost  *)
Drop(t) ==
    /\ pc[t] = "drop"
    /\ messages[dead[t]] # <<>>
    /\ messages' = [messages EXCEPT ![dead[t]] = Tail(@)]
    /\ LET source == Head(messages[dead[t]]).source
       IN  IF source = NoService
           THEN UNCHANGED <<pc, sending>>
           ELSE StartSend(t, dead[t], source, "error", "drop")
    /\ UNCHANGED <<services, globalmq, in_global, release, queue, loop, putting,
                   victim, born, dead, ops>>

(* _drop_queue finds the queue empty and frees it                          *)
DropEmpty(t) ==
    /\ pc[t] = "drop"
    /\ messages[dead[t]] = <<>>
    /\ in_global' = [in_global EXCEPT ![dead[t]] = 0]
    /\ queue' = [queue EXCEPT ![dead[t]] = "freed"]
    /\ dead' = [dead EXCEPT ![t] = NoService]
    /\ Goto(t, AfterRelease(t))
    /\ UNCHANGED <<services, globalmq, messages, release, loop, sending, putting,
                   victim, born, ops>>
-----------------------------------------------------------------------------
Step(t) ==
    \/ Fetch(t) \/ Grab(t) \/ MqPopMessage(t) \/ MqPopEmpty(t) \/ MqLen(t)
    \/ Return(t) \/ Swap(t) \/ Requeue(t)
    \/ SendGrab(t) \/ SendPush(t) \/ Put(t) \/ Mark(t) \/ Free(t) \/ Retire(t)
    \/ InitOk(t) \/ InitFail(t) \/ Ready(t) \/ Publish(t)
    \/ MqRelease(t) \/ Drop(t) \/ DropEmpty(t)

Call(t) ==
    \/ \E d \in Known : Send(t, d) \/ SendExternal(t, d) \/ Kill(t, d)
    \/ \E s \in Service : Launch(t, s)

(* Nothing is left to do: every worker sleeps (WorkerSleep.tla).           *)
Asleep ==
    /\ \A t \in Thread : pc[t] \in {"fetch", "idle"}
    /\ globalmq = <<>>
    /\ UNCHANGED vars

Next == (\E t \in Thread : Step(t) \/ Call(t)) \/ Asleep

Spec == Init /\ [][Next]_vars

(* Every thread goes on when it can; a callback may take any time but it   *)
(* returns, and what it does before is bounded.                            *)
FairSpec == Spec /\ \A t \in Thread : WF_vars(Step(t))
-----------------------------------------------------------------------------
(* The references a thread has taken and not given back                    *)
GivingBack(t, labels) == pc[t] \in {"put", "mark", "free"} /\ after[t] \in labels
Dispatching(t, s) == q[t] = s /\ pc[t] # "grab" /\ ~GivingBack(t, {"grab"})
Sending(t, s)     == pc[t] = "spush" /\ target[t] = s
Releasing(t, s)   == pc[t] = "put" /\ put[t] = s
Launching(t, s)   == /\ born[t] = s
                     /\ pc[t] \notin {"ready", "publish"}
                     /\ ~GivingBack(t, {"ready", "publish"})

Holders(s) ==
    {<<t, "dispatch">> : t \in {x \in Thread : Dispatching(x, s)}} \cup
    {<<t, "send">>     : t \in {x \in Thread : Sending(x, s)}} \cup
    {<<t, "release">>  : t \in {x \in Thread : Releasing(x, s)}} \cup
    {<<t, "launch">>   : t \in {x \in Thread : Launching(x, s)}}

(* The count in every context is the handle table's reference and those in *)
(* the threads' hands, so that a context is deleted when the last one goes *)
(* and never before: whoever has grabbed one finds it alive.  The total is *)
(* the number of contexts whose memory is live: the threads stop           *)
(* (CHECK_ABORT) when all are gone and not before.                         *)
ReferencesCounted ==
    /\ \A s \in Service :
           /\ ref[s] = Cardinality(Holders(s)) + (IF s \in registered THEN 1 ELSE 0)
           /\ ref[s] > 0 => context[s] = "alive"
    /\ total = Cardinality({s \in Service : context[s] = "alive"})

(* A queue's places: on the global list, in a thread's hands, or parked    *)
(* with its flag down until a push announces it.                           *)
Listed(s) == {k \in DOMAIN globalmq : globalmq[k] = s}
InHands(s) ==
    {<<t, "dispatch">> : t \in {x \in Thread : q[x] = s}} \cup
    {<<t, "next">>     : t \in {x \in Thread : nq[x] = s}} \cup
    {<<t, "launch">>   : t \in {x \in Thread : born[x] = s}} \cup
    {<<t, "release">>  : t \in {x \in Thread : dead[x] = s}}

(* A parked queue is empty, its service can still be sent to or is about   *)
(* to be deleted, and the deletion has not yet marked it.                  *)
Parked(s) == in_global[s] = 0 /\ release[s] = 0 /\ messages[s] = <<>>

(* A live queue is in one place only: never twice on the list (assertions  *)
(* of snownet_globalmq_push and _release), never with two workers, and     *)
(* never lost with messages in it or with its service deleted; a freed     *)
(* queue is nowhere.                                                       *)
QueueHasOnePlace ==
    \A s \in Service :
        LET places == Cardinality(Listed(s)) + Cardinality(InHands(s))
        IN  CASE queue[s] = "alive" ->
                    places = 1 \/ (places = 0 /\ Parked(s))
              [] OTHER -> places = 0

(* The message the service's callback is handling                          *)
Handling(s) ==
    LET busy == {t \in Thread : q[t] = s /\ msg[t] # NoMessage}
    IN  IF busy = {} THEN NoMessage ELSE msg[CHOOSE t \in busy : TRUE]

Phase(s) ==
    IF context[s] = "unborn" THEN "unborn"
    ELSE IF release[s] = 1 THEN "gone"
    ELSE IF s \in registered THEN "reachable" ELSE "retired"

(* The sender that a thread which drains the queue of s is to tell         *)
Tells(t, s) == dead[t] = s /\ pc[t] \in {"sgrab", "spush"} /\ sent[t] = "drop"
Owed(s) == {target[t] : t \in {x \in Thread : Tells(x, s)}}

A == INSTANCE Actors WITH
        mailbox  <- messages,
        handling <- [s \in Service |-> Handling(s)],
        phase    <- [s \in Service |-> Phase(s)],
        ready    <- [s \in Service |-> init[s] /\ release[s] = 0],
        owed     <- [s \in Service |-> Owed(s)]

(* Whatever the workers, the timer and the other services do, a service    *)
(* sees one message at a time, in order, between its init (the assertion   *)
(* in dispatch_message) and the release of its instance; and whoever sent  *)
(* it what it did not live to handle is told, unless retired meanwhile.    *)
ImplementsActors == A!ActorsSpec

(* What is accepted for a service leaves its queue in the end, handled or  *)
(* dropped by the drain (whose error to the sender is ImplementsActors').  *)
BacklogDrains == \A s \in Service : messages[s] # <<>> ~> messages[s] = <<>>

(* A retired service's context and queue are given back in the end.        *)
RetiredIsFreed ==
    \A s \in Service :
        (queue[s] = "alive" /\ s \notin registered)
            ~> (context[s] = "freed" /\ queue[s] = "freed")
=============================================================================
