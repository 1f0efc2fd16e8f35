----------------------------- MODULE LuaService -----------------------------
(***************************************************************************)
(* lualib/snownet.lua and lualib/snownet/queue.lua: the coroutines of one  *)
(* Lua service.                                                            *)
(*                                                                         *)
(* Each message is handled by one pcall of raw_dispatch_message, which     *)
(* resumes a coroutine; when that one yields SUSPEND, suspend resumes      *)
(* another, taken from the wakeup queue or the error queue, inside the     *)
(* same call; when nothing is left the forked coroutines run, each in a    *)
(* pcall of its own.  A coroutine runs the service's program, which is     *)
(* arbitrary: each step of it is one call of the library.                  *)
(*                                                                         *)
(* The nested calls of suspend are all the same but for how many of them   *)
(* still owe a dispatch_error_queue: that number, owed, is the stack.      *)
(*                                                                         *)
(* The messages come in batches (snownet_context_message_dispatch), and a  *)
(* handler may call snownet.exit anywhere in one: the worker goes on to    *)
(* hand over the rest of the batch, and only then drops what is left.      *)
(***************************************************************************)
EXTENDS Integers, Sequences, FiniteSets

CONSTANTS
    Co,            \* coroutine objects; a coroutine is also its sleep token
    Peers,         \* the other services
    Requests,      \* what the peers ask of this service, each once
    From,          \* From[r]: the peer that asks r
    MaxSession,    \* bound: sessions allocated, requests received and the exit
    MaxTokens,     \* bound: tokens in the wakeup queue when wakeup adds one
    MaxDepth,      \* bound: nested uses of the queue by one coroutine
    None           \* nil

Session == 1..MaxSession
Send    == 0       \* the session of a message that wants no answer

ASSUME LuaServiceAssumption ==
    /\ From \in [Requests -> Peers]
    /\ MaxSession \in Nat /\ MaxDepth \in Nat /\ MaxTokens \in Nat
    /\ Requests \cap {Send, None} = {} /\ Co \cap {"BREAK", None} = {}
    /\ None \notin Peers /\ None \notin Session /\ None # Send /\ None # "BREAK"
    /\ IsFiniteSet(Co) /\ IsFiniteSet(Requests)

VARIABLES
    pc,            \* where dispatch_message is: "idle", "run" (a coroutine),
                   \* "wakeup", "error" or "forks"
    cur,           \* the coroutine that runs
    running,       \* running_thread
    owed,          \* calls of suspend that have yet to call dispatch_error_queue
    frame,         \* frame[c]: what coroutine c does, the session it waits for
                   \* and how deep it is in the functions of the queue
    coroutineOf,   \* session_id_coroutine
    watching,      \* watching_session
    sleep,         \* sleep_session
    sessionOf,     \* session_coroutine_id
    unresponse,    \* requests with a response closure that may still answer
    asked,         \* asked[r]: "new", "open", "late" (open, and received after
                   \* an exit), "answered", "again", "forgotten"
    wakeupQueue, errorQueue,
    forks,         \* fork_queue: next() gives its entries in no promised order
    kicks,         \* the empty functions in it, forked to trigger SUSPEND
    mutex,         \* current_thread, ref and thread_queue of the queue
    timers,        \* sessions whose timer has not answered
    calls,         \* sessions whose callee has not answered
    down,          \* the peers that have reported their exit
    session,       \* sessions allocated so far
    exited,        \* snownet.exit has been called
    young,         \* sessions asked for since the batch began, whose answers
                   \* cannot be in it
    doubled        \* a token has been put in the wakeup queue twice

loop     == <<pc, cur, running, owed>>
tables   == <<coroutineOf, watching, sleep>>
queues   == <<wakeupQueue, errorQueue, forks, kicks, doubled>>
requests == <<sessionOf, unresponse, asked>>
world    == <<timers, calls, down, session, exited, young>>
vars     == <<loop, frame, tables, queues, mutex, requests, world>>

Frame(st, s, depth) == [st |-> st, s |-> s, depth |-> depth]
Free == Frame("free", None, 0)

Sleeping == {"sleep", "wait", "queue"}     \* blocked in suspend_sleep
Blocked  == Sleeping \cup {"call"}

Init ==
    /\ pc = "idle" /\ cur = None /\ running = None /\ owed = 0
    /\ frame = [c \in Co |-> Free]
    /\ coroutineOf = [s \in Session |-> None]
    /\ watching = [s \in Session |-> None]
    /\ sleep = [c \in Co |-> None]
    /\ sessionOf = [c \in Co |-> None]
    /\ unresponse = {} /\ asked = [r \in Requests |-> "new"]
    /\ wakeupQueue = <<>> /\ errorQueue = <<>> /\ forks = {} /\ kicks = 0
    /\ mutex = [thread |-> None, ref |-> 0, threads |-> <<>>]
    /\ timers = {} /\ calls = {} /\ down = {}
    /\ session = 0 /\ exited = FALSE /\ young = {} /\ doubled = FALSE

-----------------------------------------------------------------------------
(* Coroutines.                                                             *)

More == session + Cardinality({r \in Requests : asked[r] # "new"})
                + (IF exited THEN 1 ELSE 0) < MaxSession

(* co_create: a coroutine of the pool, or a new one if the collector has   *)
(* emptied the weak pool; a free one is either.  The running thread is the *)
(* caller's again when the function has been passed.                       *)
Create(c) == frame[c].st = "free"

(* running_thread is read again only when the next coroutine has been      *)
(* resumed.                                                                *)
Stop == cur' = None /\ running' = None

(* The coroutine yields SUSPEND: suspend calls dispatch_wakeup and owes a  *)
(* call of dispatch_error_queue.                                           *)
Suspend == pc' = "wakeup" /\ owed' = owed + 1 /\ Stop

(* What c does first when it goes on: sleep, wait and yield_call clean up  *)
(* behind their yield, and a thread of the queue checks that its turn has  *)
(* come (ref = 0) and enters, or fails.  before is session_id_coroutine as *)
(* the one who resumes c has left it, unset the kinds that clear it.       *)
CleanUp(c, before, unset) ==
    LET f == frame[c]
        enters == f.st = "queue" /\ mutex.ref = 0
    IN  /\ sleep' = [sleep EXCEPT ![c] = None]
        /\ coroutineOf' = IF f.st \in unset THEN [before EXCEPT ![f.s] = None]
                                            ELSE before
        /\ watching' = IF f.st = "call" THEN [watching EXCEPT ![f.s] = None]
                                        ELSE watching
        /\ frame' = [frame EXCEPT ![c] =
                        Frame("run", None, IF enters THEN @.depth + 1 ELSE @.depth)]
        /\ mutex' = IF enters THEN [mutex EXCEPT !.thread = c, !.ref = 1] ELSE mutex

GoOn(c, before) == CleanUp(c, before, {"wait", "queue"})

(* coroutine_resume *)
Resume(c, before) == pc' = "run" /\ cur' = c /\ running' = c /\ GoOn(c, before)

-----------------------------------------------------------------------------
(* raw_dispatch_message.                                                   *)

Fresh(r) == pc = "idle" /\ asked[r] = "new" /\ From[r] \notin down /\ More

(* A request or a message without session starts a coroutine ...           *)
Start(c, id) ==
    /\ Create(c)
    /\ frame' = [frame EXCEPT ![c] = Frame("run", None, 0)]
    /\ sessionOf' = [sessionOf EXCEPT ![c] = id]
    /\ pc' = "run" /\ cur' = c /\ running' = c
    /\ UNCHANGED <<owed, tables, queues, mutex, unresponse, world>>

(* ... unless its unpack raises, in the arguments of coroutine_resume: the  *)
(* coroutine is charged with the session and never starts.                 *)
Stillborn(c, id) ==
    /\ Create(c)
    /\ frame' = [frame EXCEPT ![c] = Frame("dead", None, 0)]
    /\ sessionOf' = [sessionOf EXCEPT ![c] = id]
    /\ UNCHANGED <<loop, tables, queues, mutex, unresponse, world>>

ReceiveRequest(r, c) ==
    /\ Fresh(r) /\ (Start(c, r) \/ Stillborn(c, r))
    /\ asked' = [asked EXCEPT ![r] = IF exited THEN "late" ELSE "open"]

ReceiveSend(c) ==
    /\ pc = "idle" /\ (Start(c, Send) \/ Stillborn(c, Send))
    /\ UNCHANGED asked

(* A request of a protocol nobody dispatches is answered with an error.    *)
ReceiveUnknown(r) ==
    /\ Fresh(r)
    /\ asked' = [asked EXCEPT ![r] = "answered"]
    /\ UNCHANGED <<loop, frame, tables, queues, mutex, sessionOf, unresponse, world>>

(* Any message may be the first of its batch, and so have an answer to all *)
(* that was asked for before; but after an exit nothing more is pushed to  *)
(* the service, and the batch goes on with what was there when it began.   *)
MayArrive(s) == pc = "idle" /\ s \notin young

(* PTYPE_RESPONSE: a timer's answer or a callee's, for whoever is          *)
(* registered under the session.  A sleeper woken before has left BREAK;   *)
(* an unknown session is an error, logged.                                 *)
ReceiveResponse(s) ==
    /\ MayArrive(s) /\ s \in timers \cup calls /\ watching[s] \notin down
    /\ timers' = timers \ {s} /\ calls' = calls \ {s}
    /\ LET cleared == [coroutineOf EXCEPT ![s] = None]
       IN  \/ /\ coroutineOf[s] \in Co
              /\ Resume(coroutineOf[s], cleared)
           \/ /\ coroutineOf[s] \notin Co
              /\ coroutineOf' = cleared
              /\ UNCHANGED <<pc, cur, running, frame, watching, sleep, mutex>>
    /\ UNCHANGED <<owed, queues, requests, down, session, exited, young>>

(* PTYPE_ERROR: _error_dispatch runs in a coroutine of its own, which ends *)
(* at once; queued are the sessions it puts in the error queue.            *)
Handled(queued) ==
    /\ errorQueue' = errorQueue \o queued
    /\ Suspend
    /\ UNCHANGED <<frame, tables, wakeupQueue, forks, kicks, doubled, mutex,
                   sessionOf, asked, timers, session, exited, young>>

ReceiveError(s) ==
    /\ MayArrive(s) /\ s \in calls
    /\ calls' = calls \ {s}
    /\ Handled(IF watching[s] # None THEN <<s>> ELSE <<>>)
    /\ UNCHANGED <<unresponse, down>>

(* The peer p, which was calling this service, has exited: calls to it     *)
(* fail, in the order pairs gives, and what it asked needs no answer.      *)
ReceiveDown(p) ==
    /\ pc = "idle" /\ p \notin down
    /\ \E r \in Requests : From[r] = p /\ asked[r] # "new"
    /\ down' = down \cup {p}
    /\ unresponse' = {r \in unresponse : From[r] # p}
    /\ LET watched == {s \in Session : watching[s] = p}
       IN  \E order \in [1..Cardinality(watched) -> watched] :
               /\ \A i, j \in DOMAIN order : order[i] = order[j] => i = j
               /\ Handled(order)
    /\ UNCHANGED calls

-----------------------------------------------------------------------------
(* suspend, after a yield of SUSPEND.                                      *)

(* dispatch_wakeup: one token; the owner of a token that sleeps no more is *)
(* passed over, and nothing else is resumed.                               *)
DispatchWakeup ==
    /\ pc = "wakeup" /\ wakeupQueue # <<>>
    /\ LET s == sleep[Head(wakeupQueue)]
       IN  \/ /\ s # None
              /\ Resume(coroutineOf[s], [coroutineOf EXCEPT ![s] = "BREAK"])
           \/ /\ s = None
              /\ pc' = "error"
              /\ UNCHANGED <<cur, running, frame, tables, mutex>>
    /\ wakeupQueue' = Tail(wakeupQueue)
    /\ UNCHANGED <<owed, errorQueue, forks, kicks, doubled, requests, world>>

ErrorStage == pc = "error" \/ (pc = "wakeup" /\ wakeupQueue = <<>>)

(* dispatch_error_queue: one session; its coroutine's call fails.  A       *)
(* session that was queued twice has no coroutine the second time, and     *)
(* resuming nothing throws, past every suspend that was owed something.    *)
DispatchErrorQueue ==
    /\ ErrorStage /\ owed > 0 /\ errorQueue # <<>>
    /\ LET s == Head(errorQueue)
           cleared == [coroutineOf EXCEPT ![s] = None]
       IN  \/ /\ coroutineOf[s] \in Co
              /\ Resume(coroutineOf[s], cleared)
              /\ owed' = owed - 1
           \/ /\ coroutineOf[s] \notin Co
              /\ coroutineOf' = cleared
              /\ pc' = "forks" /\ owed' = 0
              /\ UNCHANGED <<cur, running, frame, watching, sleep, mutex>>
    /\ errorQueue' = Tail(errorQueue)
    /\ UNCHANGED <<wakeupQueue, forks, kicks, doubled, requests, world>>

(* Every suspend has returned, and so does raw_dispatch_message.           *)
NothingToResume ==
    /\ ErrorStage /\ (owed = 0 \/ errorQueue = <<>>)
    /\ pc' = "forks" /\ owed' = 0
    /\ UNCHANGED <<cur, running, frame, tables, queues, mutex, requests, world>>

(* dispatch_message: the forked coroutines, one after the other.           *)
RunFork(c) ==
    /\ pc = "forks" /\ c \in forks
    /\ forks' = forks \ {c}
    /\ Resume(c, coroutineOf)
    /\ UNCHANGED <<owed, wakeupQueue, errorQueue, kicks, doubled, requests, world>>

RunKick ==
    /\ pc = "forks" /\ kicks > 0
    /\ kicks' = kicks - 1
    /\ Suspend
    /\ UNCHANGED <<frame, tables, wakeupQueue, errorQueue, forks, doubled, mutex,
                   requests, world>>

(* The worker hands over the next message: of the same batch, if the       *)
(* service has exited.                                                     *)
MessageDone ==
    /\ pc = "forks" /\ forks = {} /\ kicks = 0
    /\ pc' = "idle"
    /\ young' = IF exited THEN young ELSE {}
    /\ UNCHANGED <<cur, running, owed, frame, tables, queues, mutex, requests,
                   timers, calls, down, session, exited>>

-----------------------------------------------------------------------------
(* The library as the running coroutine calls it.                          *)

Running == pc = "run"

(* A new session is registered for coroutine c, in state st.               *)
Register(c, by, st) ==
    /\ Running /\ More
    /\ session' = session + 1
    /\ frame' = [frame EXCEPT ![c] = Frame(st, session', @.depth)]
    /\ coroutineOf' = [coroutineOf EXCEPT ![session'] = by]
    /\ UNCHANGED <<down, exited, queues, requests>>

SuspendSleep(st) ==
    /\ Register(cur, running, st) /\ Suspend
    /\ sleep' = [sleep EXCEPT ![cur] = session']
    /\ UNCHANGED <<watching, calls>>

Sleep ==
    /\ SuspendSleep("sleep")
    /\ timers' = timers \cup {session'} /\ young' = young \cup {session'}
    /\ UNCHANGED mutex

Wait == SuspendSleep("wait") /\ UNCHANGED <<timers, young, mutex>>

(* snownet.call: send, then yield_call.                                    *)
Call(p) ==
    /\ Register(cur, running, "call") /\ Suspend
    /\ watching' = [watching EXCEPT ![session'] = p]
    /\ calls' = calls \cup {session'} /\ young' = young \cup {session'}
    /\ UNCHANGED <<sleep, mutex, timers>>

(* snownet.timeout: a coroutine that starts when the timer answers.        *)
Timeout(c) ==
    /\ Create(c) /\ Register(c, c, "fresh")
    /\ timers' = timers \cup {session'} /\ young' = young \cup {session'}
    /\ UNCHANGED <<loop, watching, sleep, mutex, calls>>

(* snownet.fork; after is the running thread when it returns.              *)
ForkLeaving(c, after) ==
    /\ Running /\ Create(c)
    /\ frame' = [frame EXCEPT ![c] = Frame("fresh", None, 0)]
    /\ forks' = forks \cup {c}
    /\ running' = after
    /\ UNCHANGED <<pc, cur, owed, tables, wakeupQueue, errorQueue, kicks, doubled,
                   mutex, requests, world>>

ForkNotRestored(c) == ForkLeaving(c, c)              \* mutant of Fork
Fork(c) == ForkLeaving(c, running)

InWakeupQueue(c) == \E i \in DOMAIN wakeupQueue : wakeupQueue[i] = c

(* snownet.wakeup.                                                         *)
Woken(c) ==
    /\ wakeupQueue' = IF sleep[c] # None THEN Append(wakeupQueue, c) ELSE wakeupQueue
    /\ doubled' = (doubled \/ InWakeupQueue(c))

(* The program wakes a coroutine of its own that sleeps or waits; the ones *)
(* that wait in the queue are the queue's to wake.                         *)
Wakeup(c) ==
    /\ Running /\ frame[c].st \in {"sleep", "wait"}
    /\ Len(wakeupQueue) < MaxTokens
    /\ Woken(c)
    /\ UNCHANGED <<loop, frame, tables, errorQueue, forks, kicks, mutex, requests, world>>

(* An answer goes out to each of rs.                                       *)
Answer(rs) ==
    asked' = [r \in Requests |->
                 CASE r \notin rs -> asked[r]
                   [] r \in rs /\ asked[r] \in {"open", "late"} -> "answered"
                   [] OTHER -> "again"]

(* snownet.ret or snownet.response: the session is running_thread's.       *)
Detach(keep) ==
    /\ Running /\ sessionOf[running] # None
    /\ sessionOf' = [sessionOf EXCEPT ![running] = None]
    /\ unresponse' = IF keep THEN unresponse \cup ({sessionOf[running]} \ {Send})
                             ELSE unresponse
    /\ UNCHANGED <<loop, frame, tables, queues, mutex, world>>

Ret      == Detach(FALSE) /\ Answer({sessionOf[running]})
Response == Detach(TRUE) /\ UNCHANGED asked

(* Any coroutine calls the closure, with true or false.                    *)
Respond(r) ==
    /\ Running /\ r \in unresponse
    /\ unresponse' = unresponse \ {r}
    /\ Answer({r})
    /\ UNCHANGED <<loop, frame, tables, queues, mutex, sessionOf, world>>

(* The function returns: its session, if any, is forgotten with a warning, *)
(* and the coroutine goes to the pool.                                     *)
Finish ==
    /\ Running /\ frame[cur].depth = 0
    /\ frame' = [frame EXCEPT ![cur] = Free]
    /\ sessionOf' = [sessionOf EXCEPT ![cur] = None]
    /\ asked' = [r \in Requests |->
                    IF r = sessionOf[cur] /\ asked[r] \in {"open", "late"} THEN "forgotten"
                                                                           ELSE asked[r]]
    /\ Suspend
    /\ UNCHANGED <<tables, queues, mutex, unresponse, world>>

(* The function fails: suspend answers its request with an error, forks an *)
(* empty function and throws, past every suspend that was owed something.  *)
Fail(replied, forked) ==
    /\ Running /\ frame[cur].depth = 0
    /\ frame' = [frame EXCEPT ![cur] = Frame("dead", None, 0)]
    /\ sessionOf' = [sessionOf EXCEPT ![cur] = None]
    /\ Answer(replied)
    /\ kicks' = kicks + forked
    /\ pc' = "forks" /\ owed' = 0 /\ Stop
    /\ UNCHANGED <<tables, wakeupQueue, errorQueue, forks, doubled, mutex, unresponse,
                   world>>

ThrowUnanswered  == Fail({}, 1)                      \* mutant of Throw
ThrowUntriggered == Fail({sessionOf[cur]}, 0)        \* mutant of Throw
Throw == Fail({sessionOf[cur]}, 1)

(* snownet.exit: every request that is open gets an error, by its          *)
(* coroutine's session, which is kept, or by its closure.  A handler of a  *)
(* later message of the batch may call it again.                           *)
Exit ==
    /\ Running
    /\ exited' = TRUE
    /\ forks' = {} /\ kicks' = 0
    /\ Answer(unresponse \cup {sessionOf[c] : c \in Co})
    /\ unresponse' = {}
    /\ frame' = [frame EXCEPT ![cur] = Frame("dead", None, @.depth)]
    /\ pc' = "error" /\ Stop
    /\ UNCHANGED <<owed, tables, wakeupQueue, errorQueue, doubled, mutex, sessionOf,
                   timers, calls, down, session, young>>

-----------------------------------------------------------------------------
(* queue.lua: one queue, shared by the coroutines.                         *)

Enters(count) ==
    /\ Running /\ mutex.thread \in {None, cur} /\ frame[cur].depth < MaxDepth
    /\ mutex' = [mutex EXCEPT !.thread = cur, !.ref = count]
    /\ frame' = [frame EXCEPT ![cur].depth = @ + 1]
    /\ UNCHANGED <<loop, tables, queues, requests, world>>

EnterUncounted == Enters(1)                          \* mutant of Enter
Enter == Enters(mutex.ref + 1)

EnterQueue ==
    /\ Running /\ mutex.thread \notin {None, cur}
    /\ SuspendSleep("queue")
    /\ mutex' = [mutex EXCEPT !.threads = Append(@, cur)]
    /\ UNCHANGED <<timers, young>>

(* xpcall_ret, after the function has returned or failed: the last one out *)
(* wakes the first thread that waits; next is current_thread then.         *)
Leaves(next) ==
    /\ Running /\ frame[cur].depth > 0
    /\ frame' = [frame EXCEPT ![cur].depth = @ - 1]
    /\ LET ref == mutex.ref - 1
           waits == mutex.threads
       IN  \/ /\ ref = 0 /\ waits # <<>>
              /\ mutex' = [thread |-> next, ref |-> 0, threads |-> Tail(waits)]
              /\ Woken(Head(waits))
           \/ /\ ref # 0 \/ waits = <<>>
              /\ mutex' = [mutex EXCEPT !.ref = ref,
                                        !.thread = IF ref = 0 THEN None ELSE @]
              /\ UNCHANGED <<wakeupQueue, doubled>>
    /\ UNCHANGED <<loop, tables, errorQueue, forks, kicks, requests, world>>

LeaveOpen == Leaves(None)                            \* mutant of Leave
Leave == Leaves(Head(mutex.threads))

-----------------------------------------------------------------------------
Library ==
    \/ Sleep \/ Wait \/ Ret \/ Response \/ Finish \/ Throw \/ Exit
    \/ Enter \/ EnterQueue \/ Leave
    \/ \E p \in Peers : Call(p)
    \/ \E c \in Co : Timeout(c) \/ Fork(c) \/ Wakeup(c)
    \/ \E r \in Requests : Respond(r)

Scheduler ==
    \/ DispatchWakeup \/ DispatchErrorQueue \/ NothingToResume
    \/ RunKick \/ MessageDone
    \/ \E c \in Co : RunFork(c)

Receive ==
    \/ \E s \in Session : ReceiveResponse(s) \/ ReceiveError(s)
    \/ \E r \in Requests : ReceiveUnknown(r) \/ \E c \in Co : ReceiveRequest(r, c)
    \/ \E c \in Co : ReceiveSend(c)
    \/ \E p \in Peers : ReceiveDown(p)

Next == Library \/ Scheduler \/ Receive

Spec == Init /\ [][Next]_vars

-----------------------------------------------------------------------------
(* The tables have their types, and the count of the queue (ref) and of    *)
(* the calls that are owed never go below zero.                            *)
TypeOK ==
    /\ pc \in {"idle", "run", "wakeup", "error", "forks"}
    /\ cur \in Co \cup {None} /\ running \in Co \cup {None}
    /\ owed \in Nat /\ kicks \in Nat
    /\ frame \in [Co -> [st : Blocked \cup {"free", "dead", "run", "fresh"},
                         s : Session \cup {None}, depth : Nat]]
    /\ coroutineOf \in [Session -> Co \cup {None, "BREAK"}]
    /\ watching \in [Session -> Peers \cup {None}]
    /\ sleep \in [Co -> Session \cup {None}]
    /\ sessionOf \in [Co -> Requests \cup {Send, None}]
    /\ unresponse \subseteq Requests
    /\ asked \in [Requests -> {"new", "open", "late", "answered", "again", "forgotten"}]
    /\ wakeupQueue \in Seq(Co) /\ errorQueue \in Seq(Session) /\ forks \subseteq Co
    /\ mutex \in [thread : Co \cup {None}, ref : Nat, threads : Seq(Co)]
    /\ timers \subseteq Session /\ calls \subseteq Session /\ down \subseteq Peers
    /\ session \in 0..MaxSession /\ young \subseteq Session
    /\ exited \in BOOLEAN /\ doubled \in BOOLEAN

(* Whoever waits is registered under the session it waits for and no       *)
(* other, the sleepers by their token too, and whoever does not wait is    *)
(* registered nowhere: a coroutine is resumed once for each time it        *)
(* blocks, by what it blocked for.  What a woken sleeper leaves under its  *)
(* session is taken away by its timer's answer, which is still to come     *)
(* (for ever, if the service exits first).                                 *)
RegisteredOnce ==
    /\ \A c \in Co :
        LET f == frame[c]
            waits == f.st \in Blocked \/ (f.st = "fresh" /\ f.s # None)
        IN  /\ {s \in Session : coroutineOf[s] = c} = IF waits THEN {f.s} ELSE {}
            /\ {s \in Session : watching[s] # None /\ s = f.s} =
                   IF f.st = "call" THEN {f.s} ELSE {}
            /\ sleep[c] = IF f.st \in Sleeping THEN f.s ELSE None
            /\ c \in forks => f.st = "fresh" /\ f.s = None
    /\ \A s \in Session : coroutineOf[s] = "BREAK" => s \in timers

(* When a message has been handled nothing that it set off is left for the *)
(* next: no fork, no failed call, and no wakeup, unless a token was put in *)
(* the queue twice, when dispatch_wakeup stops at the second one.  After   *)
(* an exit, whose QUIT dispatches neither queue, tokens and failed calls   *)
(* may meet the next message of the batch; forks never do.                 *)
NothingLeftBehind ==
    pc = "idle" =>
        /\ forks = {} /\ kicks = 0
        /\ errorQueue = <<>> \/ exited
        /\ wakeupQueue = <<>> \/ doubled \/ exited

(* Every request is answered once: until then exactly one coroutine or     *)
(* one closure is charged with it, unless its handler has ended without    *)
(* answering or the peer is down.  The exit leaves none open of those that *)
(* were received before it; one that comes later in the batch is open      *)
(* until its handler answers it, or calls snownet.exit itself.             *)
AnsweredOnce ==
    \A r \in Requests :
        LET holders == Cardinality({c \in Co : sessionOf[c] = r})
                       + Cardinality({r} \cap unresponse)
        IN  CASE asked[r] = "open"  -> (~exited /\ holders = 1) \/ From[r] \in down
              [] asked[r] = "late"  -> holders = 1 \/ From[r] \in down
              [] asked[r] = "again" -> exited
              [] OTHER              -> exited \/ holders = 0

(* Until the exit, the queue runs one coroutine's functions at a time,     *)
(* counts them right, and while some wait for it somebody is in it or has  *)
(* been handed it.                                                         *)
QueueIsExclusive ==
    ~doubled /\ ~exited =>
        /\ \A c \in Co : frame[c].depth > 0 =>
               mutex.thread = c /\ mutex.ref = frame[c].depth
        /\ mutex.ref = 0 /\ mutex.thread # None => InWakeupQueue(mutex.thread)
        /\ mutex.threads # <<>> => mutex.thread # None
=============================================================================
