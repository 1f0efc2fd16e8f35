---------------------------- MODULE WorkerSleep ----------------------------
(***************************************************************************)
(* snownet-src/snownet_start.cc: how the threads sleep, wake each other    *)
(* and stop.                                                               *)
(*                                                                         *)
(* A worker that finds no queue waits on a condition variable.  The socket *)
(* thread, after a poll that pushed something, wakes the workers only if   *)
(* all of them sleep; the timer thread does so at every tick if any sleeps.*)
(* Both look at the count of sleepers without the mutex.  When no context  *)
(* is left the timer stops the socket thread and the workers.              *)
(*                                                                         *)
(* What is done under the mutex is one action: the count, the quit flag    *)
(* and the condition are written nowhere else.  Queues are counted, not    *)
(* named (Dispatch.tla is about them).                                     *)
(***************************************************************************)
EXTENDS Integers, FiniteSets

CONSTANTS
    Worker,        \* the worker threads
    MaxContexts,   \* bound: services when the threads start
    MaxPush        \* bound: queues pushed to the global list

ASSUME SleepAssumption ==
    /\ IsFiniteSet(Worker) /\ Worker # {}
    /\ MaxContexts \in Nat /\ MaxPush \in Nat

count == Cardinality(Worker)

VARIABLES
    sleep,         \* m->sleep
    quit,          \* m->quit
    total,         \* snownet_context_total()
    work,          \* queues in the global list
    pushes,        \* pushed so far
    exiting,       \* snownet_socket_exit has been called
    worker,        \* worker[w]: where worker w is
    timer, socket, monitor   \* where the other threads are

vars == <<sleep, quit, total, work, pushes, exiting, worker, timer, socket, monitor>>

TypeOK ==
    /\ sleep \in 0..count
    /\ quit \in {0, 1}
    /\ total \in 0..MaxContexts
    /\ work \in 0..MaxPush /\ pushes \in 0..MaxPush
    /\ exiting \in BOOLEAN
    /\ worker \in [Worker -> {"loop", "dispatch", "none", "waiting", "woken", "exit"}]
    /\ timer \in {"update", "look", "notify", "stop", "exit"}
    /\ socket \in {"poll", "look", "notify", "exit"}
    /\ monitor \in {"check", "exit"}

Init ==
    /\ sleep = 0 /\ quit = 0
    /\ total \in 1..MaxContexts
    /\ work = 0 /\ pushes = 0
    /\ exiting = FALSE
    /\ worker = [w \in Worker |-> "loop"]
    /\ timer = "update" /\ socket = "poll" /\ monitor = "check"

MoveTo(w, l) == worker' = [worker EXCEPT ![w] = l]

(* A queue is pushed to the global list, or nothing is.                    *)
MayPush ==
    \/ UNCHANGED <<work, pushes>>
    \/ pushes < MaxPush /\ total > 0 /\ work' = work + 1 /\ pushes' = pushes + 1
-----------------------------------------------------------------------------
(* thread_worker: while (!m->quit)                                         *)
Loop(w) ==
    /\ worker[w] = "loop"
    /\ MoveTo(w, IF quit = 1 THEN "exit" ELSE "dispatch")
    /\ UNCHANGED <<sleep, quit, total, work, pushes, exiting, timer, socket, monitor>>

(* snownet_context_message_dispatch finds a queue; its callbacks may push  *)
(* others and may end a service.                                           *)
Dispatch(w) ==
    /\ worker[w] = "dispatch" /\ work > 0
    /\ \E pushed \in 0..1 :
        /\ pushed = 0 \/ (pushes < MaxPush /\ total > 0)
        /\ work' = work - 1 + pushed
        /\ pushes' = pushes + pushed
    /\ total' \in {t \in {total, total - 1} : t >= 0}
    /\ MoveTo(w, "loop")
    /\ UNCHANGED <<sleep, quit, exiting, timer, socket, monitor>>

DispatchNone(w) ==
    /\ worker[w] = "dispatch" /\ work = 0
    /\ MoveTo(w, "none")
    /\ UNCHANGED <<sleep, quit, total, work, pushes, exiting, timer, socket, monitor>>

SleepUnasked(w) ==                                   \* mutant of Sleep
    /\ worker[w] = "none"
    /\ MoveTo(w, "waiting") /\ sleep' = sleep + 1
    /\ UNCHANGED <<quit, total, work, pushes, exiting, timer, socket, monitor>>

SleepUncounted(w) ==                                 \* mutant of Sleep
    /\ worker[w] = "none"
    /\ MoveTo(w, IF quit = 1 THEN "loop" ELSE "waiting")
    /\ UNCHANGED <<sleep, quit, total, work, pushes, exiting, timer, socket, monitor>>

(* Under the mutex: count in, and wait unless the quit flag is up.         *)
Sleep(w) ==
    /\ worker[w] = "none"
    /\ IF quit = 1
       THEN MoveTo(w, "loop") /\ UNCHANGED sleep
       ELSE MoveTo(w, "waiting") /\ sleep' = sleep + 1
    /\ UNCHANGED <<quit, total, work, pushes, exiting, timer, socket, monitor>>

(* cond.wait may return with nobody having notified.                       *)
SpuriousWakeup(w) ==
    /\ worker[w] = "waiting"
    /\ MoveTo(w, "woken")
    /\ UNCHANGED <<sleep, quit, total, work, pushes, exiting, timer, socket, monitor>>

AwakeUncounted(w) ==                                 \* mutant of Awake
    /\ worker[w] = "woken"
    /\ MoveTo(w, "loop")
    /\ UNCHANGED <<sleep, quit, total, work, pushes, exiting, timer, socket, monitor>>

(* The mutex is taken again: count out.                                    *)
Awake(w) ==
    /\ worker[w] = "woken"
    /\ sleep' = sleep - 1
    /\ MoveTo(w, "loop")
    /\ UNCHANGED <<quit, total, work, pushes, exiting, timer, socket, monitor>>
-----------------------------------------------------------------------------
(* m->cond.notify_all()                                                    *)
NotifyAll ==
    worker' = [w \in Worker |-> IF worker[w] = "waiting" THEN "woken" ELSE worker[w]]

(* The test of wakeup(m, busy), made without the mutex                     *)
EnoughAsleep(busy) == sleep >= count - busy

(* thread_timer: timeouts are pushed, then CHECK_ABORT                     *)
TimerUpdate ==
    /\ timer = "update"
    /\ MayPush
    /\ timer' = IF total = 0 THEN "stop" ELSE "look"
    /\ UNCHANGED <<sleep, quit, total, exiting, worker, socket, monitor>>

(* wakeup(m, m->count - 1)                                                 *)
TimerLook ==
    /\ timer = "look"
    /\ timer' = IF EnoughAsleep(count - 1) THEN "notify" ELSE "update"
    /\ UNCHANGED <<sleep, quit, total, work, pushes, exiting, worker, socket, monitor>>

TimerNotify ==
    /\ timer = "notify"
    /\ NotifyAll
    /\ timer' = "update"
    /\ UNCHANGED <<sleep, quit, total, work, pushes, exiting, socket, monitor>>

TimerStopQuietly ==                                  \* mutant of TimerStop
    /\ timer = "stop"
    /\ IF ~exiting
       THEN exiting' = TRUE /\ UNCHANGED <<quit, timer>>
       ELSE quit' = 1 /\ timer' = "exit" /\ UNCHANGED exiting
    /\ UNCHANGED <<sleep, total, work, pushes, worker, socket, monitor>>

(* snownet_socket_exit, then quit and notify_all under the mutex           *)
TimerStop ==
    /\ timer = "stop"
    /\ IF ~exiting
       THEN exiting' = TRUE /\ UNCHANGED <<quit, worker, timer>>
       ELSE quit' = 1 /\ NotifyAll /\ timer' = "exit" /\ UNCHANGED exiting
    /\ UNCHANGED <<sleep, total, work, pushes, socket, monitor>>
-----------------------------------------------------------------------------
(* thread_socket: the poll hands over one event, which a service may be    *)
(* sent.  With more events to come it returns -1: CHECK_ABORT, no wakeup.  *)
PollEvent ==
    /\ socket = "poll"
    /\ MayPush
    /\ \/ socket' = IF total = 0 THEN "exit" ELSE "poll"
       \/ socket' = "look"
    /\ UNCHANGED <<sleep, quit, total, exiting, worker, timer, monitor>>

(* The exit command: the poll returns 0.                                   *)
PollExit ==
    /\ socket = "poll" /\ exiting
    /\ socket' = "exit"
    /\ UNCHANGED <<sleep, quit, total, work, pushes, exiting, worker, timer, monitor>>

(* wakeup(m, 0)                                                            *)
SocketLook ==
    /\ socket = "look"
    /\ socket' = IF EnoughAsleep(0) THEN "notify" ELSE "poll"
    /\ UNCHANGED <<sleep, quit, total, work, pushes, exiting, worker, timer, monitor>>

SocketNotify ==
    /\ socket = "notify"
    /\ NotifyAll
    /\ socket' = "poll"
    /\ UNCHANGED <<sleep, quit, total, work, pushes, exiting, timer, monitor>>

(* thread_monitor: CHECK_ABORT                                             *)
Monitor ==
    /\ monitor = "check" /\ total = 0
    /\ monitor' = "exit"
    /\ UNCHANGED <<sleep, quit, total, work, pushes, exiting, worker, timer, socket>>

AllEnded ==
    /\ \A w \in Worker : worker[w] = "exit"
    /\ timer = "exit" /\ socket = "exit" /\ monitor = "exit"

(* start: every thread is joined.                                          *)
Joined == AllEnded /\ UNCHANGED vars
-----------------------------------------------------------------------------
WorkerStep(w) ==
    Loop(w) \/ Dispatch(w) \/ DispatchNone(w) \/ Sleep(w) \/ Awake(w)
Timer  == TimerUpdate \/ TimerLook \/ TimerNotify \/ TimerStop
Socket == PollEvent \/ PollExit \/ SocketLook \/ SocketNotify

Next ==
    \/ \E w \in Worker : WorkerStep(w) \/ SpuriousWakeup(w)
    \/ Timer \/ Socket \/ Monitor
    \/ Joined

Spec == Init /\ [][Next]_vars

(* Every thread runs; no spurious wakeup is counted on, nor that anything  *)
(* ever arrives at the socket before the exit command.                     *)
FairSpec ==
    /\ Spec
    /\ \A w \in Worker : WF_vars(WorkerStep(w))
    /\ WF_vars(Timer) /\ WF_vars(Monitor)
    /\ SF_vars(PollExit) /\ WF_vars(SocketLook) /\ WF_vars(SocketNotify)
-----------------------------------------------------------------------------
(* The count of sleepers both wakeups rely on is exact.                    *)
SleepersCounted ==
    sleep = Cardinality({w \in Worker : worker[w] \in {"waiting", "woken"}})

(* No worker can go to sleep past the stop: once quit is up nobody waits.  *)
NobodySleepsPastQuit ==
    quit = 1 => total = 0 /\ \A w \in Worker : worker[w] # "waiting"

(* A push is noticed in the end, even one that came between a worker's     *)
(* last look at the list and its sleep, when no wakeup could see it.       *)
WorkIsTaken == work > 0 ~> (work = 0 \/ quit = 1)

(* When the last context is gone the process comes to its end.             *)
EveryThreadEnds == total = 0 ~> AllEnded
=============================================================================
