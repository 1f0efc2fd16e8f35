------------------------- MODULE WorkerSleepProofs -------------------------
(***************************************************************************)
(* For any number of workers: the count of sleepers is exact, and once the *)
(* quit flag is up no worker waits, so that the join of snownet_start      *)
(* cannot hang on a sleeper.                                               *)
(***************************************************************************)
EXTENDS WorkerSleep, FiniteSetTheorems, TLAPS

(* The workers between ++m->sleep and --m->sleep                           *)
Sleepers == {w \in Worker : worker[w] \in {"waiting", "woken"}}

(* The timer raises quit only after it has seen that no context is left.   *)
StopMeansDone == timer \in {"stop", "exit"} => total = 0

IInv ==
    /\ TypeOK
    /\ work <= pushes
    /\ sleep = Cardinality(Sleepers)
    /\ StopMeansDone
    /\ quit = 1 => timer = "exit" /\ \A w \in Worker : worker[w] # "waiting"

(* Some of the workers are finitely many, and no more than all of them.    *)
LEMMA SomeWorkers ==
    ASSUME NEW S, S \subseteq Worker
    PROVE  IsFiniteSet(S) /\ Cardinality(S) \in 0..count
<1>1. IsFiniteSet(Worker)
  BY SleepAssumption
<1>2. /\ IsFiniteSet(S)
      /\ Cardinality(S) <= Cardinality(Worker)
  BY <1>1, FS_Subset
<1>3. Cardinality(S) \in Nat /\ Cardinality(Worker) \in Nat
  BY <1>1, <1>2, FS_CardinalityType
<1> QED
  BY <1>2, <1>3 DEF count

(* The number of workers is a natural number.                              *)
LEMMA CountType == count \in Nat
  BY SleepAssumption, FS_CardinalityType DEF count

(* A worker that changes its place enters, leaves or keeps the sleepers.   *)
LEMMA SleepersMove ==
    ASSUME worker \in [Worker -> {"loop", "dispatch", "none", "waiting", "woken", "exit"}],
           NEW w \in Worker,
           NEW l \in {"loop", "dispatch", "none", "waiting", "woken", "exit"},
           MoveTo(w, l)
    PROVE  /\ worker' \in [Worker -> {"loop", "dispatch", "none", "waiting", "woken", "exit"}]
           /\ l \in {"waiting", "woken"} => Sleepers' = Sleepers \cup {w}
           /\ l \notin {"waiting", "woken"} => Sleepers' = Sleepers \ {w}
  BY DEF Sleepers, MoveTo

(* The invariant holds when the workers start.                             *)
LEMMA InitInv == Init => IInv
<1> SUFFICES ASSUME Init PROVE IInv
  OBVIOUS
<1>1. Sleepers = {}
  BY DEF Init, Sleepers
<1>2. sleep = Cardinality(Sleepers)
  BY <1>1, FS_EmptySet DEF Init
<1>3. TypeOK
  <2>1. /\ sleep \in 0..count
        /\ work \in 0..MaxPush /\ pushes \in 0..MaxPush
        /\ total \in 0..MaxContexts
    BY SleepAssumption, CountType DEF Init
  <2>2. worker \in [Worker -> {"loop", "dispatch", "none", "waiting", "woken", "exit"}]
    BY DEF Init
  <2> QED
    BY <2>1, <2>2 DEF Init, TypeOK
<1> QED
  BY <1>2, <1>3 DEF Init, IInv, StopMeansDone

(* A step of one worker: the count moves with the set it counts.           *)
LEMMA WorkerKeepsInv ==
    ASSUME IInv, NEW w \in Worker, WorkerStep(w) \/ SpuriousWakeup(w)
    PROVE  IInv'
<1> USE DEF IInv, TypeOK, StopMeansDone
<1>f. /\ IsFiniteSet(Sleepers) /\ Cardinality(Sleepers) \in 0..count
      /\ count \in Nat
  <2>1. Sleepers \subseteq Worker
    BY DEF Sleepers
  <2> QED
    BY <2>1, SomeWorkers, CountType
<1>1. CASE Loop(w)
  <2>1. Sleepers' = Sleepers
    BY <1>1, SleepersMove DEF Loop, Sleepers, MoveTo
  <2> QED
    BY <1>1, <2>1, SleepersMove DEF Loop, MoveTo
<1>2. CASE Dispatch(w)
  <2>1. Sleepers' = Sleepers
    BY <1>2 DEF Dispatch, Sleepers, MoveTo
  <2>2. /\ work' \in 0..MaxPush /\ pushes' \in 0..MaxPush /\ work' <= pushes'
        /\ total' \in 0..MaxContexts
        /\ total = 0 => total' = 0
    BY <1>2, SleepAssumption DEF Dispatch
  <2> QED
    BY <1>2, <2>1, <2>2 DEF Dispatch, MoveTo
<1>3. CASE DispatchNone(w)
  <2>1. Sleepers' = Sleepers
    BY <1>3 DEF DispatchNone, Sleepers, MoveTo
  <2> QED
    BY <1>3, <2>1 DEF DispatchNone, MoveTo
<1>4. CASE Sleep(w)
  <2>1. CASE quit = 1
    <3>1. Sleepers' = Sleepers
      BY <1>4, <2>1 DEF Sleep, Sleepers, MoveTo
    <3> QED
      BY <1>4, <2>1, <3>1 DEF Sleep, MoveTo
  <2>2. CASE quit # 1
    <3>1. Sleepers' = Sleepers \cup {w} /\ w \notin Sleepers
      BY <1>4, <2>2 DEF Sleep, Sleepers, MoveTo
    <3>2. Cardinality(Sleepers') = Cardinality(Sleepers) + 1
      BY <1>f, <3>1, FS_AddElement
    <3>3. worker' \in [Worker -> {"loop", "dispatch", "none", "waiting", "woken", "exit"}]
      BY <1>4, <2>2 DEF Sleep, MoveTo
    <3>4. Cardinality(Sleepers') \in 0..count
      <4>1. Sleepers' \subseteq Worker
        BY DEF Sleepers
      <4> QED
        BY <4>1, SomeWorkers
    <3> QED
      BY <1>4, <2>2, <1>f, <3>2, <3>3, <3>4 DEF Sleep
  <2> QED
    BY <2>1, <2>2
<1>5. CASE Awake(w)
  <2>1. Sleepers' = Sleepers \ {w} /\ w \in Sleepers
    BY <1>5 DEF Awake, Sleepers, MoveTo
  <2>2. Cardinality(Sleepers') = Cardinality(Sleepers) - 1
    BY <1>f, <2>1, FS_RemoveElement
  <2>3. Cardinality(Sleepers') \in 0..count
    <3>1. Sleepers' \subseteq Worker
      BY DEF Sleepers
    <3> QED
      BY <3>1, SomeWorkers
  <2> QED
    BY <1>5, <1>f, <2>2, <2>3 DEF Awake, MoveTo
<1>6. CASE SpuriousWakeup(w)
  <2>1. Sleepers' = Sleepers
    BY <1>6 DEF SpuriousWakeup, Sleepers, MoveTo
  <2> QED
    BY <1>6, <2>1 DEF SpuriousWakeup, MoveTo
<1> QED
  BY <1>1, <1>2, <1>3, <1>4, <1>5, <1>6 DEF WorkerStep

(* notify_all moves every waiting worker and changes no count.             *)
LEMMA NotifyKeepsSleepers ==
    ASSUME TypeOK, NotifyAll
    PROVE  /\ Sleepers' = Sleepers
           /\ worker' \in [Worker -> {"loop", "dispatch", "none", "waiting", "woken", "exit"}]
           /\ \A w \in Worker : worker'[w] # "waiting"
  BY DEF TypeOK, NotifyAll, Sleepers

(* Steps of the other threads leave the workers alone or notify them all.  *)
LEMMA OthersKeepInv ==
    ASSUME IInv, Timer \/ Socket \/ Monitor \/ Joined
    PROVE  IInv'
<1> USE DEF IInv, TypeOK, StopMeansDone
<1>1. CASE TimerUpdate
  <2>1. Sleepers' = Sleepers
    BY <1>1 DEF TimerUpdate, Sleepers
  <2> QED
    BY <1>1, <2>1, SleepAssumption DEF TimerUpdate, MayPush
<1>2. CASE TimerLook
  BY <1>2 DEF TimerLook, Sleepers
<1>3. CASE TimerNotify
  BY <1>3, NotifyKeepsSleepers DEF TimerNotify
<1>4. CASE TimerStop
  <2>1. CASE exiting
    BY <1>4, <2>1, NotifyKeepsSleepers DEF TimerStop
  <2>2. CASE ~exiting
    BY <1>4, <2>2 DEF TimerStop, Sleepers
  <2> QED
    BY <2>1, <2>2
<1>5. CASE PollEvent
  <2>1. Sleepers' = Sleepers
    BY <1>5 DEF PollEvent, Sleepers
  <2> QED
    BY <1>5, <2>1, SleepAssumption DEF PollEvent, MayPush
<1>6. CASE PollExit
  BY <1>6 DEF PollExit, Sleepers
<1>7. CASE SocketLook
  BY <1>7 DEF SocketLook, Sleepers
<1>8. CASE SocketNotify
  BY <1>8, NotifyKeepsSleepers DEF SocketNotify
<1>9. CASE Monitor
  BY <1>9 DEF Monitor, Sleepers
<1>10. CASE Joined
  BY <1>10 DEF Joined, vars, Sleepers
<1> QED
  BY <1>1, <1>2, <1>3, <1>4, <1>5, <1>6, <1>7, <1>8, <1>9, <1>10 DEF Timer, Socket

(* Every step of a worker, the timer and the others keeps the invariant.   *)
LEMMA StepKeepsInv == IInv /\ [Next]_vars => IInv'
<1> SUFFICES ASSUME IInv, [Next]_vars PROVE IInv'
  OBVIOUS
<1>1. CASE Next
  BY <1>1, WorkerKeepsInv, OthersKeepInv DEF Next
<1>2. CASE UNCHANGED vars
  BY <1>2 DEF vars, IInv, TypeOK, StopMeansDone, Sleepers
<1> QED
  BY <1>1, <1>2

(* The state keeps its types: the count of sleepers stays between 0 and    *)
(* the number of workers.                                                  *)
THEOREM TypesHold == Spec => []TypeOK
<1>1. IInv => TypeOK
  BY DEF IInv
<1> QED
  BY <1>1, InitInv, StepKeepsInv, PTL DEF Spec

(* The count every wakeup relies on is exact, however many workers enter   *)
(* and leave the wait (++m->sleep and --m->sleep in thread_worker).        *)
THEOREM SleepCountIsExact == Spec => []SleepersCounted
<1>1. IInv => SleepersCounted
  BY DEF IInv, SleepersCounted, Sleepers
<1> QED
  BY <1>1, InitInv, StepKeepsInv, PTL DEF Spec

(* After thread_timer has set quit no worker waits on the condition, and   *)
(* no context is left when it does.                                        *)
THEOREM QuitReachesEverybody == Spec => []NobodySleepsPastQuit
<1>1. IInv => NobodySleepsPastQuit
  BY DEF IInv, NobodySleepsPastQuit, StopMeansDone
<1> QED
  BY <1>1, InitInv, StepKeepsInv, PTL DEF Spec
=============================================================================
