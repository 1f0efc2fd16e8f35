-------------------------- MODULE LuaServiceProofs --------------------------
(***************************************************************************)
(* For any number of coroutines, peers, requests and sessions: the tables  *)
(* of snownet.lua agree with what each coroutine waits for, nothing that a *)
(* message sets off is left behind, requests are answered once, and the    *)
(* queue of queue.lua runs one coroutine at a time.                        *)
(***************************************************************************)
EXTENDS LuaService, FiniteSetTheorems, SequenceTheorems, TLAPS

Waits(c) ==
    frame[c].st \in Blocked \/ (frame[c].st = "fresh" /\ frame[c].s # None)

Distinct(q) == \A i, j \in DOMAIN q : q[i] = q[j] => i = j

(* The coroutine that runs is the running thread.                          *)
RunInv ==
    /\ pc = "run" => cur \in Co /\ running = cur
    /\ \A c \in Co : frame[c].st = "run" <=> (pc = "run" /\ cur = c)

(* Who waits has a session of its own, allocated before, and is found by   *)
(* it and by nothing else.                                                 *)
RegInv ==
    /\ \A c \in Co : Waits(c) => frame[c].s \in 1..session
    /\ \A c \in Co : ~Waits(c) => frame[c].s = None
    /\ \A s \in Session, c \in Co :
           coroutineOf[s] = c <=> (Waits(c) /\ frame[c].s = s)
    /\ \A s \in Session :
           watching[s] # None <=>
               \E c \in Co : frame[c].st = "call" /\ frame[c].s = s
    /\ \A c \in Co :
           sleep[c] = IF frame[c].st \in Sleeping THEN frame[c].s ELSE None
    /\ \A c \in forks : frame[c].st = "fresh" /\ frame[c].s = None

(* Timers and callees still to answer: BREAK waits for a timer, a sleeper  *)
(* has one, and wait has neither.                                          *)
WorldInv ==
    /\ \A s \in Session : coroutineOf[s] = "BREAK" => s \in timers
    /\ \A c \in Co : frame[c].st = "sleep" => frame[c].s \in timers
    /\ \A c \in Co : frame[c].st \in {"wait", "queue"} =>
                         frame[c].s \notin timers \cup calls
    /\ timers \cup calls \subseteq 1..session

(* Every session in the error queue is that of a call that waits ...       *)
ErrValid ==
    /\ \A i \in DOMAIN errorQueue : watching[errorQueue[i]] # None
    /\ Distinct(errorQueue)

(* ... until the exit, when a message may find those of another there;     *)
(* what is in it is owed a dispatch_error_queue.                           *)
ErrInv ==
    /\ exited \/ ErrValid
    /\ errorQueue # <<>> => pc = "run" \/ owed > 0 \/ kicks > 0 \/ exited
    /\ pc = "idle" => /\ kicks = 0 /\ forks = {} /\ owed = 0
                      /\ exited \/ errorQueue = <<>>
    /\ pc = "forks" => owed = 0
    /\ pc = "wakeup" => owed > 0

(* The depth of the queue is that of its thread, and nobody else is in it. *)
DepthInv ==
    /\ \A c \in Co : frame[c].depth = IF mutex.thread = c THEN mutex.ref ELSE 0
    /\ mutex.ref > 0 => mutex.thread # None
    /\ \A c \in Co : frame[c].st = "free" => frame[c].depth = 0

Base == TypeOK /\ RunInv /\ RegInv /\ WorldInv /\ ErrInv /\ DepthInv

-----------------------------------------------------------------------------
(* The service starts with everything at rest.                             *)
LEMMA InitBase == Init => Base
<1> SUFFICES ASSUME Init PROVE Base
  OBVIOUS
<1> USE LuaServiceAssumption DEF Init, Free, Frame
<1>1. TypeOK
  <2>1. frame \in [Co -> [st : Blocked \cup {"free", "dead", "run", "fresh"},
                         s : Session \cup {None}, depth : Nat]]
    OBVIOUS
  <2>2. /\ wakeupQueue \in Seq(Co) /\ errorQueue \in Seq(Session) /\ forks \subseteq Co
        /\ mutex \in [thread : Co \cup {None}, ref : Nat, threads : Seq(Co)]
    OBVIOUS
  <2>3. /\ coroutineOf \in [Session -> Co \cup {None, "BREAK"}]
        /\ watching \in [Session -> Peers \cup {None}]
        /\ sleep \in [Co -> Session \cup {None}]
        /\ sessionOf \in [Co -> Requests \cup {Send, None}]
        /\ asked \in [Requests -> {"new", "open", "late", "answered", "again", "forgotten"}]
    OBVIOUS
  <2>4. session \in 0..MaxSession
    OBVIOUS
  <2> QED
    BY <2>1, <2>2, <2>3, <2>4 DEF TypeOK
<1>2. RunInv
  BY DEF RunInv
<1>3. RegInv
  BY DEF RegInv, Waits, Blocked, Sleeping
<1>4. WorldInv
  BY DEF WorldInv
<1>5. ErrInv
  BY DEF ErrInv, ErrValid, Distinct
<1>6. DepthInv
  BY DEF DepthInv
<1> QED
  BY <1>1, <1>2, <1>3, <1>4, <1>5, <1>6 DEF Base

(* A coroutine that is not running is resumed for what it waits for: its   *)
(* session is no longer its own.                                           *)
Resumption(c, before) ==
    /\ c \in Co /\ pc # "run"
    /\ Waits(c) \/ c \in forks
    /\ before \in [Session -> Co \cup {None, "BREAK"}]
    /\ \A s \in Session : s # frame[c].s => before[s] = coroutineOf[s]
    /\ \A s \in Session : s = frame[c].s =>
           \/ before[s] = None
           \/ before[s] = "BREAK" /\ frame[c].st \in Sleeping
    /\ Resume(c, before)
    /\ UNCHANGED <<session, exited, young>>

(* The owner of a token that sleeps.                                       *)
LEMMA WakeupResumes ==
    ASSUME Base, DispatchWakeup, sleep[Head(wakeupQueue)] # None
    PROVE  /\ Resumption(Head(wakeupQueue),
                 [coroutineOf EXCEPT ![sleep[Head(wakeupQueue)]] = "BREAK"])
           /\ frame[Head(wakeupQueue)].st \in Sleeping
           /\ frame[Head(wakeupQueue)].s = sleep[Head(wakeupQueue)]
<1> DEFINE c == Head(wakeupQueue)
           s == sleep[c]
<1>1. c \in Co
  BY DEF Base, TypeOK, DispatchWakeup
<1>2. frame[c].st \in Sleeping /\ frame[c].s = s /\ Waits(c) /\ s \in Session
  BY <1>1 DEF Base, RegInv, TypeOK, Waits, Blocked
<1>3. coroutineOf[s] = c
  BY <1>1, <1>2 DEF Base, RegInv
<1>4. [coroutineOf EXCEPT ![s] = "BREAK"] \in [Session -> Co \cup {None, "BREAK"}]
  BY DEF Base, TypeOK
<1>5. Resume(c, [coroutineOf EXCEPT ![s] = "BREAK"])
  BY <1>3 DEF DispatchWakeup
<1> QED
  BY <1>1, <1>2, <1>4, <1>5 DEF Resumption, Base, TypeOK, DispatchWakeup, world

(* The caller behind a session of the error queue.                         *)
LEMMA ErrorResumes ==
    ASSUME Base, DispatchErrorQueue, coroutineOf[Head(errorQueue)] \in Co
    PROVE  \E c \in Co :
               /\ Resumption(c, [coroutineOf EXCEPT ![Head(errorQueue)] = None])
               /\ frame[c].s = Head(errorQueue)
               /\ exited \/ frame[c].st = "call"
               /\ owed' = owed - 1
<1> DEFINE s == Head(errorQueue)
           c == coroutineOf[s]
<1>1. s \in Session /\ (exited \/ watching[s] # None)
  <2>1. errorQueue \in Seq(Session) /\ errorQueue # <<>>
    BY DEF Base, TypeOK, DispatchErrorQueue
  <2> QED
    BY <2>1 DEF Base, ErrInv, ErrValid
<1>2. Waits(c) /\ frame[c].s = s
  BY <1>1 DEF Base, RegInv
<1>3. exited \/ frame[c].st = "call"
  <2>1. ASSUME NEW d \in Co, frame[d].st = "call", frame[d].s = s
        PROVE  d = c
    <3>1. Waits(d)
      BY <2>1 DEF Waits, Blocked
    <3> QED
      BY <1>1, <2>1, <3>1 DEF Base, RegInv
  <2> QED
    BY <1>1, <2>1 DEF Base, RegInv
<1>4. [coroutineOf EXCEPT ![s] = None] \in [Session -> Co \cup {None, "BREAK"}]
  BY DEF Base, TypeOK
<1>5. Resume(c, [coroutineOf EXCEPT ![s] = None]) /\ owed' = owed - 1
  BY DEF DispatchErrorQueue
<1>6. Resumption(c, [coroutineOf EXCEPT ![s] = None])
  BY <1>1, <1>2, <1>4, <1>5
     DEF Resumption, Base, TypeOK, DispatchErrorQueue, ErrorStage, world
<1> QED
  BY <1>2, <1>3, <1>5, <1>6

(* A session of the error queue that nobody waits for is of after an exit. *)
LEMMA ErrorRaises ==
    ASSUME Base, DispatchErrorQueue, coroutineOf[Head(errorQueue)] \notin Co
    PROVE  /\ Head(errorQueue) \in Session /\ exited
           /\ coroutineOf' = [coroutineOf EXCEPT ![Head(errorQueue)] = None]
           /\ pc' = "forks" /\ owed' = 0 /\ pc # "run"
           /\ errorQueue' \in Seq(Session)
           /\ UNCHANGED <<cur, running, frame, watching, sleep, mutex, wakeupQueue,
                          forks, kicks, doubled, requests, world>>
<1> DEFINE s == Head(errorQueue)
<1>1. errorQueue \in Seq(Session) /\ errorQueue # <<>>
  BY DEF Base, TypeOK, DispatchErrorQueue
<1>2. s \in Session /\ (exited \/ watching[s] # None)
  BY <1>1 DEF Base, ErrInv, ErrValid
<1>3. \A c \in Co : ~(frame[c].st = "call" /\ frame[c].s = s)
  BY <1>2 DEF Base, RegInv, Waits, Blocked
<1>4. exited
  BY <1>2, <1>3 DEF Base, RegInv
<1>5. /\ coroutineOf' = [coroutineOf EXCEPT ![s] = None]
      /\ pc' = "forks" /\ owed' = 0 /\ pc # "run" /\ errorQueue' = Tail(errorQueue)
      /\ UNCHANGED <<cur, running, frame, watching, sleep, mutex, wakeupQueue,
                     forks, kicks, doubled, requests, world>>
  BY DEF DispatchErrorQueue, ErrorStage, Resume
<1>6. errorQueue' \in Seq(Session)
  BY <1>1, <1>5
<1> QED
  BY <1>2, <1>4, <1>5, <1>6

(* Whoever is registered under the session of an answer.                   *)
LEMMA ResponseResumes ==
    ASSUME Base, NEW s \in Session, ReceiveResponse(s), coroutineOf[s] \in Co
    PROVE  /\ Resumption(coroutineOf[s], [coroutineOf EXCEPT ![s] = None])
           /\ frame[coroutineOf[s]].s = s
<1>1. Waits(coroutineOf[s]) /\ frame[coroutineOf[s]].s = s
  BY DEF Base, RegInv
<1>2. [coroutineOf EXCEPT ![s] = None] \in [Session -> Co \cup {None, "BREAK"}]
  BY DEF Base, TypeOK
<1> QED
  BY <1>1, <1>2 DEF Resumption, Base, TypeOK, ReceiveResponse, MayArrive

(* A forked coroutine waits for nothing and is registered nowhere.         *)
LEMMA ForkResumes ==
    ASSUME Base, NEW c \in Co, RunFork(c)
    PROVE  Resumption(c, coroutineOf) /\ frame[c].st = "fresh" /\ frame[c].s = None
  BY LuaServiceAssumption DEF Base, RegInv, TypeOK, Resumption, RunFork, world

-----------------------------------------------------------------------------
(* What a resumption leaves.                                               *)
LEMMA ResumptionKeeps ==
    ASSUME Base, NEW c, NEW before, Resumption(c, before),
           forks' \subseteq forks, c \notin forks'
    PROVE  /\ pc' = "run" /\ cur' = c /\ running' = c /\ c \in Co
           /\ frame' \in [Co -> [st : Blocked \cup {"free", "dead", "run", "fresh"},
                                 s : Session \cup {None}, depth : Nat]]
           /\ frame'[c].st = "run" /\ frame'[c].s = None
           /\ \A d \in Co \ {c} : frame'[d] = frame[d]
           /\ coroutineOf' \in [Session -> Co \cup {None, "BREAK"}]
           /\ \A s \in Session : coroutineOf'[s] = "BREAK" =>
                  /\ before[s] = "BREAK"
                  /\ coroutineOf[s] = "BREAK" \/ (frame[c].st = "sleep" /\ frame[c].s = s)
           /\ watching' \in [Session -> Peers \cup {None}]
           /\ \A s \in Session :
                  watching'[s] = IF frame[c].st = "call" /\ s = frame[c].s THEN None
                                                                       ELSE watching[s]
           /\ sleep' = [sleep EXCEPT ![c] = None]
           /\ sleep' \in [Co -> Session \cup {None}]
           /\ mutex' \in [thread : Co \cup {None}, ref : Nat, threads : Seq(Co)]
           /\ mutex' = IF frame[c].st = "queue" /\ mutex.ref = 0
                       THEN [mutex EXCEPT !.thread = c, !.ref = 1] ELSE mutex
           /\ RunInv' /\ RegInv' /\ DepthInv'
<1> DEFINE f == frame[c]
           enters == f.st = "queue" /\ mutex.ref = 0
<1>t. /\ frame \in [Co -> [st : Blocked \cup {"free", "dead", "run", "fresh"},
                           s : Session \cup {None}, depth : Nat]]
      /\ mutex \in [thread : Co \cup {None}, ref : Nat, threads : Seq(Co)]
      /\ watching \in [Session -> Peers \cup {None}]
      /\ sleep \in [Co -> Session \cup {None}]
      /\ coroutineOf \in [Session -> Co \cup {None, "BREAK"}]
  BY DEF Base, TypeOK
<1>c. /\ c \in Co /\ pc # "run" /\ (Waits(c) \/ c \in forks)
      /\ pc' = "run" /\ cur' = c /\ running' = c /\ GoOn(c, before)
      /\ session' = session
  BY DEF Resumption, Resume
<1>1. /\ frame' = [frame EXCEPT ![c] = Frame("run", None, IF enters THEN f.depth + 1
                                                                     ELSE f.depth)]
      /\ sleep' = [sleep EXCEPT ![c] = None]
      /\ coroutineOf' = IF f.st \in {"wait", "queue"} THEN [before EXCEPT ![f.s] = None]
                                                      ELSE before
      /\ watching' = IF f.st = "call" THEN [watching EXCEPT ![f.s] = None] ELSE watching
      /\ mutex' = IF enters THEN [mutex EXCEPT !.thread = c, !.ref = 1] ELSE mutex
  BY <1>c DEF GoOn, CleanUp
<1>2. /\ frame' \in [Co -> [st : Blocked \cup {"free", "dead", "run", "fresh"},
                            s : Session \cup {None}, depth : Nat]]
      /\ frame'[c].st = "run" /\ frame'[c].s = None
      /\ frame'[c].depth = IF enters THEN f.depth + 1 ELSE f.depth
      /\ \A d \in Co \ {c} : frame'[d] = frame[d]
  BY <1>t, <1>c, <1>1 DEF Frame
<1>3. Waits(c) => f.s \in Session
  BY <1>c, LuaServiceAssumption DEF Base, RegInv, TypeOK, Session
<1>4. f.st \in Blocked => Waits(c)
  BY DEF Waits
<1>5. /\ coroutineOf' \in [Session -> Co \cup {None, "BREAK"}]
      /\ \A s \in Session : s # f.s => coroutineOf'[s] = coroutineOf[s]
      /\ \A s \in Session : s = f.s =>
             coroutineOf'[s] = None \/ (coroutineOf'[s] = "BREAK" /\ f.st = "sleep")
  <2>1. /\ before \in [Session -> Co \cup {None, "BREAK"}]
        /\ \A s \in Session : s # f.s => before[s] = coroutineOf[s]
        /\ \A s \in Session : s = f.s =>
               before[s] = None \/ (before[s] = "BREAK" /\ f.st \in Sleeping)
    BY DEF Resumption
  <2> HIDE DEF f
  <2>2. CASE f.st \in {"wait", "queue"}
    <3>1. coroutineOf' = [before EXCEPT ![f.s] = None]
      BY <2>2, <1>1
    <3> QED
      BY <2>1, <3>1
  <2>3. CASE f.st \notin {"wait", "queue"}
    <3>1. coroutineOf' = before
      BY <2>3, <1>1
    <3> QED
      BY <2>1, <2>3, <3>1 DEF Sleeping
  <2> QED
    BY <2>2, <2>3
<1>6. /\ watching' \in [Session -> Peers \cup {None}]
      /\ \A s \in Session : watching'[s] = IF f.st = "call" /\ s = f.s THEN None
                                                                    ELSE watching[s]
  BY <1>1, <1>t
<1>7. sleep' \in [Co -> Session \cup {None}]
  BY <1>1, <1>t
<1>8. mutex' \in [thread : Co \cup {None}, ref : Nat, threads : Seq(Co)]
  BY <1>1, <1>t, <1>c
<1>9. f.st # "run"
  BY <1>c DEF Base, RunInv
<1>10. RunInv'
  BY <1>2, <1>c DEF Base, RunInv
<1>11. RegInv'
  <2>1. \A d \in Co \ {c} : Waits(d)' = Waits(d)
    BY <1>2 DEF Waits
  <2>2. ~Waits(c)'
    BY <1>2 DEF Waits, Blocked, Sleeping
  <2>3. \A d \in Co : Waits(d)' => frame'[d].s \in 1..session'
    BY <2>1, <2>2, <1>2, <1>c DEF Base, RegInv
  <2>4. \A d \in Co : ~Waits(d)' => frame'[d].s = None
    BY <2>1, <2>2, <1>2, <1>c DEF Base, RegInv
  <2>5. \A d \in Co \ {c} : Waits(d) /\ Waits(c) => frame[d].s # f.s
    BY <1>3, <1>c DEF Base, RegInv
  <2>6. \A s \in Session, d \in Co :
            coroutineOf'[s] = d <=> (Waits(d)' /\ frame'[d].s = s)
    <3> SUFFICES ASSUME NEW s \in Session, NEW d \in Co
                 PROVE  coroutineOf'[s] = d <=> (Waits(d)' /\ frame'[d].s = s)
      OBVIOUS
    <3>1. coroutineOf[s] = d <=> (Waits(d) /\ frame[d].s = s)
      BY DEF Base, RegInv
    <3>2. d # None /\ d # "BREAK"
      BY LuaServiceAssumption
    <3>3. CASE s = f.s
      <4>1. Waits(c)
        BY <3>3, <1>c, LuaServiceAssumption DEF Base, RegInv
      <4>2. coroutineOf'[s] # d
        BY <3>2, <3>3, <1>5
      <4>3. ~(Waits(d)' /\ frame'[d].s = s)
        BY <3>3, <4>1, <2>1, <2>2, <2>5, <1>2
      <4> QED
        BY <4>2, <4>3
    <3>4. CASE s # f.s
      <4>1. CASE d = c
        BY <4>1, <3>1, <3>4, <1>5, <2>2
      <4>2. CASE d # c
        BY <4>2, <3>1, <3>4, <1>5, <2>1, <1>2
      <4> QED
        BY <4>1, <4>2
    <3> QED
      BY <3>3, <3>4
  <2>7. \A s \in Session :
            watching'[s] # None <=> \E d \in Co : frame'[d].st = "call" /\ frame'[d].s = s
    <3> SUFFICES ASSUME NEW s \in Session
                 PROVE  watching'[s] # None <=>
                            \E d \in Co : frame'[d].st = "call" /\ frame'[d].s = s
      OBVIOUS
    <3>1. watching[s] # None <=> \E d \in Co : frame[d].st = "call" /\ frame[d].s = s
      BY DEF Base, RegInv
    <3>2. \A d \in Co : frame[d].st = "call" => Waits(d)
      BY DEF Waits, Blocked
    <3>3. CASE f.st = "call" /\ s = f.s
      BY <3>3, <3>2, <2>5, <1>2, <1>6, <1>c
    <3>4. CASE ~(f.st = "call" /\ s = f.s)
      BY <3>4, <3>1, <1>2, <1>6
    <3> QED
      BY <3>3, <3>4
  <2>8. \A d \in Co : sleep'[d] = IF frame'[d].st \in Sleeping THEN frame'[d].s ELSE None
    <3>1. \A d \in Co : sleep[d] = IF frame[d].st \in Sleeping THEN frame[d].s ELSE None
      BY DEF Base, RegInv
    <3> QED
      BY <3>1, <1>1, <1>2, <1>t DEF Sleeping
  <2>9. \A d \in forks' : frame'[d].st = "fresh" /\ frame'[d].s = None
    <3>1. forks \subseteq Co /\ \A d \in forks : frame[d].st = "fresh" /\ frame[d].s = None
      BY DEF Base, RegInv, TypeOK
    <3> QED
      BY <3>1, <1>2
  <2> QED
    BY <2>3, <2>4, <2>6, <2>7, <2>8, <2>9 DEF RegInv
<1>12. DepthInv'
  <2>1. \A d \in Co : frame[d].depth = IF mutex.thread = d THEN mutex.ref ELSE 0
    BY DEF Base, DepthInv
  <2>2. CASE enters
    BY <2>1, <2>2, <1>1, <1>2, <1>t, <1>c, LuaServiceAssumption DEF DepthInv
  <2>3. CASE ~enters
    BY <2>1, <2>3, <1>1, <1>2, <1>t, <1>c DEF DepthInv, Base
  <2> QED
    BY <2>2, <2>3
<1>13. \A s \in Session : coroutineOf'[s] = "BREAK" =>
           /\ before[s] = "BREAK"
           /\ coroutineOf[s] = "BREAK" \/ (f.st = "sleep" /\ f.s = s)
  <2>1. \A s \in Session : coroutineOf'[s] = "BREAK" => before[s] = "BREAK"
    BY <1>1, LuaServiceAssumption DEF Resumption
  <2> QED
    BY <2>1, <1>5, LuaServiceAssumption
<1>14. /\ sleep' = [sleep EXCEPT ![c] = None]
       /\ mutex' = IF enters THEN [mutex EXCEPT !.thread = c, !.ref = 1] ELSE mutex
  BY <1>1
<1> QED
  BY <1>2, <1>5, <1>6, <1>7, <1>8, <1>10, <1>11, <1>12, <1>13, <1>14, <1>c

-----------------------------------------------------------------------------
(* There is room for one more session.                                     *)
LEMMA MoreSessions ==
    ASSUME TypeOK, More
    PROVE  session \in Nat /\ session + 1 \in Session
<1> DEFINE R == {r \in Requests : asked[r] # "new"}
<1>1. Cardinality(R) \in Nat
  BY LuaServiceAssumption, FS_Subset, FS_CardinalityType
<1>2. /\ session \in Nat /\ MaxSession \in Nat
      /\ session + Cardinality(R) + (IF exited THEN 1 ELSE 0) < MaxSession
  BY LuaServiceAssumption DEF TypeOK, More
<1> QED
  BY <1>1, <1>2 DEF Session

(* A coroutine that waits for nothing gets the next session.               *)
LEMMA RegisterKeeps ==
    ASSUME Base, NEW c \in Co, NEW st \in Blocked \cup {"fresh"},
           NEW p, st = "call" => p \in Peers,
           frame[c].st \in {"run", "free"}, Register(c, c, st),
           sleep' = IF st \in Sleeping THEN [sleep EXCEPT ![c] = session'] ELSE sleep,
           watching' = IF st = "call" THEN [watching EXCEPT ![session'] = p] ELSE watching
    PROVE  /\ session' = session + 1 /\ session' \in Session /\ session \in Nat
           /\ session' \notin timers \cup calls
           /\ frame' \in [Co -> [st : Blocked \cup {"free", "dead", "run", "fresh"},
                                 s : Session \cup {None}, depth : Nat]]
           /\ frame'[c].st = st /\ frame'[c].s = session'
           /\ frame'[c].depth = frame[c].depth
           /\ \A d \in Co \ {c} : frame'[d] = frame[d]
           /\ \A d \in Co \ {c} : Waits(d) => frame[d].s # session'
           /\ coroutineOf' \in [Session -> Co \cup {None, "BREAK"}]
           /\ \A s \in Session : coroutineOf'[s] = "BREAK" => coroutineOf[s] = "BREAK"
           /\ watching' \in [Session -> Peers \cup {None}]
           /\ \A s \in Session : watching[s] # None => watching'[s] # None
           /\ sleep' \in [Co -> Session \cup {None}]
           /\ \A d \in Co : sleep[d] # None => sleep'[d] # None
           /\ RegInv'
<1>t. /\ frame \in [Co -> [st : Blocked \cup {"free", "dead", "run", "fresh"},
                           s : Session \cup {None}, depth : Nat]]
      /\ watching \in [Session -> Peers \cup {None}]
      /\ sleep \in [Co -> Session \cup {None}]
      /\ coroutineOf \in [Session -> Co \cup {None, "BREAK"}]
      /\ timers \cup calls \subseteq 1..session
      /\ session \in Nat /\ session + 1 \in Session
  BY MoreSessions DEF Base, TypeOK, Register, WorldInv
<1>n. /\ None \notin Peers /\ None \notin Session /\ c # "BREAK" /\ c # None
      /\ session + 1 # None
  BY <1>t, LuaServiceAssumption
<1>1. /\ session' = session + 1 /\ forks' = forks
      /\ frame' = [frame EXCEPT ![c] = Frame(st, session', @.depth)]
      /\ coroutineOf' = [coroutineOf EXCEPT ![session'] = c]
  BY DEF Register, queues
<1>2. /\ session' \in Session /\ session' \notin timers \cup calls
      /\ session' \notin 1..session
  BY <1>1, <1>t
<1>3. /\ frame' \in [Co -> [st : Blocked \cup {"free", "dead", "run", "fresh"},
                            s : Session \cup {None}, depth : Nat]]
      /\ frame'[c].st = st /\ frame'[c].s = session'
      /\ frame'[c].depth = frame[c].depth
      /\ \A d \in Co \ {c} : frame'[d] = frame[d]
  BY <1>1, <1>2, <1>t DEF Frame
<1>4. /\ coroutineOf' \in [Session -> Co \cup {None, "BREAK"}]
      /\ coroutineOf'[session'] = c
      /\ \A s \in Session : s # session' => coroutineOf'[s] = coroutineOf[s]
  BY <1>1, <1>2, <1>t
<1>5. /\ watching' \in [Session -> Peers \cup {None}]
      /\ st = "call" => watching'[session'] # None
      /\ \A s \in Session : s # session' \/ st # "call" => watching'[s] = watching[s]
  <2>1. CASE st = "call"
    <3>1. watching' = [watching EXCEPT ![session'] = p]
      BY <2>1
    <3> QED
      BY <2>1, <3>1, <1>2, <1>t, <1>n
  <2>2. CASE st # "call"
    BY <2>2, <1>t
  <2> QED
    BY <2>1, <2>2
<1>6. /\ sleep' \in [Co -> Session \cup {None}]
      /\ sleep'[c] = IF st \in Sleeping THEN session' ELSE sleep[c]
      /\ \A d \in Co \ {c} : sleep'[d] = sleep[d]
  <2>1. CASE st \in Sleeping
    <3>1. sleep' = [sleep EXCEPT ![c] = session']
      BY <2>1
    <3> QED
      BY <2>1, <3>1, <1>2, <1>t
  <2>2. CASE st \notin Sleeping
    BY <2>2, <1>t
  <2> QED
    BY <2>1, <2>2
<1>7. /\ ~Waits(c) /\ frame[c].s = None /\ frame[c].st # "call"
      /\ frame[c].st \notin Sleeping /\ c \notin forks
      /\ sleep[c] = None
  BY <1>n DEF Base, RegInv, Waits, Blocked, Sleeping
<1>8. \A d \in Co \ {c} : Waits(d) => frame[d].s # session' /\ frame[d].s \in 1..session
  BY <1>2 DEF Base, RegInv
<1>9. \A d \in Co \ {c} : Waits(d)' = Waits(d)
  BY <1>3 DEF Waits
<1>10. Waits(c)'
  BY <1>1, <1>3, <1>n DEF Waits
<1>11. RegInv'
  <2>1. \A d \in Co : Waits(d)' => frame'[d].s \in 1..session'
    BY <1>1, <1>3, <1>8, <1>9, <1>t
  <2>2. \A d \in Co : ~Waits(d)' => frame'[d].s = None
    BY <1>3, <1>9, <1>10 DEF Base, RegInv
  <2>3. \A s \in Session, d \in Co :
            coroutineOf'[s] = d <=> (Waits(d)' /\ frame'[d].s = s)
    <3> SUFFICES ASSUME NEW s \in Session, NEW d \in Co
                 PROVE  coroutineOf'[s] = d <=> (Waits(d)' /\ frame'[d].s = s)
      OBVIOUS
    <3>1. coroutineOf[s] = d <=> (Waits(d) /\ frame[d].s = s)
      BY DEF Base, RegInv
    <3>2. CASE s = session'
      BY <3>2, <1>3, <1>4, <1>8, <1>9, <1>10
    <3>3. CASE s # session'
      BY <3>1, <3>3, <1>3, <1>4, <1>7, <1>9
    <3> QED
      BY <3>2, <3>3
  <2>4. \A s \in Session :
            watching'[s] # None <=> \E d \in Co : frame'[d].st = "call" /\ frame'[d].s = s
    <3> SUFFICES ASSUME NEW s \in Session
                 PROVE  watching'[s] # None <=>
                            \E d \in Co : frame'[d].st = "call" /\ frame'[d].s = s
      OBVIOUS
    <3>1. watching[s] # None <=> \E d \in Co : frame[d].st = "call" /\ frame[d].s = s
      BY DEF Base, RegInv
    <3>2. \A d \in Co : frame[d].st = "call" => Waits(d)
      BY DEF Waits, Blocked
    <3>3. CASE s = session'
      <4>1. watching[s] = None
        BY <3>1, <3>2, <3>3, <1>7, <1>8
      <4>2. CASE st = "call"
        BY <4>2, <3>3, <1>3, <1>5
      <4>3. CASE st # "call"
        BY <4>1, <4>3, <3>2, <3>3, <1>3, <1>5, <1>8
      <4> QED
        BY <4>2, <4>3
    <3>4. CASE s # session'
      BY <3>1, <3>4, <1>3, <1>5, <1>7
    <3> QED
      BY <3>3, <3>4
  <2>5. \A d \in Co : sleep'[d] = IF frame'[d].st \in Sleeping THEN frame'[d].s ELSE None
    <3>1. \A d \in Co : sleep[d] = IF frame[d].st \in Sleeping THEN frame[d].s ELSE None
      BY DEF Base, RegInv
    <3> QED
      BY <3>1, <1>3, <1>6, <1>7
  <2>6. \A d \in forks' : frame'[d].st = "fresh" /\ frame'[d].s = None
    <3>1. forks \subseteq Co /\ \A d \in forks : frame[d].st = "fresh" /\ frame[d].s = None
      BY DEF Base, RegInv, TypeOK
    <3> QED
      BY <3>1, <1>1, <1>3, <1>7
  <2> QED
    BY <2>1, <2>2, <2>3, <2>4, <2>5, <2>6 DEF RegInv
<1>12. \A s \in Session : watching[s] # None => watching'[s] # None
  BY <1>5
<1>13. \A d \in Co : sleep[d] # None => sleep'[d] # None
  BY <1>6, <1>7
<1>14. \A s \in Session : coroutineOf'[s] = "BREAK" => coroutineOf[s] = "BREAK"
  BY <1>4, <1>n
<1> QED
  BY <1>1, <1>2, <1>3, <1>4, <1>5, <1>6, <1>8, <1>11, <1>12, <1>13, <1>14, <1>t

-----------------------------------------------------------------------------
(* Steps that move no coroutine.                                           *)
Quiet == UNCHANGED <<loop, frame, tables, errorQueue, forks, kicks, mutex, world>>

(* Answers, wakeups and requests nobody dispatches are such steps.         *)
LEMMA QuietActions ==
    ASSUME Base, \/ Ret \/ Response \/ \E r \in Requests : Respond(r)
                 \/ \E c \in Co : Wakeup(c)
                 \/ \E r \in Requests : ReceiveUnknown(r)
    PROVE  Quiet /\ wakeupQueue' \in Seq(Co) /\ doubled' \in BOOLEAN
           /\ sessionOf' \in [Co -> Requests \cup {Send, None}]
           /\ unresponse' \subseteq Requests
           /\ asked' \in [Requests -> {"new", "open", "late", "answered", "again", "forgotten"}]
<1>t. /\ wakeupQueue \in Seq(Co) /\ doubled \in BOOLEAN
      /\ sessionOf \in [Co -> Requests \cup {Send, None}]
      /\ unresponse \subseteq Requests
      /\ asked \in [Requests -> {"new", "open", "late", "answered", "again", "forgotten"}]
  BY DEF Base, TypeOK
<1>a. ASSUME NEW rs, Answer(rs)
      PROVE  asked' \in [Requests -> {"new", "open", "late", "answered", "again", "forgotten"}]
  BY <1>t, <1>a DEF Answer
<1>r. Running => running \in Co
  BY DEF Base, RunInv, Running
<1>1. CASE Ret
  BY <1>1, <1>t, <1>a, <1>r DEF Ret, Detach, Quiet, queues
<1>2. CASE Response
  BY <1>2, <1>t, <1>r DEF Response, Detach, Quiet, queues
<1>3. CASE \E r \in Requests : Respond(r)
  BY <1>3, <1>t, <1>a DEF Respond, Quiet, queues
<1>4. CASE \E c \in Co : Wakeup(c)
  BY <1>4, <1>t DEF Wakeup, Woken, Quiet, requests
<1>5. CASE \E r \in Requests : ReceiveUnknown(r)
  BY <1>5, <1>t DEF ReceiveUnknown, Quiet, queues
<1> QED
  BY <1>1, <1>2, <1>3, <1>4, <1>5

(* They keep the base, which does not speak of what they change.           *)
LEMMA QuietKeepsBase ==
    ASSUME Base, Quiet, wakeupQueue' \in Seq(Co), doubled' \in BOOLEAN,
           sessionOf' \in [Co -> Requests \cup {Send, None}],
           unresponse' \subseteq Requests,
           asked' \in [Requests -> {"new", "open", "late", "answered", "again", "forgotten"}]
    PROVE  Base'
<1> USE DEF Base, Quiet, loop, tables, world
<1>1. TypeOK'
  BY DEF TypeOK
<1>2. RunInv'
  BY DEF RunInv
<1>3. RegInv'
  BY DEF RegInv, Waits
<1>4. WorldInv'
  BY DEF WorldInv
<1>5. ErrInv'
  BY DEF ErrInv, ErrValid, Distinct
<1>6. DepthInv'
  BY DEF DepthInv
<1> QED
  BY <1>1, <1>2, <1>3, <1>4, <1>5, <1>6

(* The control goes on, and at most a message's errors are queued.         *)
LEMMA ControlKeepsBase ==
    ASSUME Base, NothingToResume \/ RunKick \/ MessageDone
    PROVE  Base'
<1> USE DEF Base, loop, tables, queues, requests, world
<1>p. pc' # "run" /\ pc # "run"
  BY DEF NothingToResume, RunKick, MessageDone, ErrorStage, Suspend
<1>1. TypeOK'
  <2>1. CASE NothingToResume
    BY <2>1 DEF TypeOK, NothingToResume
  <2>2. CASE RunKick
    BY <2>2 DEF TypeOK, RunKick, Suspend, Stop
  <2>3. CASE MessageDone
    BY <2>3 DEF TypeOK, MessageDone
  <2> QED
    BY <2>1, <2>2, <2>3
<1>u. UNCHANGED <<frame, tables, forks, mutex, errorQueue, timers, calls, session, exited>>
  BY DEF NothingToResume, RunKick, MessageDone
<1>2. RunInv'
  BY <1>p, <1>u DEF RunInv
<1>3. RegInv'
  BY <1>u DEF RegInv, Waits
<1>4. WorldInv'
  BY <1>u DEF WorldInv
<1>5. ErrInv'
  <2>1. CASE NothingToResume
    BY <2>1, <1>u DEF ErrInv, ErrValid, Distinct, NothingToResume, ErrorStage, TypeOK
  <2>2. CASE RunKick
    BY <2>2, <1>u DEF ErrInv, ErrValid, Distinct, RunKick, Suspend, TypeOK
  <2>3. CASE MessageDone
    BY <2>3, <1>u DEF ErrInv, ErrValid, Distinct, MessageDone, TypeOK
  <2> QED
    BY <2>1, <2>2, <2>3
<1>6. DepthInv'
  BY <1>u DEF DepthInv
<1> QED
  BY <1>1, <1>2, <1>3, <1>4, <1>5, <1>6

(* The errors a message queues are those of calls that wait, each once.    *)
LEMMA ErrorMessageKeepsBase ==
    ASSUME Base, NEW queued \in Seq(Session), Distinct(queued),
           \A i \in DOMAIN queued : watching[queued[i]] # None,
           pc = "idle", Handled(queued), calls' \subseteq calls,
           down' \subseteq Peers, unresponse' \subseteq Requests
    PROVE  Base'
<1> USE DEF Base, loop, tables, queues, requests, world
<1>p. /\ pc' = "wakeup" /\ owed' = owed + 1 /\ cur' = None /\ running' = None
      /\ UNCHANGED <<frame, tables, wakeupQueue, forks, kicks, doubled, mutex,
                     sessionOf, asked, timers, session, exited, young>>
  BY DEF Handled, Suspend, Stop
<1>q. errorQueue' \in Seq(Session) /\ (exited \/ errorQueue' = queued)
  BY DEF Handled, ErrInv, TypeOK
<1>1. TypeOK'
  BY <1>p, <1>q DEF TypeOK
<1>2. RunInv'
  BY <1>p DEF RunInv
<1>3. RegInv'
  BY <1>p DEF RegInv, Waits
<1>4. WorldInv'
  BY <1>p DEF WorldInv
<1>5. ErrInv'
  BY <1>p, <1>q DEF ErrInv, ErrValid, Distinct, TypeOK
<1>6. DepthInv'
  BY <1>p DEF DepthInv
<1> QED
  BY <1>1, <1>2, <1>3, <1>4, <1>5, <1>6

(* An error for one call, or for every call to a peer that has exited.     *)
LEMMA ErrorsKeepBase ==
    ASSUME Base, \/ \E s \in Session : ReceiveError(s)
                 \/ \E p \in Peers : ReceiveDown(p)
    PROVE  Base'
<1>t. calls \subseteq Session /\ unresponse \subseteq Requests /\ down \subseteq Peers
  BY DEF Base, TypeOK
<1>1. ASSUME NEW s \in Session, ReceiveError(s)
      PROVE  Base'
  <2> DEFINE queued == IF watching[s] # None THEN <<s>> ELSE <<>>
  <2>1. queued \in Seq(Session) /\ Distinct(queued)
    BY DEF Distinct
  <2>2. \A i \in DOMAIN queued : watching[queued[i]] # None
    OBVIOUS
  <2>3. /\ pc = "idle" /\ Handled(queued) /\ calls' \subseteq calls
        /\ down' \subseteq Peers /\ unresponse' \subseteq Requests
    BY <1>1, <1>t DEF ReceiveError, MayArrive
  <2> HIDE DEF queued
  <2> QED
    BY <2>1, <2>2, <2>3, ErrorMessageKeepsBase
<1>2. ASSUME NEW p \in Peers, ReceiveDown(p)
      PROVE  Base'
  <2> DEFINE watched == {s \in Session : watching[s] = p}
  <2>1. Cardinality(watched) \in Nat
    <3>1. IsFiniteSet(Session)
      BY LuaServiceAssumption, FS_Interval DEF Session
    <3> QED
      BY <3>1, FS_Subset, FS_CardinalityType
  <2>2. PICK order \in [1..Cardinality(watched) -> watched] :
            (\A i, j \in DOMAIN order : order[i] = order[j] => i = j) /\ Handled(order)
    BY <1>2 DEF ReceiveDown
  <2>3. order \in Seq(Session) /\ DOMAIN order = 1..Cardinality(watched)
    BY <2>1, <2>2
  <2>4. Distinct(order) /\ \A i \in DOMAIN order : watching[order[i]] # None
    BY <2>2, LuaServiceAssumption DEF Distinct
  <2>5. /\ pc = "idle" /\ calls' \subseteq calls
        /\ down' \subseteq Peers /\ unresponse' \subseteq Requests
    BY <1>2, <1>t DEF ReceiveDown
  <2> QED
    BY <2>2, <2>3, <2>4, <2>5, ErrorMessageKeepsBase
<1> QED
  BY <1>1, <1>2

(* The calls that still wait for their error when c has gone on.           *)
ErrorsLeft(q, c) ==
    /\ Distinct(q)
    /\ \A i \in DOMAIN q :
           /\ watching[q[i]] # None
           /\ frame[c].st = "call" => q[i] # frame[c].s

(* A resumption that leaves the timers and the error queue as it should.   *)
LEMMA ResumptionKeepsBase ==
    ASSUME Base, NEW c, NEW before, Resumption(c, before),
           forks' \subseteq forks, c \notin forks',
           \A s \in Session :
               /\ before[s] = "BREAK"
               /\ coroutineOf[s] = "BREAK" \/ (frame[c].st = "sleep" /\ frame[c].s = s)
               => s \in timers',
           \A s \in timers : s # frame[c].s => s \in timers',
           timers' \subseteq timers, calls' \subseteq calls,
           errorQueue' \in Seq(Session), exited \/ ErrorsLeft(errorQueue', c),
           wakeupQueue' \in Seq(Co), owed' \in Nat,
           UNCHANGED <<kicks, doubled, requests, down>>
    PROVE  Base'
<1>k. /\ pc' = "run" /\ cur' = c /\ running' = c /\ c \in Co
      /\ frame' \in [Co -> [st : Blocked \cup {"free", "dead", "run", "fresh"},
                            s : Session \cup {None}, depth : Nat]]
      /\ frame'[c].st = "run" /\ frame'[c].s = None
      /\ \A d \in Co \ {c} : frame'[d] = frame[d]
      /\ coroutineOf' \in [Session -> Co \cup {None, "BREAK"}]
      /\ \A s \in Session : coroutineOf'[s] = "BREAK" =>
             /\ before[s] = "BREAK"
             /\ coroutineOf[s] = "BREAK" \/ (frame[c].st = "sleep" /\ frame[c].s = s)
      /\ watching' \in [Session -> Peers \cup {None}]
      /\ \A s \in Session :
             watching'[s] = IF frame[c].st = "call" /\ s = frame[c].s THEN None
                                                                  ELSE watching[s]
      /\ sleep' \in [Co -> Session \cup {None}]
      /\ mutex' \in [thread : Co \cup {None}, ref : Nat, threads : Seq(Co)]
      /\ RunInv' /\ RegInv' /\ DepthInv'
  BY ResumptionKeeps
<1>u. UNCHANGED <<session, exited, young, kicks, doubled, sessionOf, unresponse, asked,
                  down>>
  BY DEF Resumption, requests
<1>1. TypeOK'
  <2>1. /\ unresponse' \subseteq Requests /\ sessionOf' \in [Co -> Requests \cup {Send, None}]
        /\ asked' \in [Requests -> {"new", "open", "late", "answered", "again", "forgotten"}]
        /\ session' \in 0..MaxSession /\ exited' \in BOOLEAN /\ doubled' \in BOOLEAN
        /\ kicks' \in Nat /\ down' \subseteq Peers /\ young' \subseteq Session
    BY <1>u DEF Base, TypeOK
  <2>2. forks' \subseteq Co /\ timers' \subseteq Session /\ calls' \subseteq Session
    BY DEF Base, TypeOK
  <2> QED
    BY <1>k, <2>1, <2>2 DEF TypeOK
<1>2. WorldInv'
  <2>1. \A s \in Session : coroutineOf'[s] = "BREAK" => s \in timers'
    BY <1>k
  <2>2. \A d \in Co : frame'[d].st = "sleep" => frame'[d].s \in timers'
    <3> SUFFICES ASSUME NEW d \in Co, frame'[d].st = "sleep"
                 PROVE  frame'[d].s \in timers'
      OBVIOUS
    <3>1. d # c /\ frame'[d] = frame[d]
      BY <1>k
    <3>2. frame[d].s \in timers /\ Waits(d) /\ frame[d].s \in Session
      BY <3>1 DEF Base, WorldInv, TypeOK, Waits, Blocked, Sleeping
    <3>3. frame[d].s # frame[c].s
      <4>1. Waits(c) => coroutineOf[frame[d].s] = c \/ frame[c].s # frame[d].s
        BY <3>2, <1>k DEF Base, RegInv
      <4>2. coroutineOf[frame[d].s] = d
        BY <3>2 DEF Base, RegInv
      <4>3. ~Waits(c) => frame[c].s = None
        BY <1>k DEF Base, RegInv
      <4> QED
        BY <4>1, <4>2, <4>3, <3>1, <3>2, LuaServiceAssumption
    <3> QED
      BY <3>1, <3>2, <3>3
  <2>3. \A d \in Co : frame'[d].st \in {"wait", "queue"} =>
                          frame'[d].s \notin timers' \cup calls'
    <3>1. \A d \in Co : frame'[d].st \in {"wait", "queue"} => frame'[d] = frame[d]
      BY <1>k
    <3>2. \A d \in Co : frame[d].st \in {"wait", "queue"} =>
                              frame[d].s \notin timers \cup calls
      BY DEF Base, WorldInv
    <3> QED
      BY <3>1, <3>2
  <2>4. timers' \cup calls' \subseteq 1..session'
    BY <1>u DEF Base, WorldInv
  <2> QED
    BY <2>1, <2>2, <2>3, <2>4 DEF WorldInv
<1>3. ErrInv'
  <2>1. ASSUME ErrorsLeft(errorQueue', c)
        PROVE  ErrValid'
    <3>1. ASSUME NEW i \in DOMAIN errorQueue'
          PROVE  watching'[errorQueue'[i]] # None
      <4>1. errorQueue'[i] \in Session
        OBVIOUS
      <4>2. /\ watching[errorQueue'[i]] # None
            /\ ~(frame[c].st = "call" /\ errorQueue'[i] = frame[c].s)
        BY <2>1 DEF ErrorsLeft
      <4>3. \A s \in Session :
                watching'[s] = IF frame[c].st = "call" /\ s = frame[c].s THEN None
                                                                      ELSE watching[s]
        BY <1>k
      <4> QED
        BY ONLY <4>1, <4>2, <4>3
    <3>2. Distinct(errorQueue)'
      BY <2>1 DEF ErrorsLeft, Distinct
    <3> QED
      BY <3>1, <3>2 DEF ErrValid
  <2>2. (exited \/ ErrValid)'
    BY <2>1, <1>u
  <2> QED
    BY <2>2, <1>k DEF ErrInv
<1> QED
  BY <1>1, <1>2, <1>3, <1>k DEF Base

(* A queue of distinct entries without its head is one still.              *)
LEMMA TailDistinct ==
    ASSUME NEW S, NEW q \in Seq(S), q # <<>>, Distinct(q)
    PROVE  /\ Tail(q) \in Seq(S) /\ Distinct(Tail(q))
           /\ \A i \in DOMAIN Tail(q) :
                  i + 1 \in DOMAIN q /\ Tail(q)[i] = q[i + 1] /\ Tail(q)[i] # Head(q)
<1>1. /\ Tail(q) \in Seq(S) /\ Len(q) \in Nat /\ Len(q) > 0
      /\ DOMAIN q = 1..Len(q) /\ DOMAIN Tail(q) = 1..Len(q) - 1
      /\ \A i \in 1..Len(q) - 1 : Tail(q)[i] = q[i + 1]
      /\ Head(q) = q[1]
  OBVIOUS
<1> QED
  BY <1>1 DEF Distinct

(* The session of no coroutine may be taken out of the table.              *)
LEMMA ClearedKeeps ==
    ASSUME Base, NEW s \in Session, coroutineOf[s] \notin Co,
           coroutineOf' = [coroutineOf EXCEPT ![s] = None],
           UNCHANGED <<frame, watching, sleep, session, forks>>
    PROVE  /\ coroutineOf' \in [Session -> Co \cup {None, "BREAK"}]
           /\ \A r \in Session : coroutineOf'[r] = "BREAK" =>
                                     r # s /\ coroutineOf[r] = "BREAK"
           /\ \A d \in Co : ~(Waits(d) /\ frame[d].s = s)
           /\ RegInv'
<1> USE DEF Base
<1>1. coroutineOf' \in [Session -> Co \cup {None, "BREAK"}]
  BY DEF TypeOK
<1>2. \A r \in Session : coroutineOf'[r] = "BREAK" => r # s /\ coroutineOf[r] = "BREAK"
  BY LuaServiceAssumption DEF TypeOK
<1>3. \A d \in Co : ~(Waits(d) /\ frame[d].s = s)
  BY DEF RegInv
<1>4. \A r \in Session, d \in Co :
          coroutineOf'[r] = d <=> (Waits(d) /\ frame[d].s = r)
  <2> SUFFICES ASSUME NEW r \in Session, NEW d \in Co
               PROVE  coroutineOf'[r] = d <=> (Waits(d) /\ frame[d].s = r)
    OBVIOUS
  <2>1. CASE r = s
    BY <2>1, <1>3, LuaServiceAssumption DEF TypeOK
  <2>2. CASE r # s
    BY <2>2 DEF RegInv, TypeOK
  <2> QED
    BY <2>1, <2>2
<1>5. RegInv'
  BY <1>4 DEF RegInv, Waits
<1> QED
  BY <1>1, <1>2, <1>3, <1>5

(* Whatever resumes a coroutine, an answer, a token, an error or a fork,   *)
(* keeps the base.                                                         *)
LEMMA ResumptionsKeepBase ==
    ASSUME Base, \/ DispatchWakeup \/ DispatchErrorQueue
                 \/ \E c \in Co : RunFork(c)
                 \/ \E s \in Session : ReceiveResponse(s)
    PROVE  Base'
<1>t. /\ wakeupQueue \in Seq(Co) /\ errorQueue \in Seq(Session) /\ owed \in Nat
      /\ forks \subseteq Co /\ (exited \/ ErrValid)
      /\ \A s \in Session : coroutineOf[s] = "BREAK" => s \in timers
      /\ \A d \in Co : frame[d].st = "sleep" => frame[d].s \in timers
      /\ \A d \in forks : frame[d].st = "fresh" /\ frame[d].s = None
  BY DEF Base, TypeOK, ErrInv, WorldInv, RegInv
<1>1. CASE DispatchWakeup
  <2> DEFINE c == Head(wakeupQueue)
             before == [coroutineOf EXCEPT ![sleep[c]] = "BREAK"]
  <2>1. c \in Co /\ wakeupQueue' \in Seq(Co)
    BY <1>1, <1>t DEF DispatchWakeup
  <2>2. UNCHANGED <<owed, errorQueue, forks, kicks, doubled, requests, world>>
    BY <1>1 DEF DispatchWakeup
  <2>3. CASE sleep[c] # None
    <3>1. /\ Resumption(c, before) /\ frame[c].st \in Sleeping
          /\ frame[c].s = sleep[c]
      BY <1>1, <2>3, WakeupResumes
    <3>2. c \notin forks'
      BY <3>1, <2>2, <1>t DEF Sleeping
    <3>3. frame[c].st # "call"
      BY <3>1 DEF Sleeping
    <3>4. UNCHANGED <<timers, calls, down>>
      BY <2>2 DEF world
    <3>5. \A s \in Session :
              /\ before[s] = "BREAK"
              /\ coroutineOf[s] = "BREAK" \/ (frame[c].st = "sleep" /\ frame[c].s = s)
              => s \in timers'
      BY <1>t, <2>1, <3>4
    <3>6. exited \/ ErrorsLeft(errorQueue', c)
      BY <1>t, <2>2, <3>3 DEF ErrValid, ErrorsLeft, Distinct
    <3>7. errorQueue' \in Seq(Session) /\ owed' \in Nat /\ forks' \subseteq forks
      BY <1>t, <2>2
    <3> HIDE DEF c, before
    <3> QED
      BY <2>1, <2>2, <3>1, <3>2, <3>4, <3>5, <3>6, <3>7, ResumptionKeepsBase
  <2>4. CASE sleep[c] = None
    <3>1. /\ pc = "wakeup" /\ pc' = "error"
          /\ UNCHANGED <<cur, running, frame, tables, mutex>>
      BY <1>1, <2>4 DEF DispatchWakeup, Resume
    <3> USE <2>1, <2>2, <3>1 DEF Base, tables, requests, world
    <3>2. TypeOK'
      BY DEF TypeOK
    <3>3. RunInv'
      BY DEF RunInv
    <3>4. RegInv'
      BY DEF RegInv, Waits
    <3>5. WorldInv'
      BY DEF WorldInv
    <3>6. ErrInv'
      BY DEF ErrInv, ErrValid, Distinct
    <3>7. DepthInv'
      BY DEF DepthInv
    <3> QED
      BY <3>2, <3>3, <3>4, <3>5, <3>6, <3>7
  <2> QED
    BY <2>3, <2>4
<1>2. CASE DispatchErrorQueue
  <2> DEFINE before == [coroutineOf EXCEPT ![Head(errorQueue)] = None]
  <2>1. CASE coroutineOf[Head(errorQueue)] \in Co
    <3>1. PICK c \in Co : /\ Resumption(c, before) /\ frame[c].s = Head(errorQueue)
                          /\ exited \/ frame[c].st = "call"
                          /\ owed' = owed - 1
      BY <1>2, <2>1, ErrorResumes
    <3>2. /\ errorQueue # <<>> /\ errorQueue' = Tail(errorQueue) /\ owed > 0
          /\ UNCHANGED <<wakeupQueue, forks, kicks, doubled, requests, world>>
      BY <1>2 DEF DispatchErrorQueue
    <3>3. exited \/ ErrorsLeft(errorQueue', c)
      BY <3>1, <3>2, <1>t, TailDistinct DEF ErrValid, ErrorsLeft
    <3>4. c \notin forks'
      <4>1. \A d \in forks : ~Waits(d)
        BY <1>t, LuaServiceAssumption DEF Waits, Blocked, Sleeping
      <4>2. Head(errorQueue) \in Session
        BY <3>2, <1>t
      <4>3. frame[c].s # None
        BY <3>1, <4>2, LuaServiceAssumption
      <4> QED
        BY <3>2, <4>3, <1>t
    <3>5. UNCHANGED <<timers, calls, down>>
      BY <3>2 DEF world
    <3>6. \A s \in Session : before[s] = "BREAK" => coroutineOf[s] = "BREAK"
      BY LuaServiceAssumption DEF Base, TypeOK
    <3>7. \A s \in Session :
              /\ before[s] = "BREAK"
              /\ coroutineOf[s] = "BREAK" \/ (frame[c].st = "sleep" /\ frame[c].s = s)
              => s \in timers'
      BY <1>t, <3>5, <3>6
    <3>8. /\ owed' \in Nat /\ errorQueue' \in Seq(Session) /\ wakeupQueue' \in Seq(Co)
          /\ forks' \subseteq forks
      BY <3>1, <3>2, <1>t
    <3> HIDE DEF before
    <3> QED
      BY <3>1, <3>2, <3>3, <3>4, <3>5, <3>7, <3>8, ResumptionKeepsBase
  <2>2. CASE coroutineOf[Head(errorQueue)] \notin Co
    <3>1. /\ Head(errorQueue) \in Session /\ exited /\ coroutineOf' = before
          /\ pc' = "forks" /\ owed' = 0 /\ pc # "run"
          /\ errorQueue' \in Seq(Session)
          /\ UNCHANGED <<cur, running, frame, watching, sleep, mutex, wakeupQueue,
                         forks, kicks, doubled, requests, world>>
      BY <1>2, <2>2, ErrorRaises
    <3>2. session' = session
      BY <3>1 DEF world
    <3>3. /\ coroutineOf' \in [Session -> Co \cup {None, "BREAK"}]
          /\ \A r \in Session : coroutineOf'[r] = "BREAK" => coroutineOf[r] = "BREAK"
          /\ RegInv'
      BY <2>2, <3>1, <3>2, ClearedKeeps
    <3> HIDE DEF before
    <3> USE <3>1, <3>3 DEF Base, requests, world
    <3>4. TypeOK'
      BY DEF TypeOK
    <3>5. RunInv'
      BY DEF RunInv
    <3>6. WorldInv'
      BY DEF WorldInv
    <3>7. ErrInv'
      BY DEF ErrInv
    <3>8. DepthInv'
      BY DEF DepthInv
    <3> QED
      BY <3>4, <3>5, <3>6, <3>7, <3>8
  <2> QED
    BY <2>1, <2>2
<1>3. ASSUME NEW c \in Co, RunFork(c)
      PROVE  Base'
  <2>1. Resumption(c, coroutineOf) /\ frame[c].st = "fresh" /\ frame[c].s = None
    BY <1>3, ForkResumes
  <2>2. /\ forks' \subseteq forks /\ c \notin forks'
        /\ UNCHANGED <<owed, wakeupQueue, errorQueue, kicks, doubled, requests, world>>
    BY <1>3 DEF RunFork
  <2>3. UNCHANGED <<timers, calls, down>>
    BY <2>2 DEF world
  <2>4. exited \/ ErrorsLeft(errorQueue', c)
    BY <1>t, <2>1, <2>2 DEF ErrValid, ErrorsLeft, Distinct
  <2> QED
    BY <1>t, <2>1, <2>2, <2>3, <2>4, ResumptionKeepsBase
<1>4. ASSUME NEW s \in Session, ReceiveResponse(s)
      PROVE  Base'
  <2> DEFINE c == coroutineOf[s]
             before == [coroutineOf EXCEPT ![s] = None]
  <2>1. /\ pc = "idle" /\ timers' = timers \ {s} /\ calls' = calls \ {s}
        /\ UNCHANGED <<owed, queues, requests, down, session, exited, young>>
    BY <1>4 DEF ReceiveResponse, MayArrive
  <2>2. (exited \/ errorQueue = <<>>) /\ forks = {}
    BY <2>1 DEF Base, ErrInv
  <2>3. UNCHANGED <<wakeupQueue, errorQueue, forks, kicks, doubled>>
    BY <2>1 DEF queues
  <2>4. \A r \in Session : before[r] = "BREAK" => r # s /\ coroutineOf[r] = "BREAK"
    BY LuaServiceAssumption DEF Base, TypeOK
  <2>5. CASE c \in Co
    <3>1. Resumption(c, before) /\ frame[c].s = s
      BY <1>4, <2>5, ResponseResumes
    <3>2. \A r \in Session :
              /\ before[r] = "BREAK"
              /\ coroutineOf[r] = "BREAK" \/ (frame[c].st = "sleep" /\ frame[c].s = r)
              => r \in timers'
      BY <1>t, <2>1, <2>4
    <3>3. errorQueue' = <<>> => \A i \in DOMAIN errorQueue' : FALSE
      OBVIOUS
    <3>4. exited \/ ErrorsLeft(errorQueue', c)
      BY <2>2, <2>3, <3>3 DEF ErrorsLeft, Distinct
    <3>5. /\ forks' \subseteq forks /\ c \notin forks' /\ owed' \in Nat
          /\ errorQueue' \in Seq(Session) /\ wakeupQueue' \in Seq(Co)
          /\ timers' \subseteq timers /\ calls' \subseteq calls
          /\ \A r \in timers : r # frame[c].s => r \in timers'
          /\ UNCHANGED <<kicks, doubled, requests, down>>
      BY <1>t, <2>1, <2>2, <2>3, <3>1
    <3> HIDE DEF c, before
    <3> QED
      BY <3>1, <3>2, <3>4, <3>5, ResumptionKeepsBase
  <2>6. CASE c \notin Co
    <3>1. coroutineOf' = before /\ UNCHANGED <<pc, cur, running, frame, watching, sleep, mutex>>
      BY <1>4, <2>6 DEF ReceiveResponse
    <3>2. /\ coroutineOf' \in [Session -> Co \cup {None, "BREAK"}]
          /\ \A d \in Co : ~(Waits(d) /\ frame[d].s = s)
          /\ RegInv'
      BY <2>1, <2>3, <2>6, <3>1, ClearedKeeps
    <3> USE <2>1, <2>3, <3>1, <3>2 DEF Base, requests
    <3>3. TypeOK'
      BY DEF TypeOK
    <3>4. RunInv'
      BY DEF RunInv
    <3>7. WorldInv'
      <4>1. \A r \in Session : coroutineOf'[r] = "BREAK" => r \in timers'
        BY <1>t, <2>4
      <4>2. \A d \in Co : frame[d].st = "sleep" => frame[d].s \in timers'
        BY <1>t, <3>2 DEF Waits, Blocked, Sleeping
      <4> QED
        BY <4>1, <4>2 DEF WorldInv
    <3>8. ErrInv'
      BY DEF ErrInv, ErrValid, Distinct
    <3>9. DepthInv'
      BY DEF DepthInv
    <3> QED
      BY <3>2, <3>3, <3>4, <3>7, <3>8, <3>9
  <2> QED
    BY <2>5, <2>6
<1> QED
  BY <1>1, <1>2, <1>3, <1>4

(* Registering a new session keeps the rest, too: a sleeper and a fresh    *)
(* coroutine have a timer, a caller has a callee.                          *)
LEMMA RegistrationKeepsBase ==
    ASSUME Base, NEW c \in Co, NEW st \in Blocked \cup {"fresh"},
           NEW p, st = "call" => p \in Peers, Register(c, c, st),
           sleep' = IF st \in Sleeping THEN [sleep EXCEPT ![c] = session'] ELSE sleep,
           watching' = IF st = "call" THEN [watching EXCEPT ![session'] = p] ELSE watching,
           timers' = IF st \in {"sleep", "fresh"} THEN timers \cup {session'} ELSE timers,
           calls' = IF st = "call" THEN calls \cup {session'} ELSE calls,
           mutex' \in [thread : Co \cup {None}, ref : Nat, threads : Seq(Co)],
           mutex'.thread = mutex.thread, mutex'.ref = mutex.ref,
           young' \subseteq young \cup {session'},
           \/ st # "fresh" /\ c = cur /\ Suspend
           \/ st = "fresh" /\ frame[c].st = "free" /\ UNCHANGED loop
    PROVE  Base'
<1>r. /\ pc = "run" /\ cur \in Co /\ frame[cur].st = "run"
      /\ \A d \in Co \ {cur} : frame[d].st # "run"
  BY DEF Register, Running, Base, RunInv
<1>s. frame[c].st \in {"run", "free"}
  BY <1>r
<1>k. /\ session' = session + 1 /\ session' \in Session /\ session \in Nat
      /\ session' \notin timers \cup calls
      /\ frame' \in [Co -> [st : Blocked \cup {"free", "dead", "run", "fresh"},
                            s : Session \cup {None}, depth : Nat]]
      /\ frame'[c].st = st /\ frame'[c].s = session'
      /\ frame'[c].depth = frame[c].depth
      /\ \A d \in Co \ {c} : frame'[d] = frame[d]
      /\ \A d \in Co \ {c} : Waits(d) => frame[d].s # session'
      /\ coroutineOf' \in [Session -> Co \cup {None, "BREAK"}]
      /\ \A s \in Session : coroutineOf'[s] = "BREAK" => coroutineOf[s] = "BREAK"
      /\ watching' \in [Session -> Peers \cup {None}]
      /\ \A s \in Session : watching[s] # None => watching'[s] # None
      /\ sleep' \in [Co -> Session \cup {None}]
      /\ RegInv'
  BY <1>s, RegisterKeeps
<1>u. UNCHANGED <<down, exited, wakeupQueue, errorQueue, forks, kicks, doubled,
                  sessionOf, unresponse, asked>>
  BY DEF Register, queues, requests
<1>l. \/ /\ st # "fresh" /\ c = cur /\ pc' = "wakeup" /\ owed' = owed + 1
         /\ cur' = None /\ running' = None
      \/ /\ st = "fresh" /\ c # cur /\ UNCHANGED <<pc, cur, running, owed>>
  BY <1>r DEF Suspend, Stop, loop
<1>b. TypeOK /\ RunInv /\ RegInv /\ WorldInv /\ ErrInv /\ DepthInv
  BY DEF Base
<1>1. TypeOK'
  <2>1. /\ pc' \in {"idle", "run", "wakeup", "error", "forks"}
        /\ cur' \in Co \cup {None} /\ running' \in Co \cup {None} /\ owed' \in Nat
    BY <1>l, <1>b DEF TypeOK
  <2>2. /\ session' \in 0..MaxSession /\ timers' \subseteq Session /\ calls' \subseteq Session
        /\ young' \subseteq Session
    BY <1>k, <1>b, LuaServiceAssumption DEF TypeOK, Session
  <2> QED
    BY <2>1, <2>2, <1>k, <1>u, <1>b DEF TypeOK
<1>2. RunInv'
  <2>1. CASE st # "fresh"
    <3>1. pc' # "run" /\ st # "run"
      BY <2>1, <1>l DEF Blocked, Sleeping
    <3>2. \A d \in Co : frame'[d].st # "run"
      <4>1. c = cur
        BY <2>1, <1>l
      <4>2. frame'[c].st # "run" /\ \A d \in Co \ {c} : frame'[d] = frame[d]
        BY <3>1, <1>k
      <4> QED
        BY <4>1, <4>2, <1>r
    <3> QED
      BY <3>1, <3>2 DEF RunInv
  <2>2. CASE st = "fresh"
    BY <2>2, <1>l, <1>k, <1>b, <1>r DEF RunInv
  <2> QED
    BY <2>1, <2>2
<1>3. WorldInv'
  <2>1. timers \subseteq timers' /\ timers' \cup calls' \subseteq timers \cup calls \cup {session'}
    OBVIOUS
  <2>2. \A s \in Session : coroutineOf'[s] = "BREAK" => s \in timers'
    BY <2>1, <1>k, <1>b DEF WorldInv
  <2>3. \A d \in Co : frame'[d].st = "sleep" => frame'[d].s \in timers'
    <3>1. frame'[c].st = "sleep" => frame'[c].s \in timers'
      BY <1>k
    <3>2. \A d \in Co \ {c} : frame'[d].st = "sleep" => frame'[d].s \in timers'
      BY <2>1, <1>k, <1>b DEF WorldInv
    <3> QED
      BY <3>1, <3>2
  <2>4. \A d \in Co : frame'[d].st \in {"wait", "queue"} =>
                          frame'[d].s \notin timers' \cup calls'
    <3>1. frame'[c].st \in {"wait", "queue"} => timers' = timers /\ calls' = calls
      BY <1>k
    <3>2. frame'[c].st \in {"wait", "queue"} => frame'[c].s \notin timers' \cup calls'
      BY <3>1, <1>k
    <3>3. ASSUME NEW d \in Co \ {c}, frame'[d].st \in {"wait", "queue"}
          PROVE  frame'[d].s \notin timers' \cup calls'
      <4>1. frame'[d] = frame[d] /\ Waits(d)
        BY <3>3, <1>k DEF Waits, Blocked, Sleeping
      <4>2. frame[d].s # session' /\ frame[d].s \notin timers \cup calls
        BY <4>1, <3>3, <1>k, <1>b DEF WorldInv
      <4> QED
        BY <4>1, <4>2, <2>1
    <3> QED
      BY <3>2, <3>3
  <2>5. timers' \cup calls' \subseteq 1..session'
    BY <2>1, <1>k, <1>b DEF WorldInv
  <2> QED
    BY <2>2, <2>3, <2>4, <2>5 DEF WorldInv
<1>4. ErrInv'
  <2>1. (exited \/ ErrValid)'
    <3>1. errorQueue \in Seq(Session) /\ (exited \/ ErrValid)
      BY <1>b DEF TypeOK, ErrInv
    <3>2. exited' = exited /\ errorQueue' = errorQueue
      BY <1>u
    <3>3. ASSUME ErrValid
          PROVE  ErrValid'
      BY <3>1, <3>2, <3>3, <1>k DEF ErrValid, Distinct
    <3> QED
      BY <3>1, <3>2, <3>3
  <2>2. pc' # "idle" /\ pc' # "forks" /\ (pc' = "wakeup" => owed' > 0)
        /\ (pc' = "run" \/ owed' > 0)
    BY <1>l, <1>r, <1>b DEF TypeOK
  <2> QED
    BY <2>1, <2>2, <1>u, <1>b DEF ErrInv
<1>5. DepthInv'
  <2>1. \A d \in Co : /\ frame'[d].depth = frame[d].depth
                      /\ frame'[d].st = "free" => frame[d].st = "free"
    BY <1>k DEF Blocked, Sleeping
  <2> QED
    BY <2>1, <1>b DEF DepthInv
<1> QED
  BY <1>1, <1>2, <1>3, <1>4, <1>5, <1>k DEF Base

(* sleep, wait, call, timeout and waiting for the queue.                   *)
LEMMA RegistrationsKeepBase ==
    ASSUME Base, \/ Sleep \/ Wait \/ EnterQueue
                 \/ \E p \in Peers : Call(p)
                 \/ \E c \in Co : Timeout(c)
    PROVE  Base'
<1>t. mutex \in [thread : Co \cup {None}, ref : Nat, threads : Seq(Co)]
  BY DEF Base, TypeOK
<1>r. Running => cur \in Co /\ running = cur
  BY DEF Base, RunInv, Running
<1>1. CASE Sleep
  <2>1. /\ cur \in Co /\ Register(cur, cur, "sleep") /\ Suspend
        /\ sleep' = [sleep EXCEPT ![cur] = session']
        /\ timers' = timers \cup {session'} /\ UNCHANGED <<watching, calls, mutex>>
        /\ young' \subseteq young \cup {session'}
    BY <1>1, <1>r DEF Sleep, SuspendSleep, Register
  <2> DEFINE st == "sleep"
  <2>2. st \in Blocked \cup {"fresh"} /\ st \in Sleeping /\ st # "call"
    BY DEF Blocked, Sleeping
  <2> QED
    BY <2>1, <2>2, <1>t, RegistrationKeepsBase
<1>2. CASE Wait
  <2>1. /\ cur \in Co /\ Register(cur, cur, "wait") /\ Suspend
        /\ sleep' = [sleep EXCEPT ![cur] = session']
        /\ UNCHANGED <<watching, calls, mutex, timers, young>>
    BY <1>2, <1>r DEF Wait, SuspendSleep, Register
  <2> DEFINE st == "wait"
  <2>2. st \in Blocked \cup {"fresh"} /\ st \in Sleeping /\ st # "call"
    BY DEF Blocked, Sleeping
  <2> QED
    BY <2>1, <2>2, <1>t, RegistrationKeepsBase
<1>3. CASE EnterQueue
  <2>1. /\ cur \in Co /\ Register(cur, cur, "queue") /\ Suspend
        /\ sleep' = [sleep EXCEPT ![cur] = session']
        /\ UNCHANGED <<watching, calls, timers, young>>
        /\ mutex' = [mutex EXCEPT !.threads = Append(@, cur)]
    BY <1>3, <1>r DEF EnterQueue, SuspendSleep, Register
  <2>2. /\ mutex' \in [thread : Co \cup {None}, ref : Nat, threads : Seq(Co)]
        /\ mutex'.thread = mutex.thread /\ mutex'.ref = mutex.ref
    <3>1. mutex.threads \in Seq(Co)
      BY <1>t
    <3>2. Append(mutex.threads, cur) \in Seq(Co)
      BY <3>1, <2>1
    <3> QED
      BY <3>2, <2>1, <1>t
  <2> DEFINE st == "queue"
  <2>3. st \in Blocked \cup {"fresh"} /\ st \in Sleeping /\ st # "call"
    BY DEF Blocked, Sleeping
  <2> QED
    BY <2>1, <2>2, <2>3, RegistrationKeepsBase
<1>4. ASSUME NEW p \in Peers, Call(p)
      PROVE  Base'
  <2>1. /\ cur \in Co /\ Register(cur, cur, "call") /\ Suspend
        /\ watching' = [watching EXCEPT ![session'] = p]
        /\ calls' = calls \cup {session'} /\ young' \subseteq young \cup {session'}
        /\ UNCHANGED <<sleep, mutex, timers>>
    BY <1>4, <1>r DEF Call, Register
  <2> DEFINE st == "call"
  <2>2. st \in Blocked \cup {"fresh"} /\ st \notin Sleeping
    BY DEF Blocked, Sleeping
  <2> QED
    BY <2>1, <2>2, <1>t, RegistrationKeepsBase
<1>5. ASSUME NEW c \in Co, Timeout(c)
      PROVE  Base'
  <2>1. /\ frame[c].st = "free" /\ Register(c, c, "fresh")
        /\ timers' = timers \cup {session'} /\ young' \subseteq young \cup {session'}
        /\ UNCHANGED loop
        /\ UNCHANGED <<watching, sleep, mutex, calls>>
    BY <1>5 DEF Timeout, Create
  <2> DEFINE st == "fresh"
  <2>2. st \in Blocked \cup {"fresh"} /\ st \notin Sleeping /\ st # "call"
    BY DEF Blocked, Sleeping
  <2> QED
    BY <2>1, <2>2, <1>t, RegistrationKeepsBase
<1> QED
  BY <1>1, <1>2, <1>3, <1>4, <1>5

-----------------------------------------------------------------------------
(* A coroutine that neither waits nor runs before and after, or starts, or *)
(* stops to run: c is registered nowhere, before and after.                *)
LEMMA UnregisteredKeeps ==
    ASSUME Base, NEW c \in Co, frame[c].st \in {"run", "free"},
           NEW st \in {"free", "dead", "run", "fresh"}, NEW depth \in Nat,
           depth = frame[c].depth, st = "free" => depth = 0,
           frame' = [frame EXCEPT ![c] = Frame(st, None, depth)],
           UNCHANGED <<tables, session, timers, calls, mutex>>,
           forks' \subseteq forks \/ (st = "fresh" /\ forks' = forks \cup {c})
    PROVE  /\ frame' \in [Co -> [st : Blocked \cup {"free", "dead", "run", "fresh"},
                                 s : Session \cup {None}, depth : Nat]]
           /\ frame'[c].st = st /\ \A d \in Co \ {c} : frame'[d] = frame[d]
           /\ RegInv' /\ WorldInv' /\ DepthInv'
<1> DEFINE g == Frame(st, None, depth)
<1>g. /\ g.st = st /\ g.s = None /\ g.depth = depth
      /\ g \in [st : Blocked \cup {"free", "dead", "run", "fresh"},
                s : Session \cup {None}, depth : Nat]
  BY DEF Frame
<1> HIDE DEF g
<1>x. frame' = [frame EXCEPT ![c] = g]
  BY DEF g
<1>b. RegInv /\ WorldInv /\ DepthInv
      /\ frame \in [Co -> [st : Blocked \cup {"free", "dead", "run", "fresh"},
                           s : Session \cup {None}, depth : Nat]]
      /\ forks \subseteq Co
  BY DEF Base, TypeOK
<1>1. /\ frame' \in [Co -> [st : Blocked \cup {"free", "dead", "run", "fresh"},
                            s : Session \cup {None}, depth : Nat]]
      /\ frame'[c] = g /\ \A d \in Co \ {c} : frame'[d] = frame[d]
  BY <1>b, <1>g, <1>x
<1>2. ~Waits(c) /\ ~Waits(c)' /\ c \notin forks /\ frame[c].st \notin Sleeping
      /\ g.st \notin Sleeping /\ frame[c].st # "call" /\ g.st # "call"
      /\ sleep[c] = None
  BY <1>1, <1>g, <1>b DEF Waits, Blocked, Sleeping, RegInv
<1>3. \A d \in Co \ {c} : Waits(d)' = Waits(d)
  BY <1>1 DEF Waits
<1>4. RegInv'
  <2>1. \A d \in Co : /\ Waits(d)' => frame'[d].s \in 1..session'
                      /\ ~Waits(d)' => frame'[d].s = None
    BY <1>1, <1>2, <1>3, <1>g, <1>b DEF RegInv
  <2>2. \A s \in Session, d \in Co :
            coroutineOf'[s] = d <=> (Waits(d)' /\ frame'[d].s = s)
    <3> SUFFICES ASSUME NEW s \in Session, NEW d \in Co
                 PROVE  coroutineOf'[s] = d <=> (Waits(d)' /\ frame'[d].s = s)
      OBVIOUS
    <3>1. coroutineOf'[s] = d <=> (Waits(d) /\ frame[d].s = s)
      BY <1>b DEF RegInv, tables
    <3> QED
      BY <3>1, <1>1, <1>2, <1>3
  <2>3. \A s \in Session :
            watching'[s] # None <=> \E d \in Co : frame'[d].st = "call" /\ frame'[d].s = s
    <3> SUFFICES ASSUME NEW s \in Session
                 PROVE  watching'[s] # None <=>
                            \E d \in Co : frame'[d].st = "call" /\ frame'[d].s = s
      OBVIOUS
    <3>1. watching'[s] # None <=> \E d \in Co : frame[d].st = "call" /\ frame[d].s = s
      BY <1>b DEF RegInv, tables
    <3> QED
      BY <3>1, <1>1, <1>2
  <2>4. \A d \in Co : sleep'[d] = IF frame'[d].st \in Sleeping THEN frame'[d].s ELSE None
    BY <1>1, <1>2, <1>b DEF RegInv, tables
  <2>5. \A d \in forks' : frame'[d].st = "fresh" /\ frame'[d].s = None
    <3>1. \A d \in forks : frame'[d].st = "fresh" /\ frame'[d].s = None
      BY <1>1, <1>2, <1>b DEF RegInv
    <3> QED
      BY <3>1, <1>1, <1>g
  <2> QED
    BY <2>1, <2>2, <2>3, <2>4, <2>5 DEF RegInv
<1>5. WorldInv'
  <2>1. \A d \in Co : frame'[d].st \in {"sleep", "wait", "queue"} => frame'[d] = frame[d]
    BY <1>1, <1>2 DEF Sleeping
  <2> QED
    BY <2>1, <1>b DEF WorldInv, tables
<1>6. DepthInv'
  BY <1>1, <1>g, <1>b DEF DepthInv
<1> QED
  BY <1>1, <1>g, <1>4, <1>5, <1>6

(* Coroutines that start, are forked, return or fail, and the exit.        *)
LEMMA CoroutinesKeepBase ==
    ASSUME Base, \/ \E c \in Co : Fork(c) \/ ReceiveSend(c)
                 \/ \E r \in Requests, c \in Co : ReceiveRequest(r, c)
                 \/ Finish \/ Throw \/ Exit
    PROVE  Base'
<1>b. TypeOK /\ RunInv /\ RegInv /\ WorldInv /\ ErrInv /\ DepthInv
  BY DEF Base
<1>t. /\ frame \in [Co -> [st : Blocked \cup {"free", "dead", "run", "fresh"},
                           s : Session \cup {None}, depth : Nat]]
      /\ sessionOf \in [Co -> Requests \cup {Send, None}]
      /\ unresponse \subseteq Requests
      /\ asked \in [Requests -> {"new", "open", "late", "answered", "again", "forgotten"}]
      /\ forks \subseteq Co /\ owed \in Nat /\ kicks \in Nat
      /\ exited \in BOOLEAN
  BY <1>b DEF TypeOK
<1>f. \A c \in Co : frame[c].st = "free" => frame[c].depth = 0
  BY <1>b DEF DepthInv
<1>a. ASSUME NEW rs, Answer(rs)
      PROVE  asked' \in [Requests -> {"new", "open", "late", "answered", "again", "forgotten"}]
  BY <1>t, <1>a DEF Answer
<1>r. Running => /\ pc = "run" /\ cur \in Co /\ frame[cur].st = "run"
                 /\ running = cur /\ \A d \in Co \ {cur} : frame[d].st # "run"
  BY <1>b DEF Running, RunInv
<1>1. ASSUME NEW c \in Co, Fork(c)
      PROVE  Base'
  <2>1. /\ pc = "run" /\ cur \in Co /\ frame[cur].st = "run" /\ frame[c].st = "free"
        /\ frame' = [frame EXCEPT ![c] = Frame("fresh", None, 0)]
        /\ forks' = forks \cup {c}
        /\ UNCHANGED <<loop, tables, wakeupQueue, errorQueue, kicks, doubled,
                       mutex, requests, world>>
    BY <1>1, <1>r DEF Fork, ForkLeaving, Create, Running, loop
  <2>2. frame[c].depth = 0
    BY <1>f, <2>1
  <2>3. UNCHANGED <<tables, session, timers, calls, mutex>>
    BY <2>1 DEF world
  <2>4. /\ frame' \in [Co -> [st : Blocked \cup {"free", "dead", "run", "fresh"},
                              s : Session \cup {None}, depth : Nat]]
        /\ frame'[c].st = "fresh" /\ \A d \in Co \ {c} : frame'[d] = frame[d]
        /\ RegInv' /\ WorldInv' /\ DepthInv'
    <3> DEFINE st == "fresh"
               depth == 0
    <3>1. /\ st \in {"free", "dead", "run", "fresh"} /\ depth \in Nat
          /\ depth = frame[c].depth /\ (st = "free" => depth = 0)
          /\ frame' = [frame EXCEPT ![c] = Frame(st, None, depth)]
          /\ frame[c].st \in {"run", "free"} /\ st = "fresh"
          /\ forks' \subseteq forks \/ (st = "fresh" /\ forks' = forks \cup {c})
      BY <2>1, <2>2, <2>3
    <3> HIDE DEF st, depth
    <3> QED
      BY <2>3, <3>1, UnregisteredKeeps
  <2>5. TypeOK'
    BY <2>1, <2>4, <1>b DEF TypeOK, loop, tables, requests, world
  <2>6. RunInv'
    BY <2>1, <2>2, <2>4, <1>b DEF RunInv, loop
  <2>7. ErrInv'
    BY <2>1, <1>b DEF ErrInv, ErrValid, Distinct, loop, tables, world
  <2> QED
    BY <2>4, <2>5, <2>6, <2>7 DEF Base
<1>2. ASSUME NEW c \in Co, NEW id \in Requests \cup {Send}, Start(c, id), pc = "idle",
             asked' \in [Requests -> {"new", "open", "late", "answered", "again", "forgotten"}]
      PROVE  Base'
  <2>1. /\ frame[c].st = "free"
        /\ frame' = [frame EXCEPT ![c] = Frame("run", None, 0)]
        /\ sessionOf' = [sessionOf EXCEPT ![c] = id]
        /\ pc' = "run" /\ cur' = c /\ running' = c
        /\ UNCHANGED <<owed, tables, queues, mutex, unresponse, world>>
    BY <1>2 DEF Start, Create
  <2>2. frame[c].depth = 0
    BY <1>f, <2>1
  <2>3. forks' = forks /\ UNCHANGED <<tables, session, timers, calls, mutex>>
    BY <2>1 DEF world, queues
  <2>4. /\ frame' \in [Co -> [st : Blocked \cup {"free", "dead", "run", "fresh"},
                              s : Session \cup {None}, depth : Nat]]
        /\ frame'[c].st = "run" /\ \A d \in Co \ {c} : frame'[d] = frame[d]
        /\ RegInv' /\ WorldInv' /\ DepthInv'
    <3> DEFINE st == "run"
               depth == 0
    <3>1. /\ st \in {"free", "dead", "run", "fresh"} /\ depth \in Nat
          /\ depth = frame[c].depth /\ (st = "free" => depth = 0)
          /\ frame' = [frame EXCEPT ![c] = Frame(st, None, depth)]
          /\ frame[c].st \in {"run", "free"} /\ st = "run"
          /\ forks' \subseteq forks \/ (st = "fresh" /\ forks' = forks \cup {c})
      BY <2>1, <2>2, <2>3
    <3> HIDE DEF st, depth
    <3> QED
      BY <2>3, <3>1, UnregisteredKeeps
  <2>5. sessionOf' \in [Co -> Requests \cup {Send, None}]
    BY <2>1, <1>t
  <2>6. TypeOK'
    BY <2>1, <2>4, <2>5, <1>2, <1>b DEF TypeOK, queues, tables, world
  <2>7. RunInv'
    BY <2>1, <2>2, <2>4, <1>2, <1>b DEF RunInv
  <2>8. ErrInv'
    BY <2>1, <1>b DEF ErrInv, ErrValid, Distinct, queues, tables, world
  <2> QED
    BY <2>4, <2>6, <2>7, <2>8 DEF Base
<1>3. ASSUME NEW st \in {"free", "dead"}, NEW depth \in Nat, Running,
             frame' = [frame EXCEPT ![cur] = Frame(st, None, depth)],
             depth = frame[cur].depth, st = "free" => depth = 0,
             cur' = None, running' = None, pc' \in {"wakeup", "forks", "error"},
             owed' \in Nat, kicks' \in Nat, exited' \in BOOLEAN,
             pc' = "wakeup" => owed' > 0, pc' = "forks" => owed' = 0,
             owed' > 0 \/ kicks' > 0 \/ exited', exited => exited', forks' \subseteq forks,
             sessionOf' \in [Co -> Requests \cup {Send, None}],
             asked' \in [Requests -> {"new", "open", "late", "answered", "again", "forgotten"}],
             unresponse' \subseteq Requests,
             UNCHANGED <<tables, wakeupQueue, errorQueue, doubled, mutex,
                         timers, calls, down, session, young>>
      PROVE  Base'
  <2>1. /\ pc = "run" /\ cur \in Co /\ frame[cur].st = "run"
        /\ \A d \in Co \ {cur} : frame[d].st # "run"
    BY <1>3, <1>r
  <2> DEFINE c == cur
  <2>4. /\ frame' \in [Co -> [st : Blocked \cup {"free", "dead", "run", "fresh"},
                              s : Session \cup {None}, depth : Nat]]
        /\ frame'[c].st = st /\ \A d \in Co \ {c} : frame'[d] = frame[d]
        /\ RegInv' /\ WorldInv' /\ DepthInv'
    BY <2>1, <1>3, UnregisteredKeeps
  <2>5. TypeOK'
    BY <2>4, <1>3, <1>b DEF TypeOK, tables
  <2>6. RunInv'
    BY <2>1, <2>4, <1>3 DEF RunInv
  <2>7. ErrInv'
    BY <1>3, <1>b DEF ErrInv, ErrValid, Distinct, tables
  <2> QED
    BY <2>4, <2>5, <2>6, <2>7 DEF Base
<1>9. ASSUME NEW c \in Co, NEW id \in Requests \cup {Send}, Stillborn(c, id), pc = "idle",
             asked' \in [Requests -> {"new", "open", "late", "answered", "again", "forgotten"}]
      PROVE  Base'
  <2>1. /\ frame[c].st = "free"
        /\ frame' = [frame EXCEPT ![c] = Frame("dead", None, 0)]
        /\ sessionOf' = [sessionOf EXCEPT ![c] = id]
        /\ UNCHANGED <<pc, cur, running, owed, tables, queues, mutex, unresponse, world>>
    BY <1>9 DEF Stillborn, Create, loop
  <2>2. frame[c].depth = 0
    BY <1>f, <2>1
  <2>3. forks' = forks /\ UNCHANGED <<tables, session, timers, calls, mutex>>
    BY <2>1 DEF world, queues
  <2>4. /\ frame' \in [Co -> [st : Blocked \cup {"free", "dead", "run", "fresh"},
                              s : Session \cup {None}, depth : Nat]]
        /\ frame'[c].st = "dead" /\ \A d \in Co \ {c} : frame'[d] = frame[d]
        /\ RegInv' /\ WorldInv' /\ DepthInv'
    <3> DEFINE st == "dead"
               depth == 0
    <3>1. /\ st \in {"free", "dead", "run", "fresh"} /\ depth \in Nat
          /\ depth = frame[c].depth /\ (st = "free" => depth = 0)
          /\ frame' = [frame EXCEPT ![c] = Frame(st, None, depth)]
          /\ frame[c].st \in {"run", "free"} /\ st = "dead"
          /\ forks' \subseteq forks \/ (st = "fresh" /\ forks' = forks \cup {c})
      BY <2>1, <2>2, <2>3
    <3> HIDE DEF st, depth
    <3> QED
      BY <2>3, <3>1, UnregisteredKeeps
  <2>5. sessionOf' \in [Co -> Requests \cup {Send, None}]
    BY <2>1, <1>t
  <2>6. TypeOK'
    BY <2>1, <2>4, <2>5, <1>9, <1>b DEF TypeOK, queues, tables, world
  <2>7. RunInv'
    BY <2>1, <2>4, <1>9, <1>b DEF RunInv
  <2>8. ErrInv'
    BY <2>1, <1>b DEF ErrInv, ErrValid, Distinct, queues, tables, world
  <2> QED
    BY <2>4, <2>6, <2>7, <2>8 DEF Base
<1>4. ASSUME NEW c \in Co, ReceiveSend(c)
      PROVE  Base'
  <2>1. pc = "idle" /\ (Start(c, Send) \/ Stillborn(c, Send)) /\ asked' = asked
    BY <1>4 DEF ReceiveSend
  <2> QED
    BY <2>1, <1>2, <1>9, <1>t
<1>5. ASSUME NEW r \in Requests, NEW c \in Co, ReceiveRequest(r, c)
      PROVE  Base'
  <2>1. asked' \in [Requests -> {"new", "open", "late", "answered", "again", "forgotten"}]
    BY <1>5, <1>t DEF ReceiveRequest
  <2>2. pc = "idle" /\ (Start(c, r) \/ Stillborn(c, r))
    BY <1>5 DEF ReceiveRequest, Fresh
  <2> QED
    BY <2>1, <2>2, <1>2, <1>9
<1>6. CASE Finish
  <2>1. /\ Running /\ frame[cur].depth = 0 /\ frame' = [frame EXCEPT ![cur] = Frame("free", None, 0)]
        /\ cur' = None /\ running' = None /\ pc' = "wakeup" /\ owed' = owed + 1
        /\ UNCHANGED <<tables, queues, mutex, unresponse, world>>
        /\ sessionOf' = [sessionOf EXCEPT ![cur] = None]
    BY <1>6 DEF Finish, Suspend, Stop, Free
  <2>2. asked' \in [Requests -> {"new", "open", "late", "answered", "again", "forgotten"}]
    BY <1>6, <1>t DEF Finish
  <2>3. sessionOf' \in [Co -> Requests \cup {Send, None}]
    BY <2>1, <1>t, <1>r
  <2>4. owed' \in Nat /\ owed' > 0
    BY <2>1, <1>t
  <2>5. UNCHANGED <<wakeupQueue, errorQueue, doubled, forks, kicks, timers, calls, down, session,
                    exited, young>>
    BY <2>1 DEF queues, world
  <2> QED
    BY <2>1, <2>2, <2>3, <2>4, <2>5, <1>3, <1>t
<1>7. CASE Throw
  <2>1. /\ Running /\ frame[cur].depth = 0 /\ frame' = [frame EXCEPT ![cur] = Frame("dead", None, 0)]
        /\ cur' = None /\ running' = None /\ pc' = "forks" /\ owed' = 0
        /\ kicks' = kicks + 1
        /\ UNCHANGED <<tables, wakeupQueue, errorQueue, forks, doubled, mutex, unresponse, world>>
        /\ sessionOf' = [sessionOf EXCEPT ![cur] = None]
    BY <1>7 DEF Throw, Fail, Stop
  <2>2. asked' \in [Requests -> {"new", "open", "late", "answered", "again", "forgotten"}]
    BY <1>7, <1>a DEF Throw, Fail
  <2>3. sessionOf' \in [Co -> Requests \cup {Send, None}]
    BY <2>1, <1>t, <1>r
  <2>4. kicks' \in Nat /\ kicks' > 0
    BY <2>1, <1>t
  <2>5. UNCHANGED <<timers, calls, down, session, exited, young>>
    BY <2>1 DEF world
  <2> QED
    BY <2>1, <2>2, <2>3, <2>4, <2>5, <1>3, <1>t
<1>8. CASE Exit
  <2>1. /\ Running /\ exited' = TRUE /\ forks' = {} /\ kicks' = 0 /\ unresponse' = {}
        /\ frame' = [frame EXCEPT ![cur] = Frame("dead", None, frame[cur].depth)]
        /\ cur' = None /\ running' = None /\ pc' = "error"
        /\ UNCHANGED <<owed, tables, wakeupQueue, errorQueue, doubled, mutex, sessionOf,
                       timers, calls, down, session, young>>
    <3>1. frame' = [frame EXCEPT ![cur] = Frame("dead", None, @.depth)]
      BY <1>8 DEF Exit
    <3>2. frame' = [frame EXCEPT ![cur] = Frame("dead", None, frame[cur].depth)]
      BY <3>1
    <3> QED
      BY <3>2, <1>8 DEF Exit, Stop
  <2>2. asked' \in [Requests -> {"new", "open", "late", "answered", "again", "forgotten"}]
    BY <1>8, <1>a DEF Exit
  <2>3. frame[cur].depth \in Nat
    BY <2>1, <1>t, <1>r
  <2> QED
    BY <2>1, <2>2, <2>3, <1>3, <1>t
<1> QED
  BY <1>1, <1>4, <1>5, <1>6, <1>7, <1>8

-----------------------------------------------------------------------------
(* The queue: entering and leaving change the depth and the count alike.   *)
LEMMA DepthKeepsBase ==
    ASSUME Base, Running, NEW depth \in Nat,
           frame' = [frame EXCEPT ![cur].depth = depth],
           mutex' \in [thread : Co \cup {None}, ref : Nat, threads : Seq(Co)],
           \/ mutex.thread \in {None, cur} /\ mutex'.thread = cur /\ mutex'.ref = depth
           \/ mutex.thread = cur /\ depth = 0 /\ mutex'.ref = 0,
           wakeupQueue' \in Seq(Co), doubled' \in BOOLEAN,
           UNCHANGED <<loop, tables, errorQueue, forks, kicks, requests, world>>
    PROVE  Base'
<1>b. TypeOK /\ RunInv /\ RegInv /\ WorldInv /\ ErrInv /\ DepthInv
  BY DEF Base
<1>r. cur \in Co /\ frame[cur].st = "run"
  BY <1>b DEF Running, RunInv
<1>1. /\ frame' \in [Co -> [st : Blocked \cup {"free", "dead", "run", "fresh"},
                            s : Session \cup {None}, depth : Nat]]
      /\ frame'[cur].depth = depth
      /\ \A d \in Co \ {cur} : frame'[d] = frame[d]
      /\ \A d \in Co : frame'[d].st = frame[d].st /\ frame'[d].s = frame[d].s
  <2>1. frame \in [Co -> [st : Blocked \cup {"free", "dead", "run", "fresh"},
                          s : Session \cup {None}, depth : Nat]]
    BY <1>b DEF TypeOK
  <2>2. frame' = [frame EXCEPT ![cur] = [frame[cur] EXCEPT !.depth = depth]]
    OBVIOUS
  <2>3. /\ frame'[cur] = [frame[cur] EXCEPT !.depth = depth]
        /\ \A d \in Co \ {cur} : frame'[d] = frame[d]
    BY <2>1, <2>2, <1>r
  <2>4. /\ frame'[cur].depth = depth /\ frame'[cur].st = frame[cur].st
        /\ frame'[cur].s = frame[cur].s
    BY <2>1, <2>3, <1>r
  <2>5. frame'[cur] \in [st : Blocked \cup {"free", "dead", "run", "fresh"},
                         s : Session \cup {None}, depth : Nat]
    BY <2>1, <2>3, <1>r
  <2> QED
    BY <2>1, <2>2, <2>3, <2>4, <2>5
<1>2. TypeOK'
  BY <1>1, <1>b DEF TypeOK, loop, tables, requests, world
<1>3. RunInv'
  BY <1>1, <1>b DEF RunInv, loop
<1>4. \A d \in Co : Waits(d)' = Waits(d)
  BY <1>1 DEF Waits
<1>5. RegInv'
  <2>1. forks' = forks /\ session' = session /\ forks \subseteq Co
        /\ coroutineOf' = coroutineOf /\ watching' = watching /\ sleep' = sleep
    BY <1>b DEF world, tables, TypeOK
  <2> QED
    BY <1>1, <1>4, <2>1, <1>b DEF RegInv
<1>6. WorldInv'
  BY <1>1, <1>b DEF WorldInv, tables, world
<1>7. ErrInv'
  BY <1>b DEF ErrInv, ErrValid, Distinct, loop, tables, world
<1>8. DepthInv'
  <2>1. \A d \in Co \ {cur} : mutex.thread \in {None, cur} => frame[d].depth = 0
    BY <1>b, LuaServiceAssumption DEF DepthInv
  <2>2. cur # None
    BY <1>r, LuaServiceAssumption
  <2>3. \A d \in Co : frame'[d].depth = IF mutex'.thread = d THEN mutex'.ref ELSE 0
    BY <1>1, <2>1, <2>2
  <2>4. mutex'.ref > 0 => mutex'.thread # None
    BY <2>2
  <2>5. \A d \in Co : frame'[d].st = "free" => frame'[d].depth = 0
    BY <1>1, <1>r, <1>b DEF DepthInv
  <2> QED
    BY <2>3, <2>4, <2>5 DEF DepthInv
<1> QED
  BY <1>2, <1>3, <1>5, <1>6, <1>7, <1>8 DEF Base

(* The critical sections of the queue.                                     *)
LEMMA QueueKeepsBase ==
    ASSUME Base, Enter \/ Leave
    PROVE  Base'
<1>b. /\ mutex \in [thread : Co \cup {None}, ref : Nat, threads : Seq(Co)]
      /\ wakeupQueue \in Seq(Co) /\ doubled \in BOOLEAN
      /\ frame \in [Co -> [st : Blocked \cup {"free", "dead", "run", "fresh"},
                           s : Session \cup {None}, depth : Nat]]
      /\ \A c \in Co : frame[c].depth = IF mutex.thread = c THEN mutex.ref ELSE 0
      /\ mutex.ref > 0 => mutex.thread # None
  BY DEF Base, TypeOK, DepthInv
<1>r. Running /\ cur \in Co
  BY DEF Base, RunInv, Running, Enter, Enters, Leave, Leaves
<1>1. CASE Enter
  <2> DEFINE depth == frame[cur].depth + 1
  <2>1. /\ mutex.thread \in {None, cur}
        /\ mutex' = [mutex EXCEPT !.thread = cur, !.ref = mutex.ref + 1]
        /\ frame' = [frame EXCEPT ![cur].depth = depth]
        /\ UNCHANGED <<loop, tables, queues, requests, world>>
    BY <1>1 DEF Enter, Enters
  <2>2. depth = mutex.ref + 1 /\ depth \in Nat
    BY <1>b, <1>r, <2>1
  <2>3. /\ mutex' \in [thread : Co \cup {None}, ref : Nat, threads : Seq(Co)]
        /\ mutex'.thread = cur /\ mutex'.ref = depth
    BY <1>b, <1>r, <2>1, <2>2
  <2>4. UNCHANGED <<wakeupQueue, doubled, errorQueue, forks, kicks>>
    BY <2>1 DEF queues
  <2> HIDE DEF depth
  <2> QED
    BY <1>b, <1>r, <2>1, <2>2, <2>3, <2>4, DepthKeepsBase
<1>2. CASE Leave
  <2> DEFINE depth == frame[cur].depth - 1
             ref == mutex.ref - 1
  <2>1. /\ frame[cur].depth > 0
        /\ frame' = [frame EXCEPT ![cur].depth = depth]
        /\ UNCHANGED <<loop, tables, errorQueue, forks, kicks, requests, world>>
        /\ \/ /\ ref = 0 /\ mutex.threads # <<>>
              /\ mutex' = [thread |-> Head(mutex.threads), ref |-> 0,
                           threads |-> Tail(mutex.threads)]
              /\ Woken(Head(mutex.threads))
           \/ /\ ref # 0 \/ mutex.threads = <<>>
              /\ mutex' = [mutex EXCEPT !.ref = ref,
                                        !.thread = IF ref = 0 THEN None ELSE @]
              /\ UNCHANGED <<wakeupQueue, doubled>>
    BY <1>2 DEF Leave, Leaves
  <2>2. mutex.thread = cur /\ mutex.ref = frame[cur].depth /\ depth = ref /\ depth \in Nat
    BY <1>b, <1>r, <2>1
  <2>3. mutex.threads # <<>> => /\ Head(mutex.threads) \in Co
                                /\ Tail(mutex.threads) \in Seq(Co)
    BY <1>b
  <2>4. wakeupQueue' \in Seq(Co) /\ doubled' \in BOOLEAN
    <3>1. CASE UNCHANGED <<wakeupQueue, doubled>>
      BY <3>1, <1>b
    <3>2. CASE mutex.threads # <<>> /\ Woken(Head(mutex.threads))
      BY <3>2, <1>b, <2>3 DEF Woken, InWakeupQueue
    <3> QED
      BY <3>1, <3>2, <2>1
  <2>5. /\ mutex' \in [thread : Co \cup {None}, ref : Nat, threads : Seq(Co)]
        /\ mutex'.ref = depth
        /\ mutex'.thread = cur \/ depth = 0
    <3> HIDE DEF depth, ref
    <3>1. CASE /\ ref = 0 /\ mutex.threads # <<>>
               /\ mutex' = [thread |-> Head(mutex.threads), ref |-> 0,
                            threads |-> Tail(mutex.threads)]
      BY <3>1, <2>2, <2>3
    <3>2. CASE mutex' = [mutex EXCEPT !.ref = ref,
                                      !.thread = IF ref = 0 THEN None ELSE @]
      BY <3>2, <2>2, <1>b, <1>r
    <3> QED
      BY <3>1, <3>2, <2>1
  <2> HIDE DEF depth, ref
  <2> QED
    BY <1>r, <2>1, <2>2, <2>4, <2>5, DepthKeepsBase
<1> QED
  BY <1>1, <1>2

(* The base is inductive.                                                  *)
LEMMA NextKeepsBase == Base /\ [Next]_vars => Base'
<1> SUFFICES ASSUME Base, [Next]_vars PROVE Base'
  OBVIOUS
<1>1. CASE \/ Ret \/ Response \/ \E r \in Requests : Respond(r)
           \/ \E c \in Co : Wakeup(c)
           \/ \E r \in Requests : ReceiveUnknown(r)
  BY <1>1, QuietActions, QuietKeepsBase
<1>2. CASE Sleep \/ Wait \/ EnterQueue \/ (\E p \in Peers : Call(p)) \/ (\E c \in Co : Timeout(c))
  BY <1>2, RegistrationsKeepBase
<1>3. CASE \/ \E c \in Co : Fork(c) \/ ReceiveSend(c)
           \/ \E r \in Requests, c \in Co : ReceiveRequest(r, c)
           \/ Finish \/ Throw \/ Exit
  BY <1>3, CoroutinesKeepBase
<1>4. CASE Enter \/ Leave
  BY <1>4, QueueKeepsBase
<1>5. CASE \/ DispatchWakeup \/ DispatchErrorQueue
           \/ \E c \in Co : RunFork(c)
           \/ \E s \in Session : ReceiveResponse(s)
  BY <1>5, ResumptionsKeepBase
<1>6. CASE NothingToResume \/ RunKick \/ MessageDone
  BY <1>6, ControlKeepsBase
<1>7. CASE (\E s \in Session : ReceiveError(s)) \/ (\E p \in Peers : ReceiveDown(p))
  BY <1>7, ErrorsKeepBase
<1>8. CASE UNCHANGED vars
  <2>1. /\ Quiet /\ UNCHANGED <<wakeupQueue, doubled, sessionOf, unresponse, asked>>
    BY <1>8 DEF vars, Quiet, queues, requests
  <2> QED
    BY <2>1, QuietKeepsBase DEF Base, TypeOK
<1> QED
  BY <1>1, <1>2, <1>3, <1>4, <1>5, <1>6, <1>7, <1>8 DEF Next, Library, Scheduler, Receive

-----------------------------------------------------------------------------
(* Under the base everyone who waits is registered once.                   *)
LEMMA BaseRegisters == Base => RegisteredOnce
<1> SUFFICES ASSUME Base PROVE RegisteredOnce
  OBVIOUS
<1>b. RegInv /\ WorldInv /\ TypeOK
  BY DEF Base
<1>1. ASSUME NEW c \in Co
      PROVE  /\ {s \in Session : coroutineOf[s] = c} =
                    IF Waits(c) THEN {frame[c].s} ELSE {}
             /\ {s \in Session : watching[s] # None /\ s = frame[c].s} =
                    IF frame[c].st = "call" THEN {frame[c].s} ELSE {}
             /\ sleep[c] = IF frame[c].st \in Sleeping THEN frame[c].s ELSE None
             /\ c \in forks => frame[c].st = "fresh" /\ frame[c].s = None
  <2>1. Waits(c) => frame[c].s \in Session
    BY <1>b, LuaServiceAssumption DEF RegInv, TypeOK, Session
  <2>2. {s \in Session : coroutineOf[s] = c} = IF Waits(c) THEN {frame[c].s} ELSE {}
    BY <2>1, <1>b DEF RegInv
  <2>3. ASSUME NEW s \in Session, s = frame[c].s
        PROVE  watching[s] # None <=> frame[c].st = "call"
    <3>1. Waits(c)
      BY <2>3, <1>b, LuaServiceAssumption DEF RegInv
    <3>2. ASSUME NEW d \in Co, frame[d].st = "call", frame[d].s = s
          PROVE  d = c
      <4>1. Waits(d)
        BY <3>2 DEF Waits, Blocked
      <4> QED
        BY <4>1, <3>1, <3>2, <2>3, <1>b DEF RegInv
    <3> QED
      BY <3>2, <2>3, <1>b DEF RegInv
  <2>4. frame[c].st = "call" => frame[c].s \in Session
    BY <2>1 DEF Waits, Blocked
  <2>5. {s \in Session : watching[s] # None /\ s = frame[c].s} =
            IF frame[c].st = "call" THEN {frame[c].s} ELSE {}
    BY <2>3, <2>4
  <2> QED
    BY <2>2, <2>5, <1>b DEF RegInv
<1> QED
  BY <1>1, <1>b DEF RegisteredOnce, WorldInv, Waits

(* The tables of snownet.lua have their types, and neither the number of   *)
(* suspends that are owed something nor the count of the queue goes below  *)
(* zero.                                                                   *)
THEOREM TypesHold == Spec => []TypeOK
<1>1. Base => TypeOK
  BY DEF Base
<1> QED
  BY InitBase, NextKeepsBase, <1>1, PTL DEF Spec

(* A coroutine that sleeps, waits or calls is registered under its session *)
(* and no other, by its token if it sleeps, and one that does not wait is  *)
(* registered nowhere; a BREAK that a wakeup leaves in                     *)
(* session_id_coroutine is taken away by a timer still to answer.          *)
THEOREM RegisteredOnceHolds == Spec => []RegisteredOnce
  BY InitBase, NextKeepsBase, BaseRegisters, PTL DEF Spec

-----------------------------------------------------------------------------
(* What the steps do, for the invariants that stand on the base.           *)

(* Nobody takes an exit back.                                              *)
LEMMA ExitIsFinal == exited \in BOOLEAN /\ [Next]_vars /\ ~exited' => ~exited
  BY DEF Next, Library, Scheduler, Receive, vars, world,
         Sleep, Wait, Ret, Response, Detach, Finish, Throw, Fail, Exit, Enter, Enters,
         EnterQueue, SuspendSleep, Leave, Leaves, Call, Timeout, Register, Fork,
         ForkLeaving, Wakeup, Respond, DispatchWakeup, DispatchErrorQueue,
         NothingToResume, RunKick, MessageDone, RunFork, ReceiveResponse, ReceiveError,
         ReceiveUnknown, ReceiveRequest, ReceiveSend, ReceiveDown, Handled, Start,
         Stillborn

(* A resumption wakes the head of the wakeup queue or someone who is not   *)
(* in it, until the exit, and is the only way out of the states of a       *)
(* sleeper.                                                                *)
LEMMA ResumptionsMove ==
    ASSUME Base, \/ DispatchWakeup \/ DispatchErrorQueue
                 \/ \E c \in Co : RunFork(c)
                 \/ \E s \in Session : ReceiveResponse(s)
    PROVE  /\ UNCHANGED <<doubled, kicks, exited, requests, down>>
           /\ \/ /\ UNCHANGED <<frame, sleep, mutex>>
                 /\ \/ pc = "idle" /\ pc' = "idle" /\ wakeupQueue' = wakeupQueue
                    \/ wakeupQueue # <<>> /\ sleep[Head(wakeupQueue)] = None
                    \/ exited
              \/ \E c \in Co :
                    /\ pc' = "run" /\ frame'[c].st = "run"
                    /\ frame[c].st \in Blocked \cup {"fresh"}
                    /\ \A d \in Co \ {c} : frame'[d] = frame[d]
                    /\ sleep' = [sleep EXCEPT ![c] = None]
                    /\ mutex' = IF frame[c].st = "queue" /\ mutex.ref = 0
                                THEN [mutex EXCEPT !.thread = c, !.ref = 1] ELSE mutex
                    /\ \/ /\ wakeupQueue # <<>> /\ c = Head(wakeupQueue)
                          /\ wakeupQueue' = Tail(wakeupQueue) /\ sleep[c] # None
                       \/ /\ wakeupQueue' = wakeupQueue /\ frame[c].st # "queue"
                          /\ pc = "idle" \/ frame[c].st \notin Sleeping
                       \/ exited
<1>m. ASSUME NEW c, NEW before, Resumption(c, before),
             forks' \subseteq forks, c \notin forks'
      PROVE  /\ c \in Co /\ pc' = "run" /\ frame'[c].st = "run"
             /\ frame[c].st \in Blocked \cup {"fresh"}
             /\ \A d \in Co \ {c} : frame'[d] = frame[d]
             /\ sleep' = [sleep EXCEPT ![c] = None]
             /\ mutex' = IF frame[c].st = "queue" /\ mutex.ref = 0
                         THEN [mutex EXCEPT !.thread = c, !.ref = 1] ELSE mutex
             /\ exited' = exited
  <2>1. frame[c].st \in Blocked \cup {"fresh"}
    BY <1>m DEF Resumption, Waits, Base, RegInv
  <2> QED
    BY <1>m, <2>1, ResumptionKeeps DEF Resumption
<1>f. \A d \in forks : frame[d].st = "fresh" /\ frame[d].s = None
  BY DEF Base, RegInv
<1>1. CASE DispatchWakeup
  <2> DEFINE c == Head(wakeupQueue)
             before == [coroutineOf EXCEPT ![sleep[c]] = "BREAK"]
  <2>1. /\ wakeupQueue # <<>> /\ wakeupQueue' = Tail(wakeupQueue)
        /\ UNCHANGED <<doubled, kicks, forks, requests, exited, down>>
    BY <1>1 DEF DispatchWakeup, world
  <2>2. CASE sleep[c] # None
    <3>1. Resumption(c, before) /\ frame[c].st \in Sleeping
      BY <1>1, <2>2, WakeupResumes
    <3>2. c \notin forks'
      BY <3>1, <2>1, <1>f DEF Sleeping
    <3> HIDE DEF before
    <3> QED
      BY <3>1, <3>2, <2>1, <2>2, <1>m
  <2>3. CASE sleep[c] = None
    <3>1. UNCHANGED <<frame, sleep, mutex>>
      BY <1>1, <2>3 DEF DispatchWakeup, tables, Resume
    <3> QED
      BY <3>1, <2>1, <2>3
  <2> QED
    BY <2>2, <2>3
<1>2. CASE DispatchErrorQueue
  <2> DEFINE before == [coroutineOf EXCEPT ![Head(errorQueue)] = None]
  <2>1. UNCHANGED <<wakeupQueue, forks, doubled, kicks, requests, exited, down>>
    BY <1>2 DEF DispatchErrorQueue, world
  <2>2. CASE coroutineOf[Head(errorQueue)] \in Co
    <3>1. PICK c \in Co : /\ Resumption(c, before) /\ frame[c].s = Head(errorQueue)
                          /\ exited \/ frame[c].st = "call"
      BY <1>2, <2>2, ErrorResumes
    <3>2. Head(errorQueue) \in Session
      <4>1. errorQueue \in Seq(Session) /\ errorQueue # <<>>
        BY <1>2 DEF Base, TypeOK, DispatchErrorQueue
      <4> QED
        BY <4>1
    <3>3. c \notin forks' /\ (exited \/ (frame[c].st \notin Sleeping /\ frame[c].st # "queue"))
      BY <3>1, <3>2, <2>1, <1>f, LuaServiceAssumption DEF Sleeping
    <3> HIDE DEF before
    <3> QED
      BY <3>1, <3>3, <2>1, <1>m
  <2>3. CASE coroutineOf[Head(errorQueue)] \notin Co
    BY <1>2, <2>1, <2>3, ErrorRaises
  <2> QED
    BY <2>2, <2>3
<1>3. ASSUME NEW c \in Co, RunFork(c)
      PROVE  /\ UNCHANGED <<doubled, kicks, exited, requests, down, wakeupQueue>>
             /\ pc' = "run" /\ frame'[c].st = "run"
             /\ frame[c].st \in Blocked \cup {"fresh"}
             /\ \A d \in Co \ {c} : frame'[d] = frame[d]
             /\ sleep' = [sleep EXCEPT ![c] = None]
             /\ mutex' = IF frame[c].st = "queue" /\ mutex.ref = 0
                         THEN [mutex EXCEPT !.thread = c, !.ref = 1] ELSE mutex
             /\ frame[c].st # "queue" /\ frame[c].st \notin Sleeping
  <2>1. Resumption(c, coroutineOf) /\ frame[c].st = "fresh"
    BY <1>3, ForkResumes
  <2>2. /\ forks' \subseteq forks /\ c \notin forks'
        /\ UNCHANGED <<wakeupQueue, doubled, kicks, requests, exited, down>>
    BY <1>3 DEF RunFork, world
  <2> QED
    BY <2>1, <2>2, <1>m DEF Sleeping
<1>4. ASSUME NEW s \in Session, ReceiveResponse(s)
      PROVE  /\ UNCHANGED <<doubled, kicks, exited, requests, down, wakeupQueue>>
             /\ pc = "idle"
             /\ \/ UNCHANGED <<frame, sleep, mutex, pc>>
                \/ \E c \in Co :
                    /\ pc' = "run" /\ frame'[c].st = "run"
                    /\ frame[c].st \in Blocked \cup {"fresh"}
                    /\ \A d \in Co \ {c} : frame'[d] = frame[d]
                    /\ sleep' = [sleep EXCEPT ![c] = None]
                    /\ mutex' = IF frame[c].st = "queue" /\ mutex.ref = 0
                                THEN [mutex EXCEPT !.thread = c, !.ref = 1] ELSE mutex
                    /\ frame[c].st # "queue"
  <2> DEFINE c == coroutineOf[s]
             before == [coroutineOf EXCEPT ![s] = None]
  <2>1. /\ pc = "idle" /\ s \in timers \cup calls
        /\ UNCHANGED <<doubled, kicks, exited, requests, down, wakeupQueue, forks>>
    BY <1>4 DEF ReceiveResponse, MayArrive, queues
  <2>2. CASE c \in Co
    <3>1. Resumption(c, before) /\ frame[c].s = s
      BY <1>4, <2>2, ResponseResumes
    <3>2. frame[c].st # "queue"
      BY <3>1, <2>1, <2>2 DEF Base, WorldInv
    <3>3. c \notin forks'
      BY <3>1, <2>1, <1>f, LuaServiceAssumption
    <3> HIDE DEF c, before
    <3> QED
      BY <3>1, <3>2, <3>3, <2>1, <1>m
  <2>3. CASE c \notin Co
    BY <2>1, <2>3, <1>4 DEF ReceiveResponse
  <2> QED
    BY <2>2, <2>3
<1> QED
  BY <1>1, <1>2, <1>3, <1>4

(* Whoever registers waits in its new state; its token is in no queue.     *)
LEMMA RegistrationsMove ==
    ASSUME Base, \/ Sleep \/ Wait \/ EnterQueue
                 \/ \E p \in Peers : Call(p)
                 \/ \E c \in Co : Timeout(c)
    PROVE  /\ UNCHANGED <<queues, requests, exited, down>>
           /\ pc = "run" /\ pc' \in {"run", "wakeup"}
           /\ \A d \in Co : sleep[d] # None => sleep'[d] # None
           /\ \E c \in Co :
                 /\ frame[c].st \in {"run", "free"}
                 /\ \A d \in Co \ {c} : frame'[d] = frame[d]
                 /\ frame'[c].st \in Blocked \/ (frame[c].st = "free" /\ frame'[c].st = "fresh")
                 /\ IF frame'[c].st = "queue"
                    THEN /\ mutex.thread \notin {None, c} /\ frame[c].st = "run"
                         /\ mutex' = [mutex EXCEPT !.threads = Append(@, c)]
                    ELSE mutex' = mutex
<1>r. Running => pc = "run" /\ cur \in Co /\ running = cur /\ frame[cur].st = "run"
  BY DEF Base, RunInv, Running
<1>m. ASSUME NEW c \in Co, NEW st \in Blocked \cup {"fresh"},
             NEW p, st = "call" => p \in Peers, Register(c, c, st),
             sleep' = IF st \in Sleeping THEN [sleep EXCEPT ![c] = session'] ELSE sleep,
             watching' = IF st = "call" THEN [watching EXCEPT ![session'] = p] ELSE watching,
             frame[c].st \in {"run", "free"}
      PROVE  /\ UNCHANGED <<queues, requests, exited, down>>
             /\ \A d \in Co : sleep[d] # None => sleep'[d] # None
             /\ frame'[c].st = st /\ \A d \in Co \ {c} : frame'[d] = frame[d]
  <2>1. UNCHANGED <<queues, requests, exited, down>>
    BY <1>m DEF Register
  <2> QED
    BY <2>1, <1>m, RegisterKeeps
<1>1. CASE Sleep
  <2>1. /\ Running /\ Register(cur, cur, "sleep") /\ pc' = "wakeup"
        /\ sleep' = [sleep EXCEPT ![cur] = session'] /\ UNCHANGED <<watching, mutex>>
    BY <1>1, <1>r DEF Sleep, SuspendSleep, Register, Suspend
  <2> DEFINE st == "sleep"
  <2>2. st \in Blocked /\ st \in Sleeping /\ st # "call" /\ st # "queue"
    BY DEF Blocked, Sleeping
  <2> QED
    BY <2>1, <2>2, <1>r, <1>m
<1>2. CASE Wait
  <2>1. /\ Running /\ Register(cur, cur, "wait") /\ pc' = "wakeup"
        /\ sleep' = [sleep EXCEPT ![cur] = session'] /\ UNCHANGED <<watching, mutex>>
    BY <1>2, <1>r DEF Wait, SuspendSleep, Register, Suspend
  <2> DEFINE st == "wait"
  <2>2. st \in Blocked /\ st \in Sleeping /\ st # "call" /\ st # "queue"
    BY DEF Blocked, Sleeping
  <2> QED
    BY <2>1, <2>2, <1>r, <1>m
<1>3. CASE EnterQueue
  <2>1. /\ Running /\ Register(cur, cur, "queue") /\ pc' = "wakeup"
        /\ sleep' = [sleep EXCEPT ![cur] = session'] /\ UNCHANGED watching
        /\ mutex.thread \notin {None, cur}
        /\ mutex' = [mutex EXCEPT !.threads = Append(@, cur)]
    BY <1>3, <1>r DEF EnterQueue, SuspendSleep, Register, Suspend
  <2> DEFINE st == "queue"
  <2>2. st \in Blocked /\ st \in Sleeping /\ st # "call"
    BY DEF Blocked, Sleeping
  <2> QED
    BY <2>1, <2>2, <1>r, <1>m
<1>4. ASSUME NEW p \in Peers, Call(p)
      PROVE  /\ UNCHANGED <<queues, requests, exited, down, mutex>>
             /\ pc = "run" /\ pc' = "wakeup" /\ cur \in Co
             /\ \A d \in Co : sleep[d] # None => sleep'[d] # None
             /\ frame[cur].st = "run" /\ frame'[cur].st = "call"
             /\ \A d \in Co \ {cur} : frame'[d] = frame[d]
  <2>1. /\ Running /\ Register(cur, cur, "call") /\ pc' = "wakeup"
        /\ watching' = [watching EXCEPT ![session'] = p] /\ UNCHANGED <<sleep, mutex>>
    BY <1>4, <1>r DEF Call, Register, Suspend
  <2> DEFINE st == "call"
  <2>2. st \in Blocked /\ st \notin Sleeping
    BY DEF Blocked, Sleeping
  <2> QED
    BY <2>1, <2>2, <1>r, <1>m
<1>5. ASSUME NEW c \in Co, Timeout(c)
      PROVE  /\ UNCHANGED <<queues, requests, exited, down, mutex, pc>>
             /\ pc = "run"
             /\ \A d \in Co : sleep[d] # None => sleep'[d] # None
             /\ frame[c].st = "free" /\ frame'[c].st = "fresh"
             /\ \A d \in Co \ {c} : frame'[d] = frame[d]
  <2>1. /\ Running /\ Register(c, c, "fresh") /\ frame[c].st = "free"
        /\ UNCHANGED <<sleep, mutex, watching, pc>>
    BY <1>5 DEF Timeout, Register, Create, loop
  <2> DEFINE st == "fresh"
  <2>2. st \in Blocked \cup {"fresh"} /\ st \notin Sleeping /\ st # "call"
    BY DEF Blocked, Sleeping
  <2> QED
    BY <2>1, <2>2, <1>r, <1>m
<1> QED
  BY <1>1, <1>2, <1>3, <1>4, <1>5 DEF Blocked, Sleeping

(* Starting, forking and ending a coroutine: no one sleeps, and a message  *)
(* that is abandoned triggers another suspend unless the service exits.    *)
LEMMA CoroutinesMove ==
    ASSUME Base, \/ \E c \in Co : Fork(c) \/ ReceiveSend(c)
                 \/ \E r \in Requests, c \in Co : ReceiveRequest(r, c)
                 \/ Finish \/ Throw \/ Exit
    PROVE  /\ UNCHANGED <<wakeupQueue, doubled, sleep, mutex>>
           /\ pc' \in {"run", "wakeup"} \/ kicks' > 0 \/ exited' \/ UNCHANGED <<pc, kicks>>
           /\ \E c \in Co :
                 /\ frame[c].st \in {"run", "free"}
                 /\ frame'[c].st \in {"free", "dead", "run", "fresh"}
                 /\ \A d \in Co \ {c} : frame'[d] = frame[d]
<1>t. /\ frame \in [Co -> [st : Blocked \cup {"free", "dead", "run", "fresh"},
                           s : Session \cup {None}, depth : Nat]]
      /\ kicks \in Nat
  BY DEF Base, TypeOK
<1>r. Running => cur \in Co /\ frame[cur].st = "run" /\ pc = "run"
  BY DEF Base, RunInv, Running
<1>1. ASSUME NEW c \in Co, NEW st \in {"free", "dead", "run", "fresh"}, NEW depth,
             frame[c].st \in {"run", "free"},
             frame' = [frame EXCEPT ![c] = Frame(st, None, depth)]
      PROVE  /\ frame[c].st \in {"run", "free"}
             /\ frame'[c].st \in {"free", "dead", "run", "fresh"}
             /\ \A d \in Co \ {c} : frame'[d] = frame[d]
  BY <1>1, <1>t DEF Frame
<1>2. ASSUME NEW c \in Co, Fork(c) \/ ReceiveSend(c) \/ \E r \in Requests : ReceiveRequest(r, c)
      PROVE  /\ UNCHANGED <<wakeupQueue, doubled, sleep, mutex>>
             /\ pc' = "run" \/ UNCHANGED <<pc, kicks>>
             /\ frame[c].st = "free"
             /\ \/ frame' = [frame EXCEPT ![c] = Frame("fresh", None, 0)]
                \/ frame' = [frame EXCEPT ![c] = Frame("run", None, 0)]
                \/ frame' = [frame EXCEPT ![c] = Frame("dead", None, 0)]
  BY <1>2, <1>r DEF Fork, ForkLeaving, ReceiveSend, ReceiveRequest, Start, Stillborn,
                    Create, tables, queues, loop
<1>3. ASSUME Finish \/ Throw \/ Exit
      PROVE  /\ UNCHANGED <<wakeupQueue, doubled, sleep, mutex>>
             /\ pc' = "wakeup" \/ kicks' = kicks + 1 \/ exited'
             /\ cur \in Co /\ frame[cur].st = "run"
             /\ \/ frame' = [frame EXCEPT ![cur] = Frame("free", None, 0)]
                \/ frame' = [frame EXCEPT ![cur] = Frame("dead", None, 0)]
                \/ frame' = [frame EXCEPT ![cur] = Frame("dead", None, frame[cur].depth)]
  <2>1. CASE Finish
    BY <2>1, <1>r DEF Finish, Free, Suspend, queues, tables
  <2>2. CASE Throw
    BY <2>2, <1>r DEF Throw, Fail, tables
  <2>3. CASE Exit
    <3>1. frame' = [frame EXCEPT ![cur] = Frame("dead", None, @.depth)]
      BY <2>3 DEF Exit
    <3>2. frame' = [frame EXCEPT ![cur] = Frame("dead", None, frame[cur].depth)]
      BY <3>1
    <3> QED
      BY <3>2, <2>3, <1>r DEF Exit, tables
  <2> QED
    BY <1>3, <2>1, <2>2, <2>3
<1>4. CASE \E c \in Co : Fork(c) \/ ReceiveSend(c) \/ \E r \in Requests : ReceiveRequest(r, c)
  BY <1>4, <1>1, <1>2
<1>5. CASE Finish \/ Throw \/ Exit
  <2> DEFINE c == cur
  <2>1. c \in Co /\ frame[c].st \in {"run", "free"}
    BY <1>3, <1>5
  <2>2. /\ frame'[c].st \in {"free", "dead", "run", "fresh"}
        /\ \A d \in Co \ {c} : frame'[d] = frame[d]
    BY <1>3, <1>5, <1>1, <2>1
  <2>3. pc' = "wakeup" \/ kicks' > 0 \/ exited'
    BY <1>3, <1>5, <1>t
  <2> QED
    BY <1>3, <1>5, <2>1, <2>2, <2>3
<1> QED
  BY <1>4, <1>5

-----------------------------------------------------------------------------
(* Unless a token was put in twice, and until the exit, the wakeup queue   *)
(* holds sleepers, each once, and as long as it holds one a suspend is     *)
(* still to come.                                                          *)
TokInv ==
    ~doubled /\ ~exited =>
        /\ \A i \in DOMAIN wakeupQueue : sleep[wakeupQueue[i]] # None
        /\ Distinct(wakeupQueue)
        /\ wakeupQueue # <<>> => pc \in {"run", "wakeup"} \/ kicks > 0

(* What snownet.wakeup does to the queue.                                  *)
LEMMA WokenKeeps ==
    ASSUME Base, TokInv, NEW c \in Co, Woken(c), pc' = "run", UNCHANGED <<sleep, exited>>
    PROVE  /\ TokInv'
           /\ ~doubled' => ~doubled /\ ~InWakeupQueue(c)
           /\ \A d : InWakeupQueue(d)' <=> InWakeupQueue(d) \/ (d = c /\ sleep[c] # None)
<1>t. wakeupQueue \in Seq(Co)
  BY DEF Base, TypeOK
<1>1. ~doubled' => ~doubled /\ ~InWakeupQueue(c)
  BY DEF Woken
<1>2. CASE sleep[c] = None
  <2>1. wakeupQueue' = wakeupQueue
    BY <1>2 DEF Woken
  <2>2. \A d : InWakeupQueue(d)' <=> InWakeupQueue(d)
    BY <2>1 DEF InWakeupQueue
  <2>3. TokInv'
    BY <2>1, <1>1 DEF TokInv, Distinct
  <2> QED
    BY <1>1, <1>2, <2>2, <2>3
<1>3. CASE sleep[c] # None
  <2>1. wakeupQueue' = Append(wakeupQueue, c)
    BY <1>3 DEF Woken
  <2>2. /\ Len(wakeupQueue) \in Nat /\ DOMAIN wakeupQueue = 1..Len(wakeupQueue)
        /\ DOMAIN wakeupQueue' = 1..Len(wakeupQueue) + 1
        /\ wakeupQueue'[Len(wakeupQueue) + 1] = c
        /\ \A i \in 1..Len(wakeupQueue) : wakeupQueue'[i] = wakeupQueue[i]
    BY <1>t, <2>1
  <2>3. \A d : InWakeupQueue(d)' <=> InWakeupQueue(d) \/ d = c
    BY <2>2 DEF InWakeupQueue
  <2>4. TokInv'
    <3> SUFFICES ASSUME ~doubled', ~exited' PROVE TokInv'
      BY DEF TokInv
    <3>1. /\ ~doubled /\ \A i \in 1..Len(wakeupQueue) : wakeupQueue[i] # c
      BY <1>1, <2>2 DEF InWakeupQueue
    <3>2. \A i \in DOMAIN wakeupQueue' : sleep'[wakeupQueue'[i]] # None
      BY <3>1, <2>2, <1>3 DEF TokInv
    <3>3. Distinct(wakeupQueue)'
      BY <3>1, <2>2 DEF TokInv, Distinct
    <3> QED
      BY <3>2, <3>3 DEF TokInv
  <2> QED
    BY <1>1, <1>3, <2>3, <2>4
<1> QED
  BY <1>2, <1>3

(* Given the base, TokInv is inductive: only wakeups add tokens, only      *)
(* dispatch_wakeup takes one off, and who is resumed otherwise sleeps no   *)
(* more.                                                                   *)
LEMMA NextKeepsTokens == Base /\ TokInv /\ [Next]_vars => TokInv'
<1> SUFFICES ASSUME Base, TokInv, [Next]_vars, ~exited, ~exited' PROVE TokInv'
  <2>1. Base => exited \in BOOLEAN
    BY DEF Base, TypeOK
  <2> QED
    BY <2>1, ExitIsFinal DEF TokInv
<1>t. /\ wakeupQueue \in Seq(Co) /\ kicks \in Nat
      /\ sleep \in [Co -> Session \cup {None}]
  BY DEF Base, TypeOK
<1>s. \A c \in Co : sleep[c] # None => frame[c].st \in Sleeping
  BY DEF Base, RegInv
<1>i. pc = "idle" => wakeupQueue = <<>> \/ doubled
  BY DEF TokInv, Base, ErrInv
<1>u. ASSUME UNCHANGED <<wakeupQueue, doubled>>,
             \A d \in Co : sleep[d] # None => sleep'[d] # None,
             wakeupQueue # <<>> /\ ~doubled => pc' \in {"run", "wakeup"} \/ kicks' > 0
      PROVE  TokInv'
  <2> SUFFICES ASSUME ~doubled' PROVE TokInv'
    BY DEF TokInv
  <2>1. ~doubled /\ \A i \in DOMAIN wakeupQueue : sleep[wakeupQueue[i]] # None
        /\ Distinct(wakeupQueue)
    BY <1>u DEF TokInv
  <2>2. \A i \in DOMAIN wakeupQueue : wakeupQueue[i] \in Co
    BY <1>t
  <2> QED
    BY <2>1, <2>2, <1>u DEF TokInv, Distinct
<1>1. CASE \/ Ret \/ Response \/ (\E r \in Requests : Respond(r))
           \/ (\E r \in Requests : ReceiveUnknown(r)) \/ UNCHANGED vars
  <2>1. UNCHANGED <<wakeupQueue, doubled, sleep, pc, kicks, exited>>
    BY <1>1 DEF Ret, Response, Detach, Respond, ReceiveUnknown, vars, queues, tables,
                world, loop
  <2> QED
    BY <2>1, <1>u DEF TokInv
<1>2. CASE \E c \in Co : Wakeup(c)
  BY <1>2, WokenKeeps DEF Wakeup, Running, loop, tables, world
<1>3. CASE Sleep \/ Wait \/ EnterQueue \/ (\E p \in Peers : Call(p)) \/ (\E c \in Co : Timeout(c))
  <2>1. /\ UNCHANGED <<queues, exited>> /\ pc' \in {"run", "wakeup"}
        /\ \A d \in Co : sleep[d] # None => sleep'[d] # None
    BY <1>3, RegistrationsMove
  <2> QED
    BY <2>1, <1>u DEF queues
<1>4. CASE \/ \E c \in Co : Fork(c) \/ ReceiveSend(c)
           \/ \E r \in Requests, c \in Co : ReceiveRequest(r, c)
           \/ Finish \/ Throw \/ Exit
  <2>1. /\ UNCHANGED <<wakeupQueue, doubled, sleep>>
        /\ pc' \in {"run", "wakeup"} \/ kicks' > 0 \/ UNCHANGED <<pc, kicks>>
    BY <1>4, CoroutinesMove
  <2> QED
    BY <2>1, <1>u DEF TokInv
<1>5. CASE Enter
  <2>1. UNCHANGED <<wakeupQueue, doubled, sleep, pc, kicks, exited>>
    BY <1>5 DEF Enter, Enters, queues, tables, world, loop
  <2> QED
    BY <2>1, <1>u DEF TokInv
<1>6. CASE Leave
  <2>1. /\ pc = "run" /\ UNCHANGED <<sleep, pc, kicks, exited>>
        /\ \/ mutex.threads # <<>> /\ Woken(Head(mutex.threads))
           \/ UNCHANGED <<wakeupQueue, doubled>>
    BY <1>6 DEF Leave, Leaves, Running, loop, tables, world
  <2>2. mutex.threads # <<>> => Head(mutex.threads) \in Co
    <3>1. mutex.threads \in Seq(Co)
      BY DEF Base, TypeOK
    <3> QED
      BY <3>1
  <2>3. CASE UNCHANGED <<wakeupQueue, doubled>>
    BY <2>1, <2>3, <1>u
  <2>4. CASE mutex.threads # <<>> /\ Woken(Head(mutex.threads))
    BY <2>1, <2>2, <2>4, WokenKeeps
  <2> QED
    BY <2>1, <2>3, <2>4
<1>7. CASE \/ DispatchWakeup \/ DispatchErrorQueue
           \/ \E c \in Co : RunFork(c)
           \/ \E s \in Session : ReceiveResponse(s)
  <2>1. UNCHANGED <<doubled, kicks, exited>>
    BY <1>7, ResumptionsMove
  <2>2. CASE pc = "idle" /\ wakeupQueue' = wakeupQueue
    <3>1. wakeupQueue' = <<>> \/ doubled'
      BY <2>1, <2>2, <1>i
    <3> QED
      BY <3>1 DEF TokInv, Distinct
  <2>3. CASE wakeupQueue # <<>> /\ sleep[Head(wakeupQueue)] = None
    <3>1. 1 \in DOMAIN wakeupQueue /\ Head(wakeupQueue) = wakeupQueue[1]
      BY <2>3, <1>t
    <3>2. doubled
      BY <2>3, <3>1 DEF TokInv
    <3> QED
      BY <3>2, <2>1 DEF TokInv
  <2>4. ASSUME NEW c \in Co, pc' = "run", sleep' = [sleep EXCEPT ![c] = None],
               wakeupQueue # <<>>, c = Head(wakeupQueue), wakeupQueue' = Tail(wakeupQueue)
        PROVE  TokInv'
    <3> SUFFICES ASSUME ~doubled' PROVE TokInv'
      BY DEF TokInv
    <3>1. /\ Distinct(wakeupQueue)
          /\ \A i \in DOMAIN wakeupQueue : sleep[wakeupQueue[i]] # None
      BY <2>1 DEF TokInv
    <3>2. /\ Tail(wakeupQueue) \in Seq(Co) /\ Distinct(Tail(wakeupQueue))
          /\ \A i \in DOMAIN Tail(wakeupQueue) :
                 /\ i + 1 \in DOMAIN wakeupQueue
                 /\ Tail(wakeupQueue)[i] = wakeupQueue[i + 1]
                 /\ Tail(wakeupQueue)[i] # c
      BY <2>4, <3>1, <1>t, TailDistinct
    <3>3. \A i \in DOMAIN wakeupQueue' : sleep'[wakeupQueue'[i]] # None
      <4>1. \A i \in DOMAIN wakeupQueue : wakeupQueue[i] \in Co
        BY <1>t
      <4> QED
        BY <4>1, <2>4, <3>1, <3>2, <1>t
    <3> QED
      BY <2>4, <3>2, <3>3 DEF TokInv, Distinct
  <2>5. ASSUME NEW c \in Co, pc' = "run", sleep' = [sleep EXCEPT ![c] = None],
               wakeupQueue' = wakeupQueue, frame[c].st \notin Sleeping
        PROVE  TokInv'
    <3>1. sleep[c] = None
      BY <2>5, <1>s
    <3>2. \A d \in Co : sleep[d] # None => sleep'[d] # None
      BY <2>5, <3>1, <1>t
    <3> QED
      BY <2>1, <2>5, <3>2, <1>u
  <2> QED
    BY <1>7, <2>2, <2>3, <2>4, <2>5, ResumptionsMove
<1>8. CASE NothingToResume \/ RunKick \/ MessageDone
  <2>1. UNCHANGED <<wakeupQueue, doubled, sleep>>
    BY <1>8 DEF NothingToResume, RunKick, MessageDone, queues, tables
  <2>2. wakeupQueue # <<>> /\ ~doubled => pc' \in {"run", "wakeup"} \/ kicks' > 0
    BY <1>8 DEF NothingToResume, RunKick, MessageDone, queues, world, ErrorStage, Suspend,
                TokInv
  <2> QED
    BY <2>1, <2>2, <1>u
<1>9. CASE (\E s \in Session : ReceiveError(s)) \/ (\E p \in Peers : ReceiveDown(p))
  <2>1. UNCHANGED <<wakeupQueue, doubled, sleep>> /\ pc' = "wakeup"
    BY <1>9 DEF ReceiveError, ReceiveDown, Handled, Suspend, tables
  <2> QED
    BY <2>1, <1>u
<1> QED
  BY <1>1, <1>2, <1>3, <1>4, <1>5, <1>6, <1>7, <1>8, <1>9
     DEF Next, Library, Scheduler, Receive

(* At first the wakeup queue is empty.                                     *)
LEMMA InitTokens == Init => TokInv
  BY DEF Init, TokInv, Distinct

(* What the tokens and the errors have left when no suspend is owed.       *)
LEMMA TokensLeaveNothing == Base /\ TokInv => NothingLeftBehind
  BY DEF Base, ErrInv, TokInv, NothingLeftBehind

(* When a message has been handled, no fork, failed call or wakeup that it *)
(* set off is left for the next one, unless a token was put in twice or    *)
(* the service has exited: then tokens and failed calls may meet the rest  *)
(* of the batch, and forks do not.                                         *)
THEOREM NothingLeftBehindHolds == Spec => []NothingLeftBehind
  BY InitBase, NextKeepsBase, InitTokens, NextKeepsTokens, TokensLeaveNothing,
     PTL DEF Spec

-----------------------------------------------------------------------------
(* Unless a token was put in twice, and until the exit: a queue with a thread and nobody in it *)
(* has been handed to that thread, whose token is in the wakeup queue and  *)
(* the only one of those that wait here; the others wait, each once.       *)
QueInv ==
    ~doubled /\ ~exited =>
        /\ mutex.ref = 0 /\ mutex.thread # None =>
               InWakeupQueue(mutex.thread) /\ frame[mutex.thread].st = "queue"
        /\ mutex.threads # <<>> => mutex.thread # None
        /\ \A i \in DOMAIN mutex.threads :
               frame[mutex.threads[i]].st = "queue" /\ mutex.threads[i] # mutex.thread
        /\ Distinct(mutex.threads)
        /\ \A c \in Co : frame[c].st = "queue" /\ InWakeupQueue(c) =>
               mutex.thread = c /\ mutex.ref = 0

(* At first nobody is in the queue.                                        *)
LEMMA InitQueue == Init => QueInv
  BY LuaServiceAssumption DEF Init, QueInv, Distinct, Free, Frame

(* A step that moves neither the queue nor those that wait in it.          *)
LEMMA QueueUnmoved ==
    ASSUME Base, QueInv, ~exited, ~doubled' => ~doubled, mutex' = mutex,
           \A d \in Co : frame[d].st = "queue" <=> frame'[d].st = "queue",
           \A d \in Co : frame[d].st = "queue" => (InWakeupQueue(d)' <=> InWakeupQueue(d))
    PROVE  QueInv'
<1> SUFFICES ASSUME ~doubled' PROVE QueInv'
  BY DEF QueInv
<1>1. /\ mutex.ref = 0 /\ mutex.thread # None =>
             InWakeupQueue(mutex.thread) /\ frame[mutex.thread].st = "queue"
      /\ mutex.threads # <<>> => mutex.thread # None
      /\ \A i \in DOMAIN mutex.threads :
             frame[mutex.threads[i]].st = "queue" /\ mutex.threads[i] # mutex.thread
      /\ Distinct(mutex.threads)
      /\ \A c \in Co : frame[c].st = "queue" /\ InWakeupQueue(c) =>
             mutex.thread = c /\ mutex.ref = 0
  BY DEF QueInv
<1>2. /\ mutex.thread \in Co \cup {None} /\ mutex.threads \in Seq(Co)
  BY DEF Base, TypeOK
<1>3. \A i \in DOMAIN mutex.threads : mutex.threads[i] \in Co
  BY <1>2
<1>4. mutex.ref = 0 /\ mutex.thread # None =>
          InWakeupQueue(mutex.thread)' /\ frame'[mutex.thread].st = "queue"
  BY <1>1, <1>2
<1>5. \A i \in DOMAIN mutex.threads : frame'[mutex.threads[i]].st = "queue"
  BY <1>1, <1>3
<1>6. \A c \in Co : frame'[c].st = "queue" /\ InWakeupQueue(c)' =>
          mutex.thread = c /\ mutex.ref = 0
  BY <1>1
<1>7. Distinct(mutex.threads)'
  BY <1>1 DEF Distinct
<1> QED
  BY <1>1, <1>4, <1>5, <1>6, <1>7 DEF QueInv

(* Who is resumed is the one the queue was handed to, or did not wait for  *)
(* it.                                                                     *)
LEMMA ResumptionsKeepQueue ==
    ASSUME Base, TokInv, QueInv, ~exited,
           \/ DispatchWakeup \/ DispatchErrorQueue
           \/ \E c \in Co : RunFork(c)
           \/ \E s \in Session : ReceiveResponse(s)
    PROVE  QueInv'
<1>t. /\ wakeupQueue \in Seq(Co) /\ doubled' = doubled
      /\ mutex \in [thread : Co \cup {None}, ref : Nat, threads : Seq(Co)]
  BY ResumptionsMove DEF Base, TypeOK
<1>1. CASE UNCHANGED <<frame, mutex, wakeupQueue>>
  <2>1. \A d \in Co : InWakeupQueue(d)' <=> InWakeupQueue(d)
    BY <1>1 DEF InWakeupQueue
  <2> QED
    BY <2>1, <1>1, <1>t, QueueUnmoved
<1>2. CASE wakeupQueue # <<>> /\ sleep[Head(wakeupQueue)] = None
  <2>1. 1 \in DOMAIN wakeupQueue /\ Head(wakeupQueue) = wakeupQueue[1]
    BY <1>2, <1>t
  <2>2. doubled
    BY <1>2, <2>1 DEF TokInv
  <2> QED
    BY <2>2, <1>t DEF QueInv
<1>3. ASSUME NEW c \in Co, frame'[c].st = "run", frame[c].st # "queue",
             \A d \in Co \ {c} : frame'[d] = frame[d], mutex' = mutex,
             wakeupQueue' = wakeupQueue
      PROVE  QueInv'
  <2>1. \A d \in Co : InWakeupQueue(d)' <=> InWakeupQueue(d)
    BY <1>3 DEF InWakeupQueue
  <2>2. \A d \in Co : frame[d].st = "queue" <=> frame'[d].st = "queue"
    BY <1>3
  <2> QED
    BY <2>1, <2>2, <1>3, <1>t, QueueUnmoved
<1>4. ASSUME NEW c \in Co, frame'[c].st = "run",
             \A d \in Co \ {c} : frame'[d] = frame[d],
             mutex' = IF frame[c].st = "queue" /\ mutex.ref = 0
                      THEN [mutex EXCEPT !.thread = c, !.ref = 1] ELSE mutex,
             wakeupQueue # <<>>, c = Head(wakeupQueue), wakeupQueue' = Tail(wakeupQueue)
      PROVE  QueInv'
  <2> SUFFICES ASSUME ~doubled' PROVE QueInv'
    BY DEF QueInv
  <2>1. /\ Len(wakeupQueue) \in Nat /\ Len(wakeupQueue) > 0
        /\ DOMAIN wakeupQueue = 1..Len(wakeupQueue)
        /\ DOMAIN wakeupQueue' = 1..Len(wakeupQueue) - 1
        /\ \A i \in 1..Len(wakeupQueue) - 1 : wakeupQueue'[i] = wakeupQueue[i + 1]
        /\ wakeupQueue[1] = c
    BY <1>4, <1>t
  <2>2. InWakeupQueue(c)
    BY <2>1 DEF InWakeupQueue
  <2>3. \A d \in Co \ {c} : InWakeupQueue(d)' <=> InWakeupQueue(d)
    <3> SUFFICES ASSUME NEW d \in Co \ {c}
                 PROVE  InWakeupQueue(d)' <=> InWakeupQueue(d)
      OBVIOUS
    <3>1. ASSUME NEW i \in 1..Len(wakeupQueue), wakeupQueue[i] = d
          PROVE  i - 1 \in DOMAIN wakeupQueue' /\ wakeupQueue'[i - 1] = d
      <4>1. i # 1
        BY <3>1, <2>1
      <4>2. i - 1 \in 1..Len(wakeupQueue) - 1 /\ (i - 1) + 1 = i
        BY <4>1, <2>1
      <4> QED
        BY <4>2, <3>1, <2>1
    <3>2. ASSUME NEW i \in 1..Len(wakeupQueue) - 1, wakeupQueue'[i] = d
          PROVE  i + 1 \in DOMAIN wakeupQueue /\ wakeupQueue[i + 1] = d
      BY <3>2, <2>1
    <3> QED
      BY <3>1, <3>2, <2>1 DEF InWakeupQueue
  <2>4. CASE frame[c].st # "queue"
    BY <2>3, <2>4, <1>4, <1>t, QueueUnmoved
  <2>5. CASE frame[c].st = "queue"
    <3>1. ~doubled
      BY <1>t
    <3>2. mutex.thread = c /\ mutex.ref = 0
      BY <2>2, <2>5, <3>1 DEF QueInv
    <3>3. /\ mutex'.thread = c /\ mutex'.ref = 1 /\ mutex'.threads = mutex.threads
      BY <2>5, <3>2, <1>4, <1>t
    <3>4. c # None
      BY LuaServiceAssumption
    <3>5. \A i \in DOMAIN mutex.threads : /\ mutex.threads[i] \in Co \ {c}
                                          /\ frame[mutex.threads[i]].st = "queue"
      <4>1. mutex.threads \in Seq(Co)
        BY <1>t
      <4> QED
        BY <4>1, <3>1, <3>2 DEF QueInv
    <3>6. Distinct(mutex.threads)'
      BY <3>1, <3>3 DEF QueInv, Distinct
    <3>7. \A d \in Co : ~(frame'[d].st = "queue" /\ InWakeupQueue(d)')
      <4> SUFFICES ASSUME NEW d \in Co, frame'[d].st = "queue", InWakeupQueue(d)'
                   PROVE  FALSE
        OBVIOUS
      <4>1. d # c
        BY <1>4
      <4>2. frame[d].st = "queue" /\ InWakeupQueue(d)
        BY <4>1, <1>4, <2>3
      <4> QED
        BY <4>1, <4>2, <3>1, <3>2 DEF QueInv
    <3> QED
      BY <3>3, <3>4, <3>5, <3>6, <3>7, <1>4 DEF QueInv
  <2> QED
    BY <2>4, <2>5
<1> QED
  BY <1>1, <1>2, <1>3, <1>4, ResumptionsMove

(* Who starts to wait for the queue comes last, and its token is in no     *)
(* queue.                                                                  *)
LEMMA RegistrationsKeepQueue ==
    ASSUME Base, TokInv, QueInv, ~exited,
           \/ Sleep \/ Wait \/ EnterQueue
           \/ \E p \in Peers : Call(p)
           \/ \E c \in Co : Timeout(c)
    PROVE  QueInv'
<1>t. /\ wakeupQueue \in Seq(Co)
      /\ UNCHANGED <<wakeupQueue, doubled>>
      /\ mutex.thread \in Co \cup {None} /\ mutex.threads \in Seq(Co)
      /\ mutex \in [thread : Co \cup {None}, ref : Nat, threads : Seq(Co)]
  BY RegistrationsMove DEF Base, TypeOK, queues
<1>w. \A d : InWakeupQueue(d)' <=> InWakeupQueue(d)
  BY <1>t DEF InWakeupQueue
<1>1. PICK c \in Co :
         /\ frame[c].st \in {"run", "free"}
         /\ \A d \in Co \ {c} : frame'[d] = frame[d]
         /\ IF frame'[c].st = "queue"
            THEN /\ mutex.thread \notin {None, c} /\ frame[c].st = "run"
                 /\ mutex' = [mutex EXCEPT !.threads = Append(@, c)]
            ELSE mutex' = mutex
  BY RegistrationsMove
<1>2. CASE frame'[c].st # "queue"
  <2>1. \A d \in Co : frame[d].st = "queue" <=> frame'[d].st = "queue"
    BY <1>1, <1>2
  <2> QED
    BY <2>1, <1>1, <1>2, <1>t, <1>w, QueueUnmoved
<1>3. CASE frame'[c].st = "queue"
  <2> SUFFICES ASSUME ~doubled' PROVE QueInv'
    BY DEF QueInv
  <2>1. ~doubled
    BY <1>t
  <2>2. /\ mutex'.thread = mutex.thread /\ mutex'.ref = mutex.ref
        /\ mutex'.threads = Append(mutex.threads, c)
        /\ mutex.thread # None /\ mutex.thread # c /\ mutex.thread \in Co
    BY <1>1, <1>3, <1>t
  <2>3. /\ Len(mutex.threads) \in Nat
        /\ DOMAIN mutex.threads = 1..Len(mutex.threads)
        /\ DOMAIN mutex'.threads = 1..Len(mutex.threads) + 1
        /\ mutex'.threads[Len(mutex.threads) + 1] = c
        /\ \A i \in 1..Len(mutex.threads) : /\ mutex'.threads[i] = mutex.threads[i]
                                            /\ mutex.threads[i] \in Co
    BY <2>2, <1>t
  <2>4. \A i \in 1..Len(mutex.threads) :
            /\ frame[mutex.threads[i]].st = "queue" /\ mutex.threads[i] # mutex.thread
            /\ mutex.threads[i] # c
    BY <2>1, <2>3, <1>1 DEF QueInv
  <2>5. ~InWakeupQueue(c)
    <3>1. sleep[c] = None
      BY <1>1 DEF Base, RegInv, Sleeping
    <3> QED
      BY <3>1, <2>1 DEF InWakeupQueue, TokInv
  <2>6. mutex'.ref = 0 =>
            InWakeupQueue(mutex.thread)' /\ frame'[mutex'.thread].st = "queue"
    <3>1. mutex.ref = 0 => InWakeupQueue(mutex.thread) /\ frame[mutex.thread].st = "queue"
      BY <2>1, <2>2 DEF QueInv
    <3>2. frame'[mutex.thread] = frame[mutex.thread]
      BY <2>2, <1>1
    <3>3. InWakeupQueue(mutex.thread)' <=> InWakeupQueue(mutex.thread)
      BY <2>2, <1>t DEF InWakeupQueue
    <3> QED
      BY <3>1, <3>2, <3>3, <2>2
  <2>7. \A i \in DOMAIN mutex'.threads :
            frame'[mutex'.threads[i]].st = "queue" /\ mutex'.threads[i] # mutex'.thread
    <3> SUFFICES ASSUME NEW i \in 1..Len(mutex.threads) + 1
                 PROVE  /\ frame'[mutex'.threads[i]].st = "queue"
                        /\ mutex'.threads[i] # mutex'.thread
      BY <2>3
    <3>1. CASE i = Len(mutex.threads) + 1
      BY <3>1, <2>2, <2>3, <1>3
    <3>2. CASE i \in 1..Len(mutex.threads)
      BY <3>2, <2>2, <2>3, <2>4, <1>1
    <3> QED
      BY <3>1, <3>2, <2>3
  <2>8. Distinct(mutex.threads)'
    <3>1. Distinct(mutex.threads)
      BY <2>1 DEF QueInv
    <3> QED
      BY <3>1, <2>3, <2>4 DEF Distinct
  <2>9. \A d \in Co : frame'[d].st = "queue" /\ InWakeupQueue(d)' =>
            mutex'.thread = d /\ mutex'.ref = 0
    BY <2>1, <2>2, <2>5, <1>1, <1>w DEF QueInv
  <2> QED
    BY <2>2, <2>6, <2>7, <2>8, <2>9 DEF QueInv
<1> QED
  BY <1>2, <1>3

(* Entering a queue that is free or one's own.                             *)
LEMMA EnterKeepsQueue ==
    ASSUME Base, QueInv, ~exited, Enter
    PROVE  QueInv'
<1>t. /\ mutex \in [thread : Co \cup {None}, ref : Nat, threads : Seq(Co)]
      /\ frame \in [Co -> [st : Blocked \cup {"free", "dead", "run", "fresh"},
                           s : Session \cup {None}, depth : Nat]]
      /\ cur \in Co /\ frame[cur].st = "run"
  BY DEF Base, TypeOK, RunInv, Enter, Enters, Running
<1>1. /\ mutex.thread \in {None, cur}
      /\ mutex' = [mutex EXCEPT !.thread = cur, !.ref = mutex.ref + 1]
      /\ frame' = [frame EXCEPT ![cur].depth = @ + 1]
      /\ UNCHANGED <<wakeupQueue, doubled>>
  BY DEF Enter, Enters, queues
<1>2. \A d \in Co : frame'[d].st = frame[d].st
  BY <1>1, <1>t
<1>3. /\ mutex'.thread = cur /\ mutex'.ref = mutex.ref + 1 /\ mutex'.ref # 0
      /\ mutex'.threads = mutex.threads /\ mutex.threads \in Seq(Co)
      /\ cur # None
  BY <1>1, <1>t, LuaServiceAssumption
<1>4. ASSUME ~doubled'
      PROVE  QueInv'
  <2>1. ~doubled
    BY <1>1, <1>4
  <2>2. \A i \in DOMAIN mutex.threads : /\ frame'[mutex.threads[i]].st = "queue"
                                        /\ mutex.threads[i] # cur
    BY <2>1, <1>2, <1>3, <1>t DEF QueInv
  <2>3. Distinct(mutex.threads)'
    BY <2>1, <1>3 DEF QueInv, Distinct
  <2>4. ASSUME NEW d \in Co, frame'[d].st = "queue", InWakeupQueue(d)'
        PROVE  FALSE
    <3>1. frame[d].st = "queue" /\ InWakeupQueue(d)
      BY <2>4, <1>1, <1>2 DEF InWakeupQueue
    <3>2. mutex.thread = d
      BY <3>1, <2>1 DEF QueInv
    <3> QED
      BY <3>1, <3>2, <1>1, <1>t, LuaServiceAssumption
  <2> QED
    BY <1>3, <2>2, <2>3, <2>4 DEF QueInv
<1> QED
  BY <1>4 DEF QueInv

(* Leaving it: the last one out hands it to the first that waits.          *)
LEMMA LeaveKeepsQueue ==
    ASSUME Base, TokInv, QueInv, ~exited, Leave
    PROVE  QueInv'
<1>t. /\ mutex \in [thread : Co \cup {None}, ref : Nat, threads : Seq(Co)]
      /\ frame \in [Co -> [st : Blocked \cup {"free", "dead", "run", "fresh"},
                           s : Session \cup {None}, depth : Nat]]
      /\ cur \in Co /\ frame[cur].st = "run" /\ pc = "run"
      /\ \A c \in Co : frame[c].depth = IF mutex.thread = c THEN mutex.ref ELSE 0
      /\ mutex.threads \in Seq(Co)
  BY DEF Base, TypeOK, RunInv, DepthInv, Leave, Leaves, Running
<1> DEFINE ref == mutex.ref - 1
           next == Head(mutex.threads)
<1>1. /\ frame[cur].depth > 0
      /\ frame' = [frame EXCEPT ![cur].depth = @ - 1]
      /\ UNCHANGED <<pc, sleep, exited>>
      /\ \/ /\ ref = 0 /\ mutex.threads # <<>>
            /\ mutex' = [thread |-> next, ref |-> 0, threads |-> Tail(mutex.threads)]
            /\ Woken(next)
         \/ /\ ref # 0 \/ mutex.threads = <<>>
            /\ mutex' = [mutex EXCEPT !.ref = ref, !.thread = IF ref = 0 THEN None ELSE @]
            /\ UNCHANGED <<wakeupQueue, doubled>>
  BY DEF Leave, Leaves, loop, tables, world
<1>2. \A d \in Co : frame'[d].st = frame[d].st
  BY <1>1, <1>t
<1>3. mutex.thread = cur /\ mutex.ref > 0 /\ mutex.ref \in Nat /\ cur # None
  BY <1>1, <1>t, LuaServiceAssumption
<1>4. \A d \in Co : ~doubled => ~(frame[d].st = "queue" /\ InWakeupQueue(d))
  BY <1>3 DEF QueInv
<1>5. CASE /\ ref # 0 \/ mutex.threads = <<>>
           /\ mutex' = [mutex EXCEPT !.ref = ref, !.thread = IF ref = 0 THEN None ELSE @]
           /\ UNCHANGED <<wakeupQueue, doubled>>
  <2> SUFFICES ASSUME ~doubled' PROVE QueInv'
    BY DEF QueInv
  <2>1. ~doubled
    BY <1>5
  <2>2. /\ mutex'.threads = mutex.threads /\ mutex'.ref = ref
        /\ mutex'.thread = IF ref = 0 THEN None ELSE cur
    BY <1>3, <1>5, <1>t
  <2>3. /\ mutex'.ref = 0 => mutex'.thread = None
        /\ mutex'.threads # <<>> => mutex'.thread # None
    BY <2>2, <1>3, <1>5
  <2>4. \A i \in DOMAIN mutex.threads : /\ mutex.threads[i] \in Co
                                        /\ frame[mutex.threads[i]].st = "queue"
                                        /\ mutex.threads[i] # cur
    BY <2>1, <1>3, <1>t DEF QueInv
  <2>5. \A i \in DOMAIN mutex'.threads : /\ frame'[mutex'.threads[i]].st = "queue"
                                         /\ mutex'.threads[i] # mutex'.thread
    BY <2>2, <2>4, <1>2, LuaServiceAssumption
  <2>6. Distinct(mutex.threads)'
    BY <2>1, <2>2 DEF QueInv, Distinct
  <2>7. \A d \in Co : ~(frame'[d].st = "queue" /\ InWakeupQueue(d)')
    <3>1. \A d \in Co : InWakeupQueue(d)' <=> InWakeupQueue(d)
      BY <1>5 DEF InWakeupQueue
    <3> QED
      BY <3>1, <2>1, <1>2, <1>4
  <2> HIDE DEF ref
  <2> QED
    BY <2>3, <2>5, <2>6, <2>7 DEF QueInv
<1>6. CASE /\ ref = 0 /\ mutex.threads # <<>>
           /\ mutex' = [thread |-> next, ref |-> 0, threads |-> Tail(mutex.threads)]
           /\ Woken(next)
  <2> SUFFICES ASSUME ~doubled' PROVE QueInv'
    BY DEF QueInv
  <2>1. next \in Co /\ mutex.threads[1] = next /\ 1 \in DOMAIN mutex.threads
    BY <1>6, <1>t
  <2>2. /\ ~doubled
        /\ \A d : InWakeupQueue(d)' <=> InWakeupQueue(d) \/ (d = next /\ sleep[next] # None)
    BY <1>1, <1>6, <1>t, <2>1, WokenKeeps
  <2>3. /\ Distinct(mutex.threads)
        /\ \A i \in DOMAIN mutex.threads : /\ mutex.threads[i] \in Co
                                           /\ frame[mutex.threads[i]].st = "queue"
    BY <2>2, <1>t DEF QueInv
  <2>4. /\ Tail(mutex.threads) \in Seq(Co) /\ Distinct(Tail(mutex.threads))
        /\ \A i \in DOMAIN Tail(mutex.threads) :
               /\ i + 1 \in DOMAIN mutex.threads
               /\ Tail(mutex.threads)[i] = mutex.threads[i + 1]
               /\ Tail(mutex.threads)[i] # next
    BY <2>3, <1>6, <1>t, TailDistinct
  <2>5. sleep[next] # None
    <3>1. frame[next].st = "queue"
      BY <2>1, <2>3
    <3>2. Waits(next) /\ sleep[next] = frame[next].s
      BY <3>1, <2>1 DEF Waits, Blocked, Sleeping, Base, RegInv
    <3>3. frame[next].s \in 1..session /\ 1..session \subseteq Session
      BY <3>2, <2>1, LuaServiceAssumption DEF Base, RegInv, TypeOK, Session
    <3> QED
      BY <3>2, <3>3, LuaServiceAssumption
  <2>6. /\ mutex'.thread = next /\ mutex'.ref = 0 /\ mutex'.threads = Tail(mutex.threads)
    BY <1>6
  <2>7. frame'[next].st = "queue" /\ next # None
    BY <2>1, <2>3, <1>2, LuaServiceAssumption
  <2>8. \A i \in DOMAIN mutex'.threads : /\ frame'[mutex'.threads[i]].st = "queue"
                                         /\ mutex'.threads[i] # mutex'.thread
    BY <2>3, <2>4, <2>6, <1>2
  <2>9. Distinct(mutex.threads)'
    BY <2>4, <2>6 DEF Distinct
  <2>10. \A d \in Co : frame'[d].st = "queue" /\ InWakeupQueue(d)' => d = next
    BY <2>2, <1>2, <1>4
  <2>11. InWakeupQueue(mutex.thread)'
    BY <2>1, <2>2, <2>5, <2>6 DEF InWakeupQueue
  <2> HIDE DEF next
  <2> QED
    BY <2>6, <2>7, <2>8, <2>9, <2>10, <2>11 DEF QueInv
<1> QED
  BY <1>1, <1>5, <1>6

(* Given the base and TokInv, QueInv is inductive.                         *)
LEMMA NextKeepsQueue == Base /\ TokInv /\ QueInv /\ [Next]_vars => QueInv'
<1> SUFFICES ASSUME Base, TokInv, QueInv, [Next]_vars, ~exited PROVE QueInv'
  <2>1. Base => exited \in BOOLEAN
    BY DEF Base, TypeOK
  <2> QED
    BY <2>1, ExitIsFinal DEF QueInv
<1>u. ASSUME UNCHANGED <<frame, mutex, wakeupQueue, doubled>>
      PROVE  QueInv'
  <2>1. \A d \in Co : InWakeupQueue(d)' <=> InWakeupQueue(d)
    BY <1>u DEF InWakeupQueue
  <2> QED
    BY <2>1, <1>u, QueueUnmoved
<1>1. CASE \/ Ret \/ Response \/ (\E r \in Requests : Respond(r))
           \/ (\E r \in Requests : ReceiveUnknown(r)) \/ UNCHANGED vars
           \/ NothingToResume \/ RunKick \/ MessageDone
           \/ (\E s \in Session : ReceiveError(s)) \/ (\E p \in Peers : ReceiveDown(p))
  <2>1. UNCHANGED <<frame, mutex, wakeupQueue, doubled>>
    BY <1>1 DEF Ret, Response, Detach, Respond, ReceiveUnknown, vars, queues,
                NothingToResume, RunKick, MessageDone, ReceiveError, ReceiveDown, Handled
  <2> QED
    BY <2>1, <1>u
<1>2. ASSUME NEW c \in Co, Wakeup(c)
      PROVE  QueInv'
  <2>1. /\ frame[c].st # "queue" /\ UNCHANGED <<frame, mutex>>
        /\ ~doubled' => ~doubled
        /\ \A d : InWakeupQueue(d)' <=> InWakeupQueue(d) \/ (d = c /\ sleep[c] # None)
    BY <1>2, WokenKeeps DEF Wakeup, Running, loop, tables, world
  <2> QED
    BY <2>1, QueueUnmoved
<1>3. CASE Sleep \/ Wait \/ EnterQueue \/ (\E p \in Peers : Call(p)) \/ (\E c \in Co : Timeout(c))
  BY <1>3, RegistrationsKeepQueue
<1>4. CASE \/ \E c \in Co : Fork(c) \/ ReceiveSend(c)
           \/ \E r \in Requests, c \in Co : ReceiveRequest(r, c)
           \/ Finish \/ Throw \/ Exit
  <2>1. PICK c \in Co : /\ frame[c].st \in {"run", "free"}
                        /\ frame'[c].st \in {"free", "dead", "run", "fresh"}
                        /\ \A d \in Co \ {c} : frame'[d] = frame[d]
    BY <1>4, CoroutinesMove
  <2>2. UNCHANGED <<wakeupQueue, doubled, mutex>>
    BY <1>4, CoroutinesMove
  <2>3. \A d \in Co : InWakeupQueue(d)' <=> InWakeupQueue(d)
    BY <2>2 DEF InWakeupQueue
  <2>4. \A d \in Co : frame[d].st = "queue" <=> frame'[d].st = "queue"
    BY <2>1
  <2> QED
    BY <2>2, <2>3, <2>4, QueueUnmoved
<1>5. CASE \/ DispatchWakeup \/ DispatchErrorQueue
           \/ \E c \in Co : RunFork(c)
           \/ \E s \in Session : ReceiveResponse(s)
  BY <1>5, ResumptionsKeepQueue
<1> QED
  BY <1>1, <1>2, <1>3, <1>4, <1>5, EnterKeepsQueue, LeaveKeepsQueue
     DEF Next, Library, Scheduler, Receive

(* What QueInv and the depths say of the queue as a lock.                  *)
LEMMA QueueExcludes == Base /\ QueInv => QueueIsExclusive
<1> SUFFICES ASSUME Base, QueInv PROVE QueueIsExclusive
  OBVIOUS
<1>1. \A c \in Co : frame[c].depth > 0 => mutex.thread = c /\ mutex.ref = frame[c].depth
  BY DEF Base, DepthInv
<1> QED
  BY <1>1 DEF QueInv, QueueIsExclusive

(* The queue runs one coroutine's functions at a time and counts them, and *)
(* while some wait somebody is in it or has been handed it, unless a token *)
(* was put in the wakeup queue twice, and until the service exits.         *)
THEOREM QueueIsExclusiveHolds == Spec => []QueueIsExclusive
  BY InitBase, NextKeepsBase, InitTokens, NextKeepsTokens, InitQueue, NextKeepsQueue,
     QueueExcludes, PTL DEF Spec

-----------------------------------------------------------------------------
(* Who is charged with a request: one coroutine or a closure, and only     *)
(* while it is open, or after the exit, which answers all of them and      *)
(* leaves them charged.                                                    *)
Held(r) == r \in unresponse \/ \E c \in Co : sessionOf[c] = r

Charged(r) ==
    /\ \A c, d \in Co : sessionOf[c] = r /\ sessionOf[d] = r => c = d
    /\ r \in unresponse => \A c \in Co : sessionOf[c] # r
    /\ Held(r) => asked[r] # "new" /\ (asked[r] \in {"open", "late"} \/ exited)
    /\ asked[r] = "open" => From[r] \in down \/ (~exited /\ Held(r))
    /\ asked[r] = "late" => From[r] \in down \/ Held(r)
    /\ asked[r] = "again" => exited

AnsInv ==
    /\ \A c \in Co : frame[c].st \in {"free", "fresh"} => sessionOf[c] = None
    /\ \A r \in Requests : Charged(r)

(* At first nobody has asked.                                              *)
LEMMA InitAnswers == Init => AnsInv
  BY LuaServiceAssumption DEF Init, AnsInv, Charged, Held, Send

(* A step that touches no request.                                         *)
LEMMA AnswersUnmoved ==
    ASSUME AnsInv, UNCHANGED <<requests, exited>>, down \subseteq down',
           \A c \in Co : frame'[c].st \in {"free", "fresh"} =>
                             frame[c].st \in {"free", "fresh"}
    PROVE  AnsInv'
<1>1. UNCHANGED <<sessionOf, unresponse, asked>>
  BY DEF requests
<1> QED
  BY <1>1 DEF AnsInv, Charged, Held

(* The charge of one coroutine, who, is lifted or turned into a closure's, *)
(* and rs is what is answered by it.                                       *)
LEMMA LiftedKeepsAnswers ==
    ASSUME Base, AnsInv, NEW who \in Co, NEW keep \in BOOLEAN,
           sessionOf[who] \in Requests \cup {Send, None},
           sessionOf' = [sessionOf EXCEPT ![who] = None],
           unresponse' = IF keep THEN unresponse \cup ({sessionOf[who]} \ {Send, None})
                                 ELSE unresponse,
           asked' \in [Requests -> {"new", "open", "late", "answered", "again", "forgotten"}],
           \A r \in Requests : r # sessionOf[who] => asked'[r] = asked[r],
           keep => asked' = asked,
           ~keep => \A r \in Requests : r = sessionOf[who] =>
               /\ asked'[r] \notin {"open", "late"}
               /\ asked'[r] = "again" => asked[r] \notin {"open", "late"},
           UNCHANGED <<exited, down>>,
           \A c \in Co \ {who} : frame'[c].st \in {"free", "fresh"} =>
                                     frame[c].st \in {"free", "fresh"}
    PROVE  AnsInv'
<1>t. sessionOf \in [Co -> Requests \cup {Send, None}]
  BY DEF Base, TypeOK
<1>1. /\ sessionOf'[who] = None
      /\ \A c \in Co \ {who} : sessionOf'[c] = sessionOf[c]
  BY <1>t
<1>2. \A c \in Co : frame'[c].st \in {"free", "fresh"} => sessionOf'[c] = None
  BY <1>1 DEF AnsInv
<1>3. ASSUME NEW r \in Requests
      PROVE  Charged(r)'
  <2>1. r # None /\ r # Send
    BY LuaServiceAssumption
  <2>2. /\ \A c, d \in Co : sessionOf[c] = r /\ sessionOf[d] = r => c = d
        /\ r \in unresponse => \A c \in Co : sessionOf[c] # r
        /\ Held(r) => asked[r] # "new" /\ (asked[r] \in {"open", "late"} \/ exited)
        /\ asked[r] = "open" => From[r] \in down \/ (~exited /\ Held(r))
        /\ asked[r] = "late" => From[r] \in down \/ Held(r)
        /\ asked[r] = "again" => exited
    BY DEF AnsInv, Charged
  <2>3. \A c \in Co : sessionOf'[c] = r => c # who /\ sessionOf[c] = r
    BY <1>1, <2>1
  <2>4. CASE r # sessionOf[who]
    <3>1. /\ r \in unresponse' <=> r \in unresponse
          /\ asked'[r] = asked[r]
      BY <2>4
    <3>2. \A c \in Co : sessionOf'[c] = r <=> sessionOf[c] = r
      BY <2>4, <2>1, <1>1
    <3>3. Held(r)' <=> Held(r)
      BY <3>1, <3>2 DEF Held
    <3> QED
      BY <2>2, <3>1, <3>2, <3>3 DEF Charged
  <2>5. CASE r = sessionOf[who] /\ keep
    <3>1. r \in unresponse' /\ asked'[r] = asked[r]
      BY <2>5, <2>1
    <3>2. \A c \in Co : sessionOf'[c] # r
      BY <2>2, <2>3, <2>5
    <3>3. Held(r) /\ Held(r)'
      BY <3>1, <2>5 DEF Held
    <3> QED
      BY <2>2, <3>1, <3>2, <3>3 DEF Charged
  <2>6. CASE r = sessionOf[who] /\ ~keep
    <3>1. \A c \in Co : sessionOf'[c] # r
      BY <2>2, <2>3, <2>6
    <3>2. r \notin unresponse'
      BY <2>2, <2>6
    <3>3. Held(r) /\ ~Held(r)'
      BY <3>1, <3>2, <2>6 DEF Held
    <3>4. /\ asked'[r] \notin {"open", "late"}
          /\ asked'[r] = "again" => asked[r] \notin {"open", "late"}
      BY <2>6
    <3> QED
      BY <2>2, <3>1, <3>2, <3>3, <3>4 DEF Charged
  <2> QED
    BY <2>4, <2>5, <2>6
<1> QED
  BY <1>2, <1>3 DEF AnsInv

(* Given the base, AnsInv is inductive.                                    *)
LEMMA NextKeepsAnswers == Base /\ AnsInv /\ [Next]_vars => AnsInv'
<1> SUFFICES ASSUME Base, AnsInv, [Next]_vars PROVE AnsInv'
  OBVIOUS
<1>t. /\ sessionOf \in [Co -> Requests \cup {Send, None}]
      /\ unresponse \subseteq Requests /\ exited \in BOOLEAN
      /\ asked \in [Requests -> {"new", "open", "late", "answered", "again", "forgotten"}]
      /\ frame \in [Co -> [st : Blocked \cup {"free", "dead", "run", "fresh"},
                           s : Session \cup {None}, depth : Nat]]
  BY DEF Base, TypeOK
<1>r. Running => cur \in Co /\ running = cur /\ frame[cur].st = "run"
  BY DEF Base, RunInv, Running
<1>h. ASSUME NEW r \in Requests
      PROVE  /\ r # None /\ r # Send
             /\ \A c, d \in Co : sessionOf[c] = r /\ sessionOf[d] = r => c = d
             /\ r \in unresponse => \A c \in Co : sessionOf[c] # r
             /\ Held(r) => asked[r] # "new" /\ (asked[r] \in {"open", "late"} \/ exited)
             /\ asked[r] = "open" => From[r] \in down \/ (~exited /\ Held(r))
             /\ asked[r] = "late" => From[r] \in down \/ Held(r)
             /\ asked[r] = "again" => exited
  BY LuaServiceAssumption DEF AnsInv, Charged
<1>e. \A c \in Co : frame[c].st \in {"free", "fresh"} => sessionOf[c] = None
  BY DEF AnsInv
<1>a. ASSUME NEW rs, Answer(rs)
      PROVE  /\ asked' \in [Requests -> {"new", "open", "late", "answered", "again", "forgotten"}]
             /\ \A r \in Requests : r \notin rs => asked'[r] = asked[r]
             /\ \A r \in Requests : r \in rs =>
                    asked'[r] = IF asked[r] \in {"open", "late"} THEN "answered" ELSE "again"
  <2>1. asked' = [r \in Requests |->
                     CASE r \notin rs -> asked[r]
                       [] r \in rs /\ asked[r] \in {"open", "late"} -> "answered"
                       [] OTHER -> "again"]
    BY <1>a DEF Answer
  <2>2. asked' \in [Requests -> {"new", "open", "late", "answered", "again", "forgotten"}]
    BY <2>1, <1>t
  <2>3. ASSUME NEW r \in Requests
        PROVE  /\ r \notin rs => asked'[r] = asked[r]
               /\ r \in rs =>
                    asked'[r] = IF asked[r] \in {"open", "late"} THEN "answered" ELSE "again"
    <3>1. CASE r \notin rs
      BY <2>1, <3>1
    <3>2. CASE r \in rs
      BY <2>1, <3>2
    <3> QED
      BY <3>1, <3>2
  <2> QED
    BY <2>2, <2>3
<1>1. CASE \/ (\E c \in Co : Wakeup(c)) \/ UNCHANGED vars
           \/ NothingToResume \/ RunKick \/ MessageDone
           \/ (\E s \in Session : ReceiveError(s))
  <2>1. UNCHANGED <<frame, requests, exited, down>>
    BY <1>1 DEF Wakeup, vars, world, loop, requests, NothingToResume, RunKick, MessageDone,
                ReceiveError, Handled
  <2> QED
    BY <2>1, AnswersUnmoved
<1>2. CASE Sleep \/ Wait \/ EnterQueue \/ (\E p \in Peers : Call(p)) \/ (\E c \in Co : Timeout(c))
  <2>1. UNCHANGED <<requests, exited, down>>
    BY <1>2, RegistrationsMove
  <2>2. \A c \in Co : frame'[c].st \in {"free", "fresh"} => frame[c].st \in {"free", "fresh"}
    BY <1>2, RegistrationsMove DEF Blocked, Sleeping
  <2> QED
    BY <2>1, <2>2, AnswersUnmoved
<1>3. CASE \/ DispatchWakeup \/ DispatchErrorQueue
           \/ \E c \in Co : RunFork(c)
           \/ \E s \in Session : ReceiveResponse(s)
  <2>1. UNCHANGED <<requests, exited, down>>
    BY <1>3, ResumptionsMove
  <2>2. \A c \in Co : frame'[c].st \in {"free", "fresh"} => frame[c].st \in {"free", "fresh"}
    BY <1>3, ResumptionsMove
  <2> QED
    BY <2>1, <2>2, AnswersUnmoved
<1>4. CASE Enter \/ Leave
  <2>1. UNCHANGED <<requests, world>>
    BY <1>4 DEF Enter, Enters, Leave, Leaves
  <2>2. \/ frame' = [frame EXCEPT ![cur].depth = @ + 1]
        \/ frame' = [frame EXCEPT ![cur].depth = @ - 1]
    BY <1>4 DEF Enter, Enters, Leave, Leaves
  <2>3. \A c \in Co : frame'[c].st = frame[c].st
    BY <2>2, <1>t
  <2> QED
    BY <2>1, <2>3, AnswersUnmoved DEF world
<1>5. ASSUME NEW c \in Co, Fork(c)
      PROVE  AnsInv'
  <2>1. /\ frame[c].st = "free" /\ UNCHANGED <<requests, exited, down>>
        /\ frame' = [frame EXCEPT ![c] = Frame("fresh", None, 0)]
    BY <1>5 DEF Fork, ForkLeaving, Create, world
  <2>2. \A d \in Co : frame'[d].st \in {"free", "fresh"} => frame[d].st \in {"free", "fresh"}
    BY <2>1, <1>t
  <2> QED
    BY <2>1, <2>2, AnswersUnmoved
<1>6. ASSUME NEW c \in Co, ReceiveSend(c)
      PROVE  AnsInv'
  <2>1. /\ frame[c].st = "free" /\ UNCHANGED <<unresponse, asked, exited, down>>
        /\ sessionOf' = [sessionOf EXCEPT ![c] = Send]
        /\ \/ frame' = [frame EXCEPT ![c] = Frame("run", None, 0)]
           \/ frame' = [frame EXCEPT ![c] = Frame("dead", None, 0)]
    BY <1>6 DEF ReceiveSend, Start, Stillborn, Create, world
  <2>2. /\ sessionOf'[c] = Send /\ frame'[c].st \in {"run", "dead"}
        /\ \A d \in Co \ {c} : sessionOf'[d] = sessionOf[d] /\ frame'[d] = frame[d]
        /\ sessionOf[c] = None
    BY <2>1, <1>t, <1>e DEF Frame
  <2>3. \A d \in Co : frame'[d].st \in {"free", "fresh"} => sessionOf'[d] = None
    BY <2>2, <1>e
  <2>4. \A r \in Requests : \A d \in Co : sessionOf'[d] = r <=> sessionOf[d] = r
    BY <2>2, <1>h
  <2>5. \A r \in Requests : Held(r)' <=> Held(r)
    BY <2>1, <2>4 DEF Held
  <2> QED
    BY <2>1, <2>3, <2>4, <2>5, <1>h DEF AnsInv, Charged
<1>7. ASSUME NEW q \in Requests, NEW c \in Co, ReceiveRequest(q, c)
      PROVE  AnsInv'
  <2>1. /\ frame[c].st = "free" /\ UNCHANGED <<unresponse, exited, down>>
        /\ sessionOf' = [sessionOf EXCEPT ![c] = q]
        /\ \/ frame' = [frame EXCEPT ![c] = Frame("run", None, 0)]
           \/ frame' = [frame EXCEPT ![c] = Frame("dead", None, 0)]
        /\ asked' = [asked EXCEPT ![q] = IF exited THEN "late" ELSE "open"]
        /\ asked[q] = "new"
    BY <1>7 DEF ReceiveRequest, Fresh, Start, Stillborn, Create, world
  <2>2. /\ sessionOf'[c] = q /\ frame'[c].st \in {"run", "dead"}
        /\ \A d \in Co \ {c} : sessionOf'[d] = sessionOf[d] /\ frame'[d] = frame[d]
        /\ sessionOf[c] = None
        /\ asked'[q] = IF exited THEN "late" ELSE "open"
        /\ \A r \in Requests \ {q} : asked'[r] = asked[r]
    BY <2>1, <1>t, <1>e DEF Frame
  <2>3. ~Held(q)
    BY <2>1, <1>h
  <2>4. \A d \in Co : frame'[d].st \in {"free", "fresh"} => sessionOf'[d] = None
    BY <2>2, <1>e
  <2>5. ASSUME NEW r \in Requests \ {q}
        PROVE  /\ \A d \in Co : sessionOf'[d] = r <=> sessionOf[d] = r
               /\ Held(r)' <=> Held(r)
    <3>1. \A d \in Co : sessionOf'[d] = r <=> sessionOf[d] = r
      BY <2>2, <1>h
    <3> QED
      BY <3>1, <2>1 DEF Held
  <2>6. /\ \A d \in Co : sessionOf'[d] = q <=> d = c
        /\ q \notin unresponse' /\ Held(q)'
    BY <2>1, <2>2, <2>3 DEF Held
  <2>7. ASSUME NEW r \in Requests
        PROVE  Charged(r)'
    <3>1. CASE r = q
      BY <3>1, <2>1, <2>2, <2>3, <2>6 DEF Charged
    <3>2. CASE r # q
      BY <3>2, <2>1, <2>2, <2>5, <1>h DEF Charged
    <3> QED
      BY <3>1, <3>2
  <2> QED
    BY <2>4, <2>7 DEF AnsInv
<1>8. ASSUME NEW q \in Requests, ReceiveUnknown(q)
      PROVE  AnsInv'
  <2>1. /\ asked[q] = "new" /\ asked' = [asked EXCEPT ![q] = "answered"]
        /\ UNCHANGED <<frame, sessionOf, unresponse, exited, down>>
    BY <1>8 DEF ReceiveUnknown, Fresh, world
  <2>2. asked'[q] = "answered" /\ \A r \in Requests \ {q} : asked'[r] = asked[r]
    BY <2>1, <1>t
  <2>3. ~Held(q) /\ \A r \in Requests : Held(r)' <=> Held(r)
    BY <2>1, <1>h DEF Held
  <2> QED
    BY <2>1, <2>2, <2>3, <1>e, <1>h DEF AnsInv, Charged
<1>9. ASSUME NEW p \in Peers, ReceiveDown(p)
      PROVE  AnsInv'
  <2>1. /\ down' = down \cup {p} /\ unresponse' = {r \in unresponse : From[r] # p}
        /\ UNCHANGED <<frame, sessionOf, asked, exited>>
    BY <1>9 DEF ReceiveDown, Handled
  <2>2. \A r \in Requests : /\ Held(r)' => Held(r)
                            /\ From[r] # p => (Held(r)' <=> Held(r))
    BY <2>1 DEF Held
  <2> QED
    BY <2>1, <2>2, <1>e, <1>h DEF AnsInv, Charged
<1>10. CASE Ret
  <2>1. /\ Running /\ sessionOf' = [sessionOf EXCEPT ![cur] = None]
        /\ UNCHANGED <<unresponse, frame, exited, down>> /\ Answer({sessionOf[cur]})
    BY <1>10, <1>r DEF Ret, Detach, world
  <2> DEFINE who == cur
             keep == FALSE
  <2>2. who \in Co /\ keep \in BOOLEAN /\ ~keep
    BY <2>1, <1>r
  <2>3. /\ asked' \in [Requests -> {"new", "open", "late", "answered", "again", "forgotten"}]
        /\ \A r \in Requests : r # sessionOf[who] => asked'[r] = asked[r]
        /\ \A r \in Requests : r = sessionOf[who] =>
               /\ asked'[r] \notin {"open", "late"}
               /\ asked'[r] = "again" => asked[r] \notin {"open", "late"}
    BY <2>1, <1>a
  <2>4. sessionOf[who] \in Requests \cup {Send, None}
    BY <2>2, <1>t
  <2> HIDE DEF who, keep
  <2>5. sessionOf' = [sessionOf EXCEPT ![who] = None]
    BY <2>1 DEF who
  <2> QED
    BY <2>1, <2>2, <2>3, <2>4, <2>5, LiftedKeepsAnswers
<1>11. CASE Response
  <2>1. /\ Running /\ sessionOf' = [sessionOf EXCEPT ![cur] = None]
        /\ sessionOf[cur] # None
        /\ unresponse' = unresponse \cup ({sessionOf[cur]} \ {Send})
        /\ UNCHANGED <<asked, frame, exited, down>>
    BY <1>11, <1>r DEF Response, Detach, world
  <2> DEFINE who == cur
             keep == TRUE
  <2>2. who \in Co /\ keep \in BOOLEAN /\ keep
    BY <2>1, <1>r
  <2>3. sessionOf[who] \in Requests \cup {Send, None}
    BY <2>2, <1>t
  <2>4. unresponse' = unresponse \cup ({sessionOf[who]} \ {Send, None})
    BY <2>1
  <2>5. asked' \in [Requests -> {"new", "open", "late", "answered", "again", "forgotten"}]
    BY <2>1, <1>t
  <2>6. sessionOf' = [sessionOf EXCEPT ![who] = None]
    BY <2>1
  <2> HIDE DEF who, keep
  <2> QED
    BY <2>1, <2>2, <2>3, <2>4, <2>5, <2>6, LiftedKeepsAnswers
<1>12. CASE Finish
  <2>1. /\ Running /\ sessionOf' = [sessionOf EXCEPT ![cur] = None]
        /\ frame' = [frame EXCEPT ![cur] = Frame("free", None, 0)]
        /\ asked' = [r \in Requests |->
                        IF r = sessionOf[cur] /\ asked[r] \in {"open", "late"} THEN "forgotten"
                                                                               ELSE asked[r]]
        /\ UNCHANGED <<unresponse, exited, down>>
    BY <1>12, <1>r DEF Finish, world, Free
  <2> DEFINE who == cur
             keep == FALSE
  <2>2. who \in Co /\ keep \in BOOLEAN /\ ~keep
    BY <2>1, <1>r
  <2>3. /\ asked' \in [Requests -> {"new", "open", "late", "answered", "again", "forgotten"}]
        /\ \A r \in Requests : r # sessionOf[who] => asked'[r] = asked[r]
        /\ \A r \in Requests : r = sessionOf[who] =>
               /\ asked'[r] \notin {"open", "late"}
               /\ asked'[r] = "again" => asked[r] \notin {"open", "late"}
    BY <2>1, <1>t
  <2>4. sessionOf[who] \in Requests \cup {Send, None}
    BY <2>2, <1>t
  <2>5. sessionOf' = [sessionOf EXCEPT ![who] = None]
        /\ \A d \in Co \ {who} : frame'[d] = frame[d]
    BY <2>1, <1>t
  <2> HIDE DEF who, keep
  <2> QED
    BY <2>1, <2>2, <2>3, <2>4, <2>5, LiftedKeepsAnswers
<1>13. CASE Throw
  <2>1. /\ Running /\ sessionOf' = [sessionOf EXCEPT ![cur] = None]
        /\ frame' = [frame EXCEPT ![cur] = Frame("dead", None, 0)]
        /\ Answer({sessionOf[cur]})
        /\ UNCHANGED <<unresponse, exited, down>>
    BY <1>13, <1>r DEF Throw, Fail, world
  <2> DEFINE who == cur
             keep == FALSE
  <2>2. who \in Co /\ keep \in BOOLEAN /\ ~keep
    BY <2>1, <1>r
  <2>3. /\ asked' \in [Requests -> {"new", "open", "late", "answered", "again", "forgotten"}]
        /\ \A r \in Requests : r # sessionOf[who] => asked'[r] = asked[r]
        /\ \A r \in Requests : r = sessionOf[who] =>
               /\ asked'[r] \notin {"open", "late"}
               /\ asked'[r] = "again" => asked[r] \notin {"open", "late"}
    BY <2>1, <1>a
  <2>4. sessionOf[who] \in Requests \cup {Send, None}
    BY <2>2, <1>t
  <2>5. sessionOf' = [sessionOf EXCEPT ![who] = None]
        /\ \A d \in Co \ {who} : frame'[d] = frame[d]
    BY <2>1, <1>t
  <2> HIDE DEF who, keep
  <2> QED
    BY <2>1, <2>2, <2>3, <2>4, <2>5, LiftedKeepsAnswers
<1>14. ASSUME NEW q \in Requests, Respond(q)
      PROVE  AnsInv'
  <2>1. /\ q \in unresponse /\ unresponse' = unresponse \ {q} /\ Answer({q})
        /\ UNCHANGED <<frame, sessionOf, exited, down>>
    BY <1>14 DEF Respond, world
  <2>2. /\ asked'[q] = IF asked[q] \in {"open", "late"} THEN "answered" ELSE "again"
        /\ \A r \in Requests \ {q} : asked'[r] = asked[r]
    BY <2>1, <1>a
  <2>3. Held(q) /\ ~Held(q)' /\ \A r \in Requests \ {q} : Held(r)' <=> Held(r)
    BY <2>1, <1>h DEF Held
  <2> QED
    BY <2>1, <2>2, <2>3, <1>e, <1>h DEF AnsInv, Charged
<1>15. CASE Exit
  <2>1. /\ Running /\ exited' = TRUE /\ unresponse' = {}
        /\ Answer(unresponse \cup {sessionOf[c] : c \in Co})
        /\ frame' = [frame EXCEPT ![cur] = Frame("dead", None, @.depth)]
        /\ UNCHANGED <<sessionOf, down>>
    BY <1>15 DEF Exit
  <2>2. \A c \in Co : frame'[c].st \in {"free", "fresh"} => sessionOf'[c] = None
    BY <2>1, <1>t, <1>e, <1>r DEF Frame
  <2>3. ASSUME NEW r \in Requests, asked'[r] \in {"new", "open", "late"}
        PROVE  ~Held(r) /\ asked'[r] = asked[r]
    <3>1. r \notin unresponse \cup {sessionOf[c] : c \in Co} /\ asked'[r] = asked[r]
      BY <2>1, <2>3, <1>a
    <3> QED
      BY <3>1 DEF Held
  <2>4. \A r \in Requests : Held(r)' => Held(r)
    BY <2>1 DEF Held
  <2>5. ASSUME NEW r \in Requests
        PROVE  Charged(r)'
    BY <2>1, <2>3, <2>4, <1>h DEF Charged
  <2> QED
    BY <2>2, <2>5 DEF AnsInv
<1> QED
  BY <1>1, <1>2, <1>3, <1>4, <1>5, <1>6, <1>7, <1>8, <1>9, <1>10, <1>11, <1>12, <1>13,
     <1>14, <1>15 DEF Next, Library, Scheduler, Receive

(* What AnsInv says of the number of those charged with a request.         *)
LEMMA AnswersAreOnce == AnsInv => AnsweredOnce
<1> SUFFICES ASSUME AnsInv, NEW r \in Requests
             PROVE  LET holders == Cardinality({c \in Co : sessionOf[c] = r})
                                   + Cardinality({r} \cap unresponse)
                    IN  CASE asked[r] = "open"  -> (~exited /\ holders = 1) \/ From[r] \in down
                          [] asked[r] = "late"  -> holders = 1 \/ From[r] \in down
                          [] asked[r] = "again" -> exited
                          [] OTHER              -> exited \/ holders = 0
  BY DEF AnsweredOnce
<1> DEFINE H == {c \in Co : sessionOf[c] = r}
           U == {r} \cap unresponse
<1>1. /\ \A c, d \in Co : sessionOf[c] = r /\ sessionOf[d] = r => c = d
      /\ r \in unresponse => \A c \in Co : sessionOf[c] # r
      /\ Held(r) => asked[r] \in {"open", "late"} \/ exited
      /\ asked[r] = "open" => From[r] \in down \/ (~exited /\ Held(r))
      /\ asked[r] = "late" => From[r] \in down \/ Held(r)
      /\ asked[r] = "again" => exited
  BY DEF AnsInv, Charged
<1>2. Held(r) => \/ H = {} /\ U = {r}
                 \/ U = {} /\ \E c \in Co : H = {c}
  BY <1>1 DEF Held
<1>3. ~Held(r) => H = {} /\ U = {}
  BY DEF Held
<1>4. Cardinality({}) = 0 /\ \A c : Cardinality({c}) = 1
  BY FS_EmptySet, FS_Singleton
<1> HIDE DEF H, U
<1>5. Held(r) => Cardinality(H) + Cardinality(U) = 1
  BY <1>2, <1>4
<1>6. ~Held(r) => Cardinality(H) + Cardinality(U) = 0
  BY <1>3, <1>4
<1>7. CASE asked[r] \in {"open", "late", "again"}
  BY <1>1, <1>5, <1>7 DEF H, U
<1>8. CASE asked[r] \notin {"open", "late", "again"}
  BY <1>1, <1>6, <1>8 DEF H, U
<1> QED
  BY <1>7, <1>8

(* A request is charged to one coroutine or closure until it is answered,  *)
(* which happens once, unless its handler forgets it or its peer is down;  *)
(* the exit answers all that were received before it, and one received     *)
(* later in the batch stays charged until it is answered.                  *)
THEOREM AnsweredOnceHolds == Spec => []AnsweredOnce
  BY InitBase, NextKeepsBase, InitAnswers, NextKeepsAnswers, AnswersAreOnce, PTL DEF Spec
=============================================================================
