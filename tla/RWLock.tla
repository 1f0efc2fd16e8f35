------------------------------- MODULE RWLock -------------------------------
(***************************************************************************)
(* snownet-src/rwlock.h: the readers-writer lock of the handle table and   *)
(* of lualib-src/lua-stm.cc, one atomic read or update per action.         *)
(*                                                                         *)
(* A writer leaves its first loop when it sees no writer, increments the   *)
(* counter unless somebody has done so in between, and takes the lock if   *)
(* the counter is then 1.  Seeing 1 does not tell whose increment it is.   *)
(***************************************************************************)
EXTENDS Integers, FiniteSets

CONSTANTS
    Reader, Writer,   \* the threads that call rlock and those that call wlock
    CharValues        \* the number of values of a char, 256: more than the threads

Thread == Reader \cup Writer

VARIABLES
    write, read,      \* the two counters, as unsigned chars
    pc                \* pc[t]: where thread t is

vars == <<write, read, pc>>

TypeOK ==
    /\ write \in 0..CharValues-1
    /\ read \in 0..CharValues-1
    /\ pc \in [Thread -> {"idle", "spin", "count", "add", "check", "undo", "drain", "held"}]

(* rwlock_init *)
Init ==
    /\ write = 0 /\ read = 0
    /\ pc = [t \in Thread |-> "idle"]

Goto(t, l) == pc' = [pc EXCEPT ![t] = l]
Add(x, d) == (x + d) % CharValues
-----------------------------------------------------------------------------
(* rwlock_rlock *)
ReadLock(r) ==
    /\ pc[r] = "idle"
    /\ Goto(r, "spin")
    /\ UNCHANGED <<write, read>>

(* while (lock->write) *)
ReadSpin(r) ==
    /\ pc[r] = "spin" /\ write = 0
    /\ Goto(r, "count")
    /\ UNCHANGED <<write, read>>

(* lock->read++ *)
ReadCount(r) ==
    /\ pc[r] = "count"
    /\ read' = Add(read, 1)
    /\ Goto(r, "check")
    /\ UNCHANGED write

(* if (lock->write) *)
ReadCheck(r) ==
    /\ pc[r] = "check"
    /\ Goto(r, IF write # 0 THEN "undo" ELSE "held")
    /\ UNCHANGED <<write, read>>

(* lock->read--, and from the start *)
ReadUndo(r) ==
    /\ pc[r] = "undo"
    /\ read' = Add(read, -1)
    /\ Goto(r, "spin")
    /\ UNCHANGED write

(* rwlock_runlock *)
ReadUnlock(r) ==
    /\ pc[r] = "held"
    /\ read' = Add(read, -1)
    /\ Goto(r, "idle")
    /\ UNCHANGED write
-----------------------------------------------------------------------------
(* rwlock_wlock *)
WriteLock(w) ==
    /\ pc[w] = "idle"
    /\ Goto(w, "spin")
    /\ UNCHANGED <<write, read>>

(* while (lock->write) *)
WriteSpin(w) ==
    /\ pc[w] = "spin" /\ write = 0
    /\ Goto(w, "count")
    /\ UNCHANGED <<write, read>>

(* while (lock->write == 0): left at once if another writer has come first *)
WriteTest(w) ==
    /\ pc[w] = "count"
    /\ Goto(w, IF write = 0 THEN "add" ELSE "check")
    /\ UNCHANGED <<write, read>>

(* lock->write++, and the test again *)
WriteAdd(w) ==
    /\ pc[w] = "add"
    /\ write' = Add(write, 1)
    /\ Goto(w, "count")
    /\ UNCHANGED read

(* if (lock->write == 1) break; *)
WriteCheck(w) ==
    /\ pc[w] = "check"
    /\ Goto(w, IF write = 1 THEN "drain" ELSE "spin")
    /\ UNCHANGED <<write, read>>

(* while (lock->read) *)
WriteDrain(w) ==
    /\ pc[w] = "drain" /\ read = 0
    /\ Goto(w, "held")
    /\ UNCHANGED <<write, read>>

(* rwlock_wunlock *)
WriteUnlock(w) ==
    /\ pc[w] = "held"
    /\ write' = Add(write, -1)
    /\ Goto(w, "idle")
    /\ UNCHANGED read
-----------------------------------------------------------------------------
ReaderStep(r) ==
    \/ ReadSpin(r) \/ ReadCount(r) \/ ReadCheck(r) \/ ReadUndo(r) \/ ReadUnlock(r)
WriterStep(w) ==
    \/ WriteSpin(w) \/ WriteTest(w) \/ WriteAdd(w) \/ WriteCheck(w)
    \/ WriteDrain(w) \/ WriteUnlock(w)

Next ==
    \/ \E r \in Reader : ReadLock(r) \/ ReaderStep(r)
    \/ \E w \in Writer : WriteLock(w) \/ WriterStep(w)

Spec == Init /\ [][Next]_vars
-----------------------------------------------------------------------------
Holds(t) == pc[t] = "held"

(* A writer that has gone through the loop "while (lock->write == 0)       *)
(* lock->write++" has taken the lock itself, as the comment beside it says *)
(* ("this thread locks"): no two writers have it at once.                  *)
OneWriter == \A v, w \in Writer : Holds(v) /\ Holds(w) => v = w
=============================================================================
