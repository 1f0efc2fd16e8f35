------------------------- MODULE MessageQueueProofs -------------------------
(***************************************************************************)
(* For a queue of any initial capacity and any messages: the queue is in   *)
(* one place at a time, nothing is stranded in it, and the circular array  *)
(* with its expansions implements the mailbox of Mailbox.tla.              *)
(***************************************************************************)
EXTENDS MessageQueue, SequenceTheorems, WellFoundedInduction, TLAPS

(* The array's occupied part holds messages, never an unwritten slot.      *)
RingInv ==
    /\ cap \in Nat /\ cap >= 2
    /\ head \in 0..cap-1 /\ tail \in 0..cap-1
    /\ queue \in [0..cap-1 -> Message \cup {Garbage}]
    /\ \A k \in 1..Length : queue[Wrap(head + k - 1, cap)] \in Message

(* Where the queue is, and what its flags say of it.  The flag of a marked *)
(* queue means nothing any more, so the third part speaks of live ones.    *)
PlaceInv ==
    /\ release \in {0, 1} /\ in_global \in {0, 1}
    /\ listed \in {0, 1} /\ held \in BOOLEAN /\ freed \in BOOLEAN
    /\ held \/ freed => listed = 0
    /\ ~(held /\ freed)
    /\ (held \/ listed = 1) /\ release = 0 => in_global = 1
    /\ ~freed /\ ~held /\ listed = 0 => in_global = 0 /\ release = 0 /\ head = tail
    /\ freed => release = 1

Inv == RingInv /\ PlaceInv
-----------------------------------------------------------------------------
(* An index that wraps at the capacity stays inside the array.             *)
LEMMA WrapInside ==
    ASSUME NEW c \in Nat, c > 0, NEW i \in 0..2*c-1
    PROVE  Wrap(i, c) \in 0..c-1
  BY DEF Wrap

LEMMA LengthInside ==
    ASSUME RingInv
    PROVE  /\ Length \in 0..cap-1
           /\ Length = 0 <=> head = tail
           /\ Wrap(head + Length, cap) = tail
  BY DEF RingInv, Length, Wrap

(* The occupied part of the array is a sequence of messages.               *)
LEMMA ContentsSeq ==
    ASSUME RingInv
    PROVE  /\ Contents \in Seq(Message)
           /\ Len(Contents) = Length
           /\ \A k \in 1..Length : Contents[k] = queue[Wrap(head + k - 1, cap)]
<1>1. Length \in Nat
  BY LengthInside
<1>2. Contents \in [1..Length -> Message]
  BY DEF RingInv, Contents
<1>3. Contents \in Seq(Message)
  BY <1>1, <1>2
<1> QED
  BY <1>1, <1>2, <1>3 DEF Contents

(* Taking a message moves the head past the oldest one.                    *)
LEMMA PopTakesOldest ==
    ASSUME RingInv, head # tail, head' = Wrap(head + 1, cap),
           UNCHANGED <<cap, tail, queue>>
    PROVE  RingInv' /\ Contents # <<>> /\ Contents' = Tail(Contents)
<1>1. Length \in 1..cap-1 /\ Length' = Length - 1
  BY LengthInside DEF RingInv, Length, Wrap
<1>2. \A k \in 1..Length' : Wrap(head' + k - 1, cap) = Wrap(head + (k + 1) - 1, cap)
  BY <1>1 DEF RingInv, Wrap
<1>3. RingInv'
  <2>1. head' \in 0..cap-1
    BY DEF RingInv, Wrap
  <2>2. \A k \in 1..Length' : k + 1 \in 1..Length
    BY <1>1
  <2>3. \A k \in 1..Length' : queue[Wrap(head' + k - 1, cap)] \in Message
    BY <1>2, <2>2 DEF RingInv
  <2> QED
    BY <2>1, <2>3 DEF RingInv, Wrap
<1>4. /\ Contents \in Seq(Message) /\ Len(Contents) = Length
      /\ \A k \in 1..Length : Contents[k] = queue[Wrap(head + k - 1, cap)]
  BY ContentsSeq
<1>5. /\ Contents' \in Seq(Message) /\ Len(Contents') = Length'
      /\ \A k \in 1..Length' : Contents'[k] = queue[Wrap(head' + k - 1, cap)]
  <2>1. Length' \in Nat
    BY <1>1
  <2>2. Contents' = [k \in 1..Length' |-> queue[Wrap(head' + k - 1, cap)]]
    BY DEF Contents, Wrap
  <2>3. \A k \in 1..Length' : queue[Wrap(head' + k - 1, cap)] \in Message
    BY <1>3 DEF RingInv, Wrap
  <2>4. Contents' \in [1..Length' -> Message]
    BY <2>2, <2>3
  <2>5. Contents' \in Seq(Message)
    BY <2>1, <2>4
  <2> QED
    BY <2>1, <2>2, <2>4, <2>5
<1>6. Contents # <<>>
  BY <1>1, <1>4
<1>7. /\ Tail(Contents) \in Seq(Message)
      /\ Len(Tail(Contents)) = Length'
      /\ \A k \in 1..Length' : Tail(Contents)[k] = Contents[k + 1]
  BY <1>1, <1>4, <1>6
<1>8. \A k \in 1..Length' : Contents'[k] = Tail(Contents)[k]
  BY <1>1, <1>2, <1>4, <1>5, <1>7
<1> QED
  BY <1>3, <1>5, <1>6, <1>7, <1>8, SeqEqual

(* A push stores behind the newest message, or moves all to the front of   *)
(* an array twice as large: either way it is the newest one.               *)
LEMMA PushAppends ==
    ASSUME RingInv, ~freed, NEW m \in Message, Push(m)
    PROVE  RingInv' /\ Contents' = Append(Contents, m)
<1> DEFINE filled == [queue EXCEPT ![tail] = m]
           next   == Wrap(tail + 1, cap)
<1>1. /\ filled \in [0..cap-1 -> Message \cup {Garbage}]
      /\ \A j \in 0..cap-1 : j # tail => filled[j] = queue[j]
      /\ filled[tail] = m
      /\ next \in 0..cap-1
  BY DEF RingInv, Wrap
<1>2. \A k \in 1..Length : /\ Wrap(head + k - 1, cap) \in 0..cap-1
                           /\ Wrap(head + k - 1, cap) # tail
  BY LengthInside DEF RingInv, Length, Wrap
<1>3. /\ Length \in 0..cap-1
      /\ Wrap(head + (Length + 1) - 1, cap) = tail
  BY LengthInside DEF RingInv
<1>4. \A k \in 1..Length+1 :
        filled[Wrap(head + k - 1, cap)] =
            IF k <= Length THEN queue[Wrap(head + k - 1, cap)] ELSE m
  BY <1>1, <1>2, <1>3
<1>5. \A k \in 1..Length+1 : filled[Wrap(head + k - 1, cap)] \in Message
  BY <1>3, <1>4 DEF RingInv
<1>6. /\ cap' \in Nat /\ cap' >= 2
      /\ head' \in 0..cap'-1 /\ tail' \in 0..cap'-1
      /\ queue' \in [0..cap'-1 -> Message \cup {Garbage}]
      /\ Length' = Length + 1
      /\ \A k \in 1..Length+1 :
            queue'[Wrap(head' + k - 1, cap')] = filled[Wrap(head + k - 1, cap)]
  <2>1. CASE next = head
    <3>1. Length = cap - 1
      BY <2>1, LengthInside DEF RingInv, Length, Wrap
    <3>2. Expand(filled, head)
      BY <2>1 DEF Push
    <3>3. /\ cap' = 2 * cap /\ head' = 0 /\ tail' = cap
          /\ queue' = [k \in 0..2*cap-1 |->
                        IF k < cap THEN filled[Wrap(head + k, cap)] ELSE Garbage]
      BY <3>2 DEF Expand
    <3>4. \A k \in 0..cap-1 : Wrap(head + k, cap) \in 0..cap-1
      BY WrapInside DEF RingInv
    <3>5. queue' \in [0..cap'-1 -> Message \cup {Garbage}]
      <4> HIDE DEF filled
      <4>1. \A k \in 0..cap-1 : filled[Wrap(head + k, cap)] \in Message \cup {Garbage}
        BY <1>1, <3>4
      <4>2. \A k \in 0..2*cap-1 :
                (IF k < cap THEN filled[Wrap(head + k, cap)] ELSE Garbage)
                    \in Message \cup {Garbage}
        BY <4>1 DEF RingInv
      <4> QED
        BY <3>3, <4>2
    <3>6. Length' = Length + 1
      BY <3>1, <3>3 DEF Length, RingInv
    <3>7. \A k \in 1..cap : Wrap(head' + k - 1, cap') = k - 1
      BY <3>3 DEF Wrap, RingInv
    <3>8. \A k \in 1..cap : queue'[k - 1] = filled[Wrap(head + k - 1, cap)]
      BY <3>3 DEF RingInv
    <3> QED
      <4> HIDE DEF filled
      <4>1. \A k \in 1..Length+1 : queue'[Wrap(head' + k - 1, cap')]
                                     = filled[Wrap(head + k - 1, cap)]
        BY <3>1, <3>7, <3>8 DEF RingInv
      <4>2. /\ cap' \in Nat /\ cap' >= 2
            /\ head' \in 0..cap'-1 /\ tail' \in 0..cap'-1
        BY <3>3 DEF RingInv
      <4> QED
        BY <3>5, <3>6, <4>1, <4>2
  <2>2. CASE next # head
    <3>1. queue' = filled /\ tail' = next /\ UNCHANGED <<cap, head>>
      BY <2>2 DEF Push
    <3>2. Length' = Length + 1
      BY <2>2, <3>1 DEF RingInv, Length, Wrap
    <3> QED
      BY <1>1, <3>1, <3>2 DEF RingInv
  <2> QED
    BY <2>1, <2>2
<1>7. RingInv'
  BY <1>5, <1>6 DEF RingInv
<1>8. /\ Contents \in Seq(Message) /\ Len(Contents) = Length
      /\ \A k \in 1..Length : Contents[k] = queue[Wrap(head + k - 1, cap)]
  BY ContentsSeq
<1>9. /\ Contents' \in Seq(Message) /\ Len(Contents') = Length + 1
      /\ \A k \in 1..Length+1 : Contents'[k] = filled[Wrap(head + k - 1, cap)]
  <2>1. Contents' = [k \in 1..Length+1 |-> filled[Wrap(head + k - 1, cap)]]
    BY <1>6 DEF Contents
  <2>2. Contents' \in [1..Length+1 -> Message]
    BY <1>5, <2>1
  <2>3. Contents' \in Seq(Message)
    BY <1>3, <2>2
  <2> QED
    BY <1>3, <2>1, <2>2, <2>3
<1>10. /\ Append(Contents, m) \in Seq(Message)
       /\ Len(Append(Contents, m)) = Length + 1
       /\ \A k \in 1..Length+1 : Append(Contents, m)[k] =
                IF k <= Length THEN Contents[k] ELSE m
  BY <1>3, <1>8
<1>11. \A k \in 1..Length+1 : Contents'[k] = Append(Contents, m)[k]
  BY <1>3, <1>4, <1>8, <1>9, <1>10
<1> HIDE DEF filled, next
<1> QED
  BY <1>3, <1>7, <1>9, <1>10, <1>11, SeqEqual

LEMMA RingKept ==
    ASSUME RingInv, UNCHANGED ring
    PROVE  RingInv' /\ Contents' = Contents
<1>1. UNCHANGED <<cap, head, tail, queue>>
  BY DEF ring
<1>2. Length' = Length
  BY <1>1 DEF Length
<1> QED
  BY <1>1, <1>2 DEF RingInv, Contents
-----------------------------------------------------------------------------
(* The invariant holds of a new queue.                                     *)
LEMMA InitInv == Init => Inv
<1> SUFFICES ASSUME Init PROVE Inv
  OBVIOUS
<1>1. Length = 0
  BY DEF Init, Length
<1>2. RingInv
  BY <1>1, QueueAssumption DEF Init, RingInv
<1>3. PlaceInv
  BY DEF Init, PlaceInv
<1> QED
  BY <1>2, <1>3 DEF Inv

(* Every step keeps the invariant and is a step of the mailbox, or none.   *)
LEMMA StepImplements ==
    ASSUME Inv, [Next]_vars
    PROVE  Inv' /\ [M!MailboxNext]_(M!mailboxVars)
<1> USE DEF Inv
<1>0. CASE UNCHANGED vars
  <2>1. UNCHANGED ring
    BY <1>0 DEF vars
  <2>2. RingInv' /\ Contents' = Contents
    BY <2>1, RingKept
  <2> QED
    BY <1>0, <2>2 DEF vars, ring, PlaceInv, PlaceOf, M!mailboxVars
<1>1. ASSUME NEW m \in Message, Push(m)
      PROVE  Inv' /\ M!Arrive(m)
  <2>1. RingInv' /\ Contents' = Append(Contents, m)
    BY <1>1, PushAppends DEF Push
  <2>2. PlaceInv'
    BY <1>1 DEF Push, Announce, PlaceInv
  <2>3. M!Arrive(m)
    BY <1>1, <2>1 DEF Push, Announce, PlaceInv, PlaceOf, M!Arrive
  <2> QED
    BY <2>1, <2>2, <2>3
<1>2. ASSUME Dispatch \/ Drop
      PROVE  Inv' /\ M!Leave
  <2>1. /\ head # tail /\ head' = Wrap(head + 1, cap)
        /\ UNCHANGED <<cap, tail, queue>>
        /\ UNCHANGED <<in_global, release, listed, held, freed>> /\ held
    BY <1>2 DEF Dispatch, Drop, PopMessage
  <2>2. RingInv' /\ Contents # <<>> /\ Contents' = Tail(Contents)
    BY <2>1, PopTakesOldest
  <2>3. PlaceInv'
    BY <2>1 DEF PlaceInv
  <2> QED
    BY <2>1, <2>2, <2>3 DEF PlaceInv, PlaceOf, M!Leave
<1>3. ASSUME UNCHANGED ring,
             ReportOverload \/ DispatchEmpty \/ GlobalPush \/ GlobalPop
                \/ MarkRelease \/ DropEmpty \/ Done
      PROVE  Inv' /\ [M!MailboxNext]_(M!mailboxVars)
  <2>1. RingInv' /\ Contents' = Contents /\ UNCHANGED <<head, tail>>
    BY <1>3, RingKept DEF ring
  <2>2. head = tail => Contents = <<>>
    BY LengthInside, ContentsSeq
  <2>3. CASE ReportOverload \/ Done
    BY <2>1, <2>3 DEF ReportOverload, Done, vars, PlaceInv, PlaceOf, M!mailboxVars
  <2>4. CASE DispatchEmpty
    <3>1. PlaceInv'
      BY <2>1, <2>4 DEF DispatchEmpty, PopNothing, PlaceInv
    <3>2. M!Park
      BY <2>1, <2>2, <2>4 DEF DispatchEmpty, PopNothing, PlaceInv, PlaceOf, M!Park
    <3> QED
      BY <2>1, <3>1, <3>2 DEF M!MailboxNext
  <2>5. CASE GlobalPush
    <3>1. PlaceInv'
      <4>1. /\ listed' = 1
            /\ ~held' /\ held' \in BOOLEAN
            /\ ~freed'
        <5>1. held /\ ~freed /\ held' = FALSE /\ freed' = freed
          BY <2>5 DEF GlobalPush, PlaceInv
        <5>2. listed = 0 /\ listed' = listed + 1
          BY <2>5 DEF GlobalPush, PlaceInv
        <5>3. listed' = 1
          BY <5>2
        <5> QED
          BY <5>1, <5>3
      <4>2. /\ UNCHANGED <<release, in_global, freed>>
            /\ release = 0 => in_global = 1
        BY <2>5 DEF GlobalPush, PlaceInv
      <4>3. listed' \in {0, 1} /\ listed' # 0
        BY <4>1
      <4> QED
        BY <4>1, <4>2, <4>3 DEF PlaceInv
    <3>2. M!List
      BY <2>1, <2>5 DEF GlobalPush, PlaceInv, PlaceOf, M!List
    <3> QED
      BY <2>1, <3>1, <3>2 DEF M!MailboxNext
  <2>6. CASE GlobalPop
    <3>1. PlaceInv'
      BY <2>1, <2>6 DEF GlobalPop, PlaceInv
    <3>2. M!Hold
      BY <2>1, <2>6 DEF GlobalPop, PlaceInv, PlaceOf, M!Hold
    <3> QED
      BY <2>1, <3>1, <3>2 DEF M!MailboxNext
  <2>7. CASE MarkRelease
    <3>1. PlaceInv'
      BY <2>1, <2>7 DEF MarkRelease, PlaceInv
    <3>2. M!Close
      BY <2>1, <2>7 DEF MarkRelease, PlaceInv, PlaceOf, M!Close
    <3> QED
      BY <2>1, <3>1, <3>2 DEF M!MailboxNext
  <2>8. CASE DropEmpty
    <3>1. PlaceInv'
      BY <2>1, <2>8 DEF DropEmpty, PopNothing, PlaceInv
    <3>2. M!Free
      BY <2>1, <2>2, <2>8 DEF DropEmpty, PopNothing, PlaceInv, PlaceOf, M!Free
    <3> QED
      BY <2>1, <3>1, <3>2 DEF M!MailboxNext
  <2> QED
    BY <1>3, <2>3, <2>4, <2>5, <2>6, <2>7, <2>8
<1>4. ASSUME ReportOverload \/ DispatchEmpty \/ GlobalPush \/ GlobalPop
                \/ MarkRelease \/ DropEmpty \/ Done
      PROVE  UNCHANGED ring
  BY <1>4 DEF ReportOverload, DispatchEmpty, PopNothing, GlobalPush, GlobalPop,
              MarkRelease, DropEmpty, Done, vars
<1> QED
  BY <1>0, <1>1, <1>2, <1>3, <1>4 DEF Next, M!MailboxNext

-----------------------------------------------------------------------------
(* The threshold                                                           *)

(* A set of naturals that is not empty has a least element.                *)
LEMMA LeastNat ==
    ASSUME NEW T, T \subseteq Nat, T # {}
    PROVE  \E x \in T : \A y \in T : x <= y
<1> DEFINE R == OpToRel(<, Nat)
<1>1. \A a, b \in Nat : <<a, b>> \in R <=> a < b
  BY DEF OpToRel
<1>2. IsWellFoundedOn(R, Nat)
  BY NatLessThanWellFounded, Zenon
<1> HIDE DEF R
<1>3. PICK x \in T : \A y \in T : ~(<<y, x>> \in R)
  BY <1>2, WFMin
<1>4. \A y \in T : ~(y < x)
  BY <1>1, <1>3
<1> QED
  BY <1>4

(* Induction over the naturals, for a set                                  *)
LEMMA SetInduction ==
    ASSUME NEW X, 0 \in X, \A n \in Nat : n \in X => n + 1 \in X
    PROVE  Nat \subseteq X
<1> SUFFICES ASSUME Nat \ X # {} PROVE FALSE
  OBVIOUS
<1>1. PICK x \in Nat \ X : \A y \in Nat \ X : x <= y
  BY LeastNat
<1>2. x # 0 /\ x - 1 \in Nat
  OBVIOUS
<1>3. x - 1 \in X
  BY <1>1, <1>2
<1> QED
  BY <1>1, <1>2, <1>3

(* The loop ends, and with a threshold that is no less than the backlog:   *)
(* each turn adds one at least.                                            *)
LEMMA DoublingEnds ==
    ASSUME NEW t \in Nat, t > 0, NEW n \in Nat
    PROVE  DoubledPast(t, n) \in Nat /\ DoubledPast(t, n) >= n /\ DoubledPast(t, n) > 0
<1> DEFINE Eq(f, m) == f = [k \in 0..m |-> IF k = 0 THEN t ELSE 2 * f[k-1]]
           X == {m \in Nat : \E f \in [0..m -> Nat] : Eq(f, m)}
<1>1. 0 \in X
  <2> DEFINE f == [k \in 0..0 |-> t]
  <2>1. f \in [0..0 -> Nat] /\ Eq(f, 0)
    OBVIOUS
  <2> QED
    BY <2>1
<1>2. \A m \in Nat : m \in X => m + 1 \in X
  <2> SUFFICES ASSUME NEW m \in Nat, m \in X
               PROVE  m + 1 \in X
    OBVIOUS
  <2> HIDE DEF Eq
  <2>1. PICK f \in [0..m -> Nat] : Eq(f, m)
    OBVIOUS
  <2> USE DEF Eq
  <2> DEFINE g == [k \in 0..m+1 |-> IF k = m + 1 THEN 2 * f[m] ELSE f[k]]
  <2>2. g \in [0..m+1 -> Nat]
    BY <2>1
  <2>3. \A k \in 0..m+1 : g[k] = IF k = 0 THEN t ELSE 2 * g[k-1]
    <3> TAKE k \in 0..m+1
    <3>1. CASE k = m + 1
      BY <3>1
    <3>2. CASE k # m + 1
      <4>1. k \in 0..m /\ (k # 0 => k - 1 \in 0..m)
        BY <3>2
      <4> QED
        BY <2>1, <3>2, <4>1
    <3> QED
      BY <3>1, <3>2
  <2>4. Eq(g, m + 1)
    BY <2>3
  <2> HIDE DEF g, Eq
  <2> QED
    BY <2>2, <2>4
<1> DEFINE turn == CHOOSE f : Eq(f, n)
<1>3. Eq(turn, n)
  <2> HIDE DEF X
  <2>1. n \in X
    BY <1>1, <1>2, SetInduction
  <2> QED
    BY <2>1 DEF X
<1>4. \A k \in 0..n : turn[k] = IF k = 0 THEN t ELSE 2 * turn[k-1]
  BY <1>3
<1> DEFINE last == CHOOSE k \in 0..n : turn[k] >= n /\ \A j \in 0..k-1 : turn[j] < n
<1>5. DoubledPast(t, n) = turn[last]
  BY DEF DoubledPast
<1> HIDE DEF turn, X
<1>6. \A k \in 0..n : turn[k] \in Nat /\ turn[k] > k
  <2> DEFINE Y == {k \in Nat : k <= n => turn[k] \in Nat /\ turn[k] > k}
  <2>1. 0 \in Y
    BY <1>4
  <2>2. \A k \in Nat : k \in Y => k + 1 \in Y
    BY <1>4
  <2> HIDE DEF Y
  <2>3. Nat \subseteq Y
    BY <2>1, <2>2, SetInduction
  <2> QED
    BY <2>3 DEF Y
<1>7. last \in 0..n /\ turn[last] >= n
  <2> DEFINE past == {k \in 0..n : turn[k] >= n}
  <2>1. n \in past /\ past \subseteq Nat
    BY <1>6
  <2>2. PICK k \in past : \A j \in past : k <= j
    <3> HIDE DEF past
    <3> QED
      BY <2>1, LeastNat
  <2>3. \A j \in 0..k-1 : turn[j] < n
    BY <1>6, <2>2
  <2> QED
    BY <2>2, <2>3
<1> QED
  BY <1>5, <1>6, <1>7

(* What holds of the report and the threshold: what has been reported is   *)
(* below it, and what is to be reported was above it before it was raised. *)
LoadInv ==
    /\ overload \in Nat /\ overload_threshold \in Nat /\ overload_threshold > 0
    /\ reported \in Nat /\ reported <= overload_threshold
    /\ release = 0 => overload <= overload_threshold
    /\ overload # 0 => reported < overload

(* Taking a message raises the threshold past what it finds to report.     *)
LEMMA PopRaises ==
    ASSUME RingInv, LoadInv, PopMessage, UNCHANGED release
    PROVE  LoadInv'
<1>1. Length - 1 \in Nat /\ reported' = reported
  BY DEF PopMessage, RingInv, Length
<1>2. CASE Length - 1 > overload_threshold
  <2>1. overload' = Length - 1 /\ overload_threshold' = DoubledPast(overload_threshold, Length - 1)
    BY <1>2 DEF PopMessage
  <2> QED
    <3> DEFINE n == Length - 1
           t == overload_threshold
    <3>1. n \in Nat /\ t \in Nat /\ t > 0 /\ n > t
      BY <1>1, <1>2 DEF LoadInv
    <3> HIDE DEF n, t
    <3>2. DoubledPast(t, n) \in Nat /\ DoubledPast(t, n) >= n /\ DoubledPast(t, n) > 0
      BY <3>1, DoublingEnds
    <3>3. overload' = n /\ overload_threshold' = DoubledPast(t, n) /\ t = overload_threshold
      BY <2>1 DEF n, t
    <3> QED
      BY <1>1, <3>1, <3>2, <3>3 DEF LoadInv
<1>3. CASE ~(Length - 1 > overload_threshold)
  <2>1. UNCHANGED load
    BY <1>3 DEF PopMessage
  <2> QED
    BY <1>1, <2>1 DEF LoadInv, load
<1> QED
  BY <1>2, <1>3

LEMMA LoadKept ==
    ASSUME RingInv, LoadInv, [Next]_vars
    PROVE  LoadInv'
<1>1. CASE Dispatch \/ Drop
  BY <1>1, PopRaises DEF Dispatch, Drop
<1>2. CASE DispatchEmpty \/ DropEmpty
  BY <1>2, QueueAssumption DEF DispatchEmpty, DropEmpty, PopNothing, LoadInv
<1>3. CASE ReportOverload
  BY <1>3 DEF ReportOverload, LoadInv
<1>4. ASSUME NEW m \in Message, Push(m) PROVE LoadInv'
  BY <1>4 DEF Push, load, LoadInv
<1>5. CASE GlobalPush \/ GlobalPop \/ MarkRelease \/ Done \/ UNCHANGED vars
  BY <1>5 DEF GlobalPush, GlobalPop, MarkRelease, Done, vars, load, LoadInv
<1> QED
  BY <1>1, <1>2, <1>3, <1>4, <1>5 DEF Next

LEMMA LoadInit == Init => LoadInv
  BY QueueAssumption DEF Init, LoadInv
-----------------------------------------------------------------------------
(* A queue is linked in the global list or held by a thread, never both or *)
(* twice, and one that is neither has its flag down: snownet_globalmq_push *)
(* and _release never meet the states their assertions forbid.             *)
THEOREM QueueScheduledOnce == Spec => []ScheduledOnce
<1>1. Inv => ScheduledOnce
  BY DEF Inv, PlaceInv, ScheduledOnce
<1>2. Inv /\ [Next]_vars => Inv'
  BY StepImplements
<1> QED
  BY <1>1, <1>2, InitInv, PTL DEF Spec

(* A queue nobody will look at is empty: the flag that snownet_mq_pop puts *)
(* down and snownet_mq_push tests loses no message, whatever the capacity. *)
THEOREM NothingIsStranded == Spec => []NothingStranded
<1>1. Inv => NothingStranded
  BY DEF Inv, PlaceInv, NothingStranded
<1>2. Inv /\ [Next]_vars => Inv'
  BY StepImplements
<1> QED
  BY <1>1, <1>2, InitInv, PTL DEF Spec

(* The circular array, wherever its head stands when it is expanded, is a  *)
(* FIFO that loses, repeats and reorders nothing until it is freed.        *)
THEOREM QueueIsMailbox == Spec => ImplementsMailbox
<1>1. Init => M!MailboxInit
  <2> SUFFICES ASSUME Init PROVE M!MailboxInit
    OBVIOUS
  <2>1. RingInv /\ Length = 0
    BY InitInv DEF Init, Length, Inv
  <2>2. Contents = <<>>
    BY <2>1, ContentsSeq
  <2> QED
    BY <2>2 DEF Init, PlaceOf, M!MailboxInit
<1>2. Inv /\ [Next]_vars => Inv' /\ [M!MailboxNext]_(M!mailboxVars)
  BY StepImplements
<1> QED
  BY <1>1, <1>2, InitInv, PTL DEF Spec, ImplementsMailbox, M!MailboxSpec

(* The state keeps its types: head and tail stay inside the array through  *)
(* every expansion, nothing is listed a negative number of times, and the  *)
(* threshold is a number after any number of doublings.                    *)
THEOREM TypeCorrect == Spec => []TypeOK
<1>1. Inv /\ LoadInv => TypeOK
  BY DEF Inv, RingInv, PlaceInv, LoadInv, TypeOK
<1>2. Inv /\ LoadInv /\ [Next]_vars => (Inv /\ LoadInv)'
  BY StepImplements, LoadKept DEF Inv
<1> QED
  BY <1>1, <1>2, InitInv, LoadInit, PTL DEF Spec

(* However often a backlog rises and falls before a worker finds the queue *)
(* empty, whatever the capacity and the first threshold, what is reported  *)
(* is more than anything reported before.                                  *)
THEOREM ReportsAlwaysRise == Spec => []ReportsRise
<1>1. Inv /\ LoadInv => ReportsRise
  BY DEF LoadInv, ReportsRise
<1>2. Inv /\ LoadInv /\ [Next]_vars => (Inv /\ LoadInv)'
  BY StepImplements, LoadKept DEF Inv
<1> QED
  BY <1>1, <1>2, InitInv, LoadInit, PTL DEF Spec
=============================================================================
