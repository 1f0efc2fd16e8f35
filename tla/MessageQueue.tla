--------------------------- MODULE MessageQueue ---------------------------
(***************************************************************************)
(* snownet-src/snownet_mq.cc: one service's message queue.                 *)
(*                                                                         *)
(* The queue is a circular array that doubles when it is full.  Every      *)
(* function takes the queue's spin lock for its whole body, so each is one *)
(* action.  The queue is followed through its life: created in the hands   *)
(* of the thread that launches the service, put on the global list, popped *)
(* by a worker, parked when it is found empty, announced again by the next *)
(* push, marked for release when the service's context is deleted, and     *)
(* drained and freed by the worker that finds it marked.                   *)
(*                                                                         *)
(* The global list is seen from this queue: `listed' says how many times   *)
(* the queue is linked in it, and `held' whether a thread has it.          *)
(***************************************************************************)
EXTENDS Integers, Sequences

CONSTANTS
    Message,              \* the messages senders push
    DEFAULT_QUEUE_SIZE,   \* initial capacity of the array (64 in the code)
    MQ_OVERLOAD,          \* first backlog that is reported (1024 in the code)
    Garbage,              \* what an array slot never written holds
    MaxLength             \* bound: no push beyond this many waiting messages

ASSUME QueueAssumption ==
    /\ DEFAULT_QUEUE_SIZE \in Nat /\ DEFAULT_QUEUE_SIZE >= 2
    /\ MQ_OVERLOAD \in Nat \ {0}
    /\ Garbage \notin Message
    /\ MaxLength \in Nat

VARIABLES
    cap, head, tail,      \* the array's size and the two ends of its contents
    queue,                \* the array
    release,              \* 1 once the context is deleted
    in_global,            \* 1: on the global list or being dispatched
    overload,             \* backlog to report, 0 when none
    overload_threshold,
    reported,             \* history: last backlog reported since the queue was empty
    listed,               \* links to this queue in the global list
    held,                 \* a thread has the queue
    freed                 \* its memory is gone

ring    == <<cap, head, tail, queue>>
load    == <<overload, overload_threshold>>
vars    == <<ring, release, in_global, load, reported, listed, held, freed>>

TypeOK ==
    /\ cap \in Nat /\ cap >= 2
    /\ head \in 0..cap-1 /\ tail \in 0..cap-1
    /\ queue \in [0..cap-1 -> Message \cup {Garbage}]
    /\ release \in {0, 1} /\ in_global \in {0, 1}
    /\ overload \in Nat /\ overload_threshold \in Nat /\ reported \in Nat
    /\ listed \in Nat /\ held \in BOOLEAN /\ freed \in BOOLEAN

(* snownet_mq_length *)
Length == IF head <= tail THEN tail - head ELSE tail + cap - head

WrapLate(i, c) == IF i > c THEN i - c ELSE i              \* mutant of Wrap

(* The array index i steps into an array of c slots, for i below 2c.       *)
Wrap(i, c) == IF i >= c THEN i - c ELSE i

(* snownet_mq_create: context_new holds the new queue, flagged as global.  *)
Init ==
    /\ cap = DEFAULT_QUEUE_SIZE
    /\ head = 0 /\ tail = 0
    /\ queue = [i \in 0..DEFAULT_QUEUE_SIZE-1 |-> Garbage]
    /\ release = 0
    /\ in_global = 1
    /\ overload = 0
    /\ overload_threshold = MQ_OVERLOAD
    /\ reported = 0
    /\ listed = 0
    /\ held = TRUE
    /\ freed = FALSE
-----------------------------------------------------------------------------
ExpandUnrotated(q, h) ==                                \* mutant of Expand
    /\ queue' = [i \in 0..2*cap-1 |-> IF i < cap THEN q[i] ELSE Garbage]
    /\ head' = 0 /\ tail' = cap /\ cap' = 2 * cap

(* expand_queue, called with the array full and head = tail                *)
Expand(q, h) ==
    /\ queue' = [i \in 0..2*cap-1 |->
                    IF i < cap THEN q[Wrap(h + i, cap)] ELSE Garbage]
    /\ head' = 0
    /\ tail' = cap
    /\ cap' = 2 * cap

AnnounceAlways == in_global' = 1 /\ listed' = listed + 1  \* mutant of Announce

(* The end of snownet_mq_push: a queue that is not global becomes so.      *)
Announce ==
    IF in_global = 0
    THEN in_global' = 1 /\ listed' = listed + 1
    ELSE UNCHANGED <<in_global, listed>>

(* snownet_mq_push *)
Push(m) ==
    /\ ~freed /\ release = 0
    /\ Length < MaxLength
    /\ LET filled == [queue EXCEPT ![tail] = m]
           next   == Wrap(tail + 1, cap)
       IN  IF next = head
           THEN Expand(filled, head)
           ELSE queue' = filled /\ tail' = next /\ UNCHANGED <<cap, head>>
    /\ Announce
    /\ UNCHANGED <<release, load, reported, held, freed>>

DoubledOnce(t, n) == 2 * t                         \* mutant of DoubledPast

(* The first of t, 2t, 4t, ... that is no less than n                      *)
DoubledPast(t, n) ==
    LET turn[k \in 0..n] == IF k = 0 THEN t ELSE 2 * turn[k-1]
        last == CHOOSE k \in 0..n : turn[k] >= n /\ \A j \in 0..k-1 : turn[j] < n
    IN  turn[last]

(* snownet_mq_pop finding a message                                        *)
PopMessage ==
    /\ head # tail
    /\ head' = Wrap(head + 1, cap)
    /\ LET length == Length - 1
       IN  IF length > overload_threshold
           THEN /\ overload' = length
                /\ overload_threshold' = DoubledPast(overload_threshold, length)
           ELSE UNCHANGED load
    /\ UNCHANGED <<cap, tail, queue, in_global, reported>>

PopNothingEarly ==                                  \* mutant of PopNothing
    /\ Length <= 1
    /\ overload_threshold' = MQ_OVERLOAD /\ reported' = 0
    /\ in_global' = 0
    /\ UNCHANGED <<ring, overload>>

(* snownet_mq_pop finding none: the queue is no longer in the global list  *)
PopNothing ==
    /\ head = tail
    /\ overload_threshold' = MQ_OVERLOAD /\ reported' = 0
    /\ in_global' = 0
    /\ UNCHANGED <<ring, overload>>

(* A worker that holds the queue of a live service takes its next message. *)
Dispatch ==
    /\ held /\ release = 0 /\ overload = 0
    /\ PopMessage
    /\ UNCHANGED <<release, listed, held, freed>>

(* snownet_mq_overload, called after every message a dispatch takes        *)
ReportOverload ==
    /\ held /\ release = 0 /\ overload # 0
    /\ reported' = overload
    /\ overload' = 0
    /\ UNCHANGED <<ring, release, in_global, overload_threshold, listed, held, freed>>

(* The dispatch finds the queue empty and leaves it.                       *)
DispatchEmpty ==
    /\ held /\ release = 0 /\ overload = 0
    /\ PopNothing
    /\ held' = FALSE
    /\ UNCHANGED <<release, listed, freed>>

(* snownet_globalmq_push by the launcher (whose service may be dead by     *)
(* then) or by a worker that has another queue to go on with, and the      *)
(* branch of snownet_mq_release that puts a live service's queue back      *)
GlobalPush ==
    /\ held /\ overload = 0
    /\ listed' = listed + 1
    /\ held' = FALSE
    /\ UNCHANGED <<ring, release, in_global, load, reported, freed>>

(* snownet_globalmq_pop by a worker                                        *)
GlobalPop ==
    /\ listed > 0
    /\ listed' = listed - 1
    /\ held' = TRUE
    /\ UNCHANGED <<ring, release, in_global, load, reported, freed>>

(* snownet_mq_mark_release; a worker between a pop and its overload report *)
(* has the context referenced, so that its deletion cannot come there      *)
MarkRelease ==
    /\ ~freed /\ release = 0
    /\ held => overload = 0
    /\ release' = 1
    /\ listed' = IF in_global # 1 THEN listed + 1 ELSE listed
    /\ UNCHANGED <<ring, in_global, load, reported, held, freed>>

(* _drop_queue, reached through snownet_mq_release: one message is dropped *)
Drop ==
    /\ held /\ release = 1
    /\ PopMessage
    /\ UNCHANGED <<release, listed, held, freed>>

(* _drop_queue finds the queue empty: _release frees it                    *)
DropEmpty ==
    /\ held /\ release = 1
    /\ PopNothing
    /\ freed' = TRUE
    /\ held' = FALSE
    /\ UNCHANGED <<release, listed>>

Done == freed /\ UNCHANGED vars

Next ==
    \/ \E m \in Message : Push(m)
    \/ Dispatch
    \/ ReportOverload
    \/ DispatchEmpty
    \/ GlobalPush
    \/ GlobalPop
    \/ MarkRelease
    \/ Drop
    \/ DropEmpty
    \/ Done

Spec == Init /\ [][Next]_vars
-----------------------------------------------------------------------------
(* The queue is linked in the global list or held, never both and never    *)
(* twice (the assertions on `next' in snownet_globalmq_push and _release), *)
(* and a queue that is neither is one whose in_global flag is down, so     *)
(* that the next push or the deletion of the context will link it.         *)
ScheduledOnce ==
    /\ listed <= 1
    /\ held => listed = 0
    /\ (~freed /\ ~held /\ listed = 0) => in_global = 0 /\ release = 0
    /\ (~freed /\ in_global = 0 /\ release = 0) => ~held /\ listed = 0

(* The array is never seen full and nothing waits in a queue nobody will   *)
(* look at: an empty queue is the only one snownet_mq_push has to announce. *)
NothingStranded ==
    (~freed /\ ~held /\ listed = 0) => head = tail

(* Until a worker finds the queue empty, a backlog is reported only when   *)
(* it is above every backlog reported before, however it rose and fell in  *)
(* between: a service that has stopped getting worse, or is catching up,   *)
(* does not fill the log with a report for each message.                   *)
ReportsRise == overload # 0 => overload > reported

(* The messages in the array, oldest first                                 *)
Contents == [k \in 1..Length |-> queue[Wrap(head + k - 1, cap)]]

PlaceOf ==
    IF freed THEN "freed"
    ELSE IF held THEN "held"
    ELSE IF listed > 0 THEN "listed" ELSE "parked"

M == INSTANCE Mailbox WITH
        contents <- Contents, place <- PlaceOf, open <- (release = 0)

(* The circular array, through every wrap and every expansion, is a FIFO   *)
(* mailbox: no message is lost, repeated or reordered.                     *)
ImplementsMailbox == M!MailboxSpec
=============================================================================
