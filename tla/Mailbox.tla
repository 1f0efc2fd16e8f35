------------------------------ MODULE Mailbox ------------------------------
(***************************************************************************)
(* What one service's message queue promises to the rest of snownet,       *)
(* whatever array it is kept in: messages leave in the order in which they *)
(* arrived, a queue is handed to at most one worker at a time, and a queue *)
(* nobody is looking at is empty, so that a push to it must announce it.   *)
(***************************************************************************)
EXTENDS Naturals, Sequences

CONSTANT Message    \* what a sender may put in the queue

VARIABLES
    contents,       \* the messages waiting, oldest first
    place,          \* where the queue is: with a worker, listed, or parked
    open            \* TRUE until the owner of the queue gives it up

mailboxVars == <<contents, place, open>>

Place == {"held", "listed", "parked", "freed"}

MailboxTypeOK ==
    /\ contents \in Seq(Message)
    /\ place \in Place
    /\ open \in BOOLEAN

MailboxInit ==
    /\ contents = <<>>
    /\ place = "held"
    /\ open = TRUE

(* A message arrives: a parked queue becomes listed, any other stays put.  *)
Arrive(m) ==
    /\ open
    /\ contents' = Append(contents, m)
    /\ place' = IF place = "parked" THEN "listed" ELSE place
    /\ UNCHANGED open

(* The worker that holds the queue takes the oldest message.               *)
Leave ==
    /\ place = "held"
    /\ contents # <<>>
    /\ contents' = Tail(contents)
    /\ UNCHANGED <<place, open>>

(* The worker that holds the queue leaves it: parked only if it is empty.  *)
Park ==
    /\ place = "held"
    /\ open
    /\ contents = <<>>
    /\ place' = "parked"
    /\ UNCHANGED <<contents, open>>

List ==
    /\ place = "held"
    /\ place' = "listed"
    /\ UNCHANGED <<contents, open>>

Hold ==
    /\ place = "listed"
    /\ place' = "held"
    /\ UNCHANGED <<contents, open>>

(* The owner gives the queue up; a parked queue must come back to be freed. *)
Close ==
    /\ open
    /\ open' = FALSE
    /\ place' = IF place = "parked" THEN "listed" ELSE place
    /\ UNCHANGED contents

(* Only an empty, closed queue in a worker's hands is freed.               *)
Free ==
    /\ place = "held"
    /\ ~open
    /\ contents = <<>>
    /\ place' = "freed"
    /\ UNCHANGED <<contents, open>>

MailboxNext ==
    \/ \E m \in Message : Arrive(m)
    \/ Leave
    \/ Park
    \/ List
    \/ Hold
    \/ Close
    \/ Free

MailboxSpec == MailboxInit /\ [][MailboxNext]_mailboxVars
=============================================================================
