------------------------------- MODULE Actors -------------------------------
(***************************************************************************)
(* What snownet promises to the author of a service, with no threads, no   *)
(* queues of queues and no reference counts: a service handles one message *)
(* at a time, in the order in which they were accepted, never before its   *)
(* init has succeeded and never once its state is being torn down; what is *)
(* left in its mailbox then is bounced, message by message, with an error  *)
(* to each sender that can be reached, and a service that is torn down     *)
(* accepts nothing more.                                                   *)
(***************************************************************************)
EXTENDS Sequences

CONSTANTS
    Service,       \* the services that may ever exist
    Root,          \* those that exist from the start
    Message,       \* what may be posted to a service, with its source
    NoMessage,     \* not handling any
    NoService      \* the source of what the timer and the sockets post

VARIABLES
    mailbox,       \* mailbox[s]: accepted and not yet handled
    handling,      \* handling[s]: the message s handles, or NoMessage
    phase,         \* phase[s]: unborn, reachable, retired or torn down
    ready,         \* ready[s]: its init has succeeded and it is not torn down
    owed           \* owed[s]: who is to be told of the last message s bounced

actorVars == <<mailbox, handling, phase, ready, owed>>

ActorsInit ==
    /\ mailbox \in [Service -> Seq(Message)]
    /\ \A s \in Service \ Root : mailbox[s] = <<>>
    /\ handling = [s \in Service |-> NoMessage]
    /\ phase = [s \in Service |-> IF s \in Root THEN "reachable" ELSE "unborn"]
    /\ ready = [s \in Service |-> s \in Root]
    /\ owed = [s \in Service |-> {}]

(* A service is launched: from then on messages reach it.                  *)
Begin(s) ==
    /\ phase[s] = "unborn"
    /\ phase' = [phase EXCEPT ![s] = "reachable"]
    /\ UNCHANGED <<mailbox, handling, ready, owed>>

(* Its init has succeeded, even if it was retired meanwhile.               *)
Open(s) ==
    /\ phase[s] \in {"reachable", "retired"}
    /\ ready' = [ready EXCEPT ![s] = TRUE]
    /\ UNCHANGED <<mailbox, handling, phase, owed>>

(* Senders that found the service before it retired may still finish.      *)
Post(s, m) ==
    /\ phase[s] \in {"reachable", "retired"}
    /\ mailbox' = [mailbox EXCEPT ![s] = Append(@, m)]
    /\ UNCHANGED <<handling, phase, ready, owed>>

Take(s) ==
    /\ ready[s]
    /\ phase[s] \in {"reachable", "retired"}
    /\ handling[s] = NoMessage
    /\ mailbox[s] # <<>>
    /\ handling' = [handling EXCEPT ![s] = Head(mailbox[s])]
    /\ mailbox' = [mailbox EXCEPT ![s] = Tail(@)]
    /\ UNCHANGED <<phase, ready, owed>>

Finish(s) ==
    /\ handling[s] # NoMessage
    /\ handling' = [handling EXCEPT ![s] = NoMessage]
    /\ UNCHANGED <<mailbox, phase, ready, owed>>

RetireActor(s) ==
    /\ phase[s] = "reachable"
    /\ phase' = [phase EXCEPT ![s] = "retired"]
    /\ UNCHANGED <<mailbox, handling, ready, owed>>

(* The state of a retired service goes when nothing is being handled.      *)
TearDown(s) ==
    /\ phase[s] = "retired"
    /\ handling[s] = NoMessage
    /\ phase' = [phase EXCEPT ![s] = "gone"]
    /\ ready' = [ready EXCEPT ![s] = FALSE]
    /\ UNCHANGED <<mailbox, handling, owed>>

(* One message is bounced after the other, and a sender that is a service  *)
(* is told before the next.                                                *)
Bounce(s) ==
    /\ phase[s] = "gone"
    /\ owed[s] = {}
    /\ mailbox[s] # <<>>
    /\ mailbox' = [mailbox EXCEPT ![s] = Tail(@)]
    /\ owed' = [owed EXCEPT ![s] = {Head(mailbox[s]).source} \ {NoService}]
    /\ UNCHANGED <<handling, phase, ready>>

(* The sender d finds the error in its mailbox ...                         *)
Tell(s, d) ==
    /\ d \in owed[s]
    /\ phase[d] \in {"reachable", "retired"}
    /\ mailbox' = [mailbox EXCEPT ![d] = Append(@, [source |-> s, type |-> "error"])]
    /\ owed' = [owed EXCEPT ![s] = @ \ {d}]
    /\ UNCHANGED <<handling, phase, ready>>

(* ... unless it has been retired itself.                                  *)
TellNobody(s, d) ==
    /\ d \in owed[s]
    /\ phase[d] # "reachable"
    /\ owed' = [owed EXCEPT ![s] = @ \ {d}]
    /\ UNCHANGED <<mailbox, handling, phase, ready>>

ActorsNext ==
    \E s \in Service :
        \/ Begin(s) \/ Open(s) \/ Take(s) \/ Finish(s)
        \/ RetireActor(s) \/ TearDown(s) \/ Bounce(s)
        \/ \E m \in Message : Post(s, m)
        \/ \E d \in Service : Tell(s, d) \/ TellNobody(s, d)

ActorsSpec == ActorsInit /\ [][ActorsNext]_actorVars
=============================================================================
