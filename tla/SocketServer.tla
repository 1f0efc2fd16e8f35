---------------------------- MODULE SocketServer ----------------------------
(***************************************************************************)
(* snownet-src/socket_server.cc: TCP sockets.                              *)
(*                                                                         *)
(* The socket thread runs the commands of the control pipe and the events  *)
(* of the poll; it alone opens, closes and drains sockets.  Callers (the   *)
(* threads that run services) reserve a slot for a new socket, write       *)
(* commands to the pipe, and may write to the descriptor themselves when   *)
(* nothing else is being sent.  What guards that is dw_lock, with          *)
(* spinlock_trylock as it is: it answers whether the lock was held BEFORE. *)
(*                                                                         *)
(* An id stands for the descriptor it gets, in its whole life one.  A      *)
(* message is Size units long; a buffer is a message, the next unit to     *)
(* write and the number of units left, which the code computes with an     *)
(* unsigned result of write: see Again.                                    *)
(***************************************************************************)
EXTENDS Integers, FiniteSets, SequencesExt

CONSTANTS
    MAX_SOCKET,    \* slots
    MAX_EVENT,     \* events of one wait
    Caller,        \* threads that call the functions of socket_server.h
    Size,          \* units of a message
    None,          \* no buffer, no slot
    MaxId,         \* bound: ids given out
    MaxCall,       \* bound: calls made by services
    MaxAgain       \* bound: writes that fail

ASSUME SocketAssumption ==
    /\ MAX_SOCKET \in Nat \ {0} /\ MAX_EVENT \in Nat \ {0} /\ Size \in Nat \ {0}
    /\ MaxId \in Nat /\ MaxCall \in Nat /\ MaxAgain \in Nat
    /\ IsFiniteSet(Caller)

VARIABLES
    slot,          \* ss->slot: the fields of struct socket_st
    alloc_id,
    pipe,          \* the control pipe: requests, oldest first
    ev,            \* ss->ev from event_index to event_n
    checkctrl,
    poll,          \* the socket thread: where it is, for which slot and id
    calling,       \* calling[c]: where caller c is
    open,          \* the kernel: descriptors not closed
    wire,          \* wire[fd]: the kernel: what was written, a unit each
    given,         \* ids that calls and accepts gave to services
    ready,         \* those that services were told are open or accepted
    calls,         \* number of calls so far
    agains,        \* number of failed writes so far
    lost           \* the socket thread has once taken a slot from whoever was
                   \* reserving it

vars == <<slot, alloc_id, pipe, ev, checkctrl, poll, calling, open, wire,
          given, ready, calls, agains, lost>>

Slot == 0..MAX_SOCKET-1
Id == 1..MaxId
HASH_ID(id) == id % MAX_SOCKET
ID_TAG16(id) == id \div MAX_SOCKET

Message == [n : 1..MaxCall, by : Caller, low : BOOLEAN]
Buffer == {buf \in [msg : Message, ptr : Int, sz : Nat \ {0}] : buf.ptr + buf.sz = Size}
Types == {"INVALID", "RESERVE", "PLISTEN", "LISTEN", "CONNECTING", "CONNECTED",
          "HALFCLOSE", "PACCEPT"}
Event == [s : Slot \cup {None}, read : BOOLEAN, write : BOOLEAN]

Socket == [type : Types, id : {0} \cup Id, fd : {0} \cup Id,
           tcp : BOOLEAN, tag : Nat, sending : Nat,
           high : Seq(Buffer), low : Seq(Buffer), wb_size : Int,
           dw : Buffer \cup {None}, dw_lock : BOOLEAN,
           watch : SUBSET {"read", "write"}]

Work == [pc : {"ctrl", "wait", "event", "count", "sendbuf", "lists",
               "decide", "close", "closeHeld", "clear", "reopen", "abort"},
         s : Slot \cup {None}, id : {0} \cup Id,
         by : {"", "event", "close", "shutdown", "start"}]

TypeOK ==
    /\ slot \in [Slot -> Socket]
    /\ alloc_id \in {0} \cup Id
    /\ ev \in Seq(Event) /\ Len(ev) <= MAX_EVENT
    /\ checkctrl \in BOOLEAN
    /\ poll \in Work
    /\ \A c \in Caller : calling[c].pc \in
           {"idle", "reserved", "look", "try", "recheck", "write", "store", "inc", "push"}
    /\ open \subseteq Id /\ given \subseteq Id /\ ready \subseteq given
    /\ calls \in 0..MaxCall /\ agains \in 0..MaxAgain

(* The socket thread at a place of socket_server_poll, with no work in hand *)
At(pc) == [pc |-> pc, s |-> None, id |-> 0, by |-> ""]
In(pc, s, id, by) == [pc |-> pc, s |-> s, id |-> id, by |-> by]

Idle == [pc |-> "idle"]

(* socket_server_create.  The code leaves the slots' other fields unset;   *)
(* no id is known that would make anybody look at them.                    *)
Init ==
    /\ slot = [s \in Slot |->
                 [type |-> "INVALID", id |-> 0, fd |-> 0, tcp |-> FALSE, tag |-> 0,
                  sending |-> 0, high |-> <<>>, low |-> <<>>, wb_size |-> 0,
                  dw |-> None, dw_lock |-> FALSE, watch |-> {}]]
    /\ alloc_id = 0
    /\ pipe = <<>> /\ ev = <<>> /\ checkctrl = TRUE
    /\ poll = At("ctrl")
    /\ calling = [c \in Caller |-> Idle]
    /\ open = {} /\ wire = [id \in Id |-> <<>>]
    /\ given = {} /\ ready = {}
    /\ calls = 0 /\ agains = 0 /\ lost = FALSE

kernel == <<open, wire>>
services == <<given, ready, calls>>
thread == <<ev, checkctrl, poll>>
-----------------------------------------------------------------------------
(* Writes and reads of a slot that several functions share                 *)

Whole(msg) == [msg |-> msg, ptr |-> 0, sz |-> Size]

(* n units of a buffer                                                     *)
Units(buf, n) == [k \in 1..n |-> [msg |-> buf.msg, unit |-> buf.ptr + k - 1]]

Written(buf, n) == [buf EXCEPT !.ptr = @ + n, !.sz = @ - n]

(* A write answers -1, kept in a size_t: no test for a negative number is  *)
(* ever true, and the arithmetic goes on with -1.                          *)
Again(buf) == Written(buf, -1)

(* A write may fail; to a descriptor that is closed it does.               *)
MayFail(s) ==
    IF slot[s].fd \in open THEN agains < MaxAgain /\ agains' = agains + 1
    ELSE UNCHANGED agains

Empty(s) == slot[s].high = <<>> /\ slot[s].low = <<>>       \* send_buffer_empty

NoneOnItsWayUncounted(s) == slot[s].dw = None          \* mutant of NoneOnItsWay

NoneOnItsWay(s) == slot[s].dw = None /\ slot[s].sending = 0
nomore_sending_data(s) == Empty(s) /\ NoneOnItsWay(s)

(* sp_write                                                                *)
Watch(enable) == IF enable THEN {"read", "write"} ELSE {"read"}

(* reserve_id: the first of the next ids whose slot is free, or 0          *)
Reservable ==
    LET free == {id \in alloc_id+1..alloc_id+MAX_SOCKET :
                   slot[HASH_ID(id)].type = "INVALID"}
    IN  IF free = {} THEN 0 ELSE CHOOSE id \in free : \A j \in free : id <= j

(* new_fd asserts that the slot is reserved and its lists are empty.       *)
FreshSlot(s) == slot[s].type = "RESERVE" /\ Empty(s)

NewFdStillSending(s, id, type, watch) ==             \* mutant of NewFd
    [slot[s] EXCEPT !.id = id, !.fd = id, !.tcp = TRUE, !.tag = ID_TAG16(id),
                    !.wb_size = 0, !.dw = None, !.type = type, !.watch = watch]

(* new_fd: the slot's record for a new descriptor                          *)
NewFd(s, id, type, watch) ==
    [slot[s] EXCEPT !.id = id, !.fd = id, !.tcp = TRUE, !.tag = ID_TAG16(id),
                    !.sending = 0, !.wb_size = 0, !.dw = None,
                    !.type = type, !.watch = watch]

(* socket_server_poll after an event: commands first if a wait has just    *)
(* returned, else the next event, else another wait                        *)
NextEvent(rest) ==
    /\ ev' = rest
    /\ poll' = At(IF checkctrl THEN "ctrl" ELSE IF rest = <<>> THEN "wait" ELSE "event")

(* force_close up to the lock, for the work named by.  The code asserts    *)
(* that the slot is not reserved.                                          *)
BeginClose(pc, s, id, by) ==
    IF slot[s].type = "RESERVE"
    THEN poll' = At("abort") /\ UNCHANGED slot
    ELSE /\ poll' = In(pc, s, id, by)
         /\ slot' = [slot EXCEPT ![s].high = <<>>, ![s].low = <<>>, ![s].watch = {}]
-----------------------------------------------------------------------------
(* Calls of services                                                       *)

Call(c) ==
    /\ calling[c].pc = "idle" /\ calls < MaxCall
    /\ calls' = calls + 1

(* socket_server_connect, socket_server_listen: a slot is reserved; a      *)
(* listening descriptor exists already.  (Without a free slot the calls    *)
(* fail; that alloc_id has moved on by then is left out.)                  *)
Reserve(c, kind) ==
    /\ Call(c)
    /\ Reservable \in Id
    /\ alloc_id' = Reservable
    /\ slot' = [slot EXCEPT ![HASH_ID(Reservable)].type = "RESERVE"]
    /\ open' = IF kind = "listen" THEN open \cup {Reservable} ELSE open
    /\ calling' = [calling EXCEPT ![c] =
                     [pc |-> "reserved", kind |-> kind, id |-> Reservable]]
    /\ UNCHANGED <<pipe, thread, wire, given, ready, agains, lost>>

(* The rest of reserve_id, and the request                                 *)
Reserved(c) ==
    /\ calling[c].pc = "reserved"
    /\ LET id == calling[c].id
       IN  /\ slot' = [slot EXCEPT ![HASH_ID(id)].id = id, ![HASH_ID(id)].tcp = FALSE,
                                   ![HASH_ID(id)].fd = 0]
           /\ pipe' = Append(pipe, [kind |-> calling[c].kind, id |-> id])
           /\ given' = given \cup {id}
    /\ calling' = [calling EXCEPT ![c] = Idle]
    /\ UNCHANGED <<alloc_id, thread, kernel, ready, calls, agains, lost>>

(* socket_server_close, socket_server_shutdown, socket_server_start        *)
Request(c, kind, id) ==
    /\ Call(c)
    /\ pipe' = Append(pipe, [kind |-> kind, id |-> id])
    /\ UNCHANGED <<slot, alloc_id, thread, calling, kernel, given, ready, agains, lost>>

(* socket_server_send and socket_server_send_lowpriority: the first check  *)
Send(c, id, low) ==
    /\ Call(c)
    /\ LET s == HASH_ID(id)
           msg == [n |-> calls', by |-> c, low |-> low]
       IN  calling' = [calling EXCEPT ![c] =
             IF slot[s].id # id \/ slot[s].type = "INVALID" THEN Idle
             ELSE [pc |-> IF ~low /\ Empty(s) THEN "look" ELSE "inc",
                   id |-> id, msg |-> msg]]
    /\ UNCHANGED <<slot, alloc_id, pipe, thread, kernel, given, ready, agains, lost>>

Goto(c, pc) == calling' = [calling EXCEPT ![c].pc = pc]

(* can_direct_write, its last tests: other threads may have run since the  *)
(* lists were found empty                                                  *)
Look(c) ==
    /\ calling[c].pc = "look"
    /\ LET s == HASH_ID(calling[c].id)
       IN  Goto(c, IF NoneOnItsWay(s) /\ slot[s].type = "CONNECTED" THEN "try" ELSE "inc")
    /\ UNCHANGED <<slot, alloc_id, pipe, thread, kernel, services, agains, lost>>

(* socket_trylock                                                          *)
Try(c) ==
    /\ calling[c].pc = "try"
    /\ LET s == HASH_ID(calling[c].id)
       IN  /\ Goto(c, IF slot[s].dw_lock THEN "recheck" ELSE "inc")
           /\ slot' = [slot EXCEPT ![s].dw_lock = TRUE]
    /\ UNCHANGED <<alloc_id, pipe, thread, kernel, services, agains, lost>>

(* The double check                                                        *)
Recheck(c) ==
    /\ calling[c].pc = "recheck"
    /\ LET id == calling[c].id
           s == HASH_ID(id)
       IN  IF slot[s].id = id /\ nomore_sending_data(s) /\ slot[s].type = "CONNECTED"
           THEN Goto(c, "write") /\ UNCHANGED slot
           ELSE Goto(c, "inc") /\ slot' = [slot EXCEPT ![s].dw_lock = FALSE]
    /\ UNCHANGED <<alloc_id, pipe, thread, kernel, services, agains, lost>>

(* write, to the slot's descriptor of this moment.  When all is written    *)
(* the lock is released.                                                   *)
DirectWrite(c) ==
    /\ calling[c].pc = "write"
    /\ LET s == HASH_ID(calling[c].id)
           buf == Whole(calling[c].msg)
       IN  \/ \E n \in 1..Size :
                /\ slot[s].fd \in open
                /\ wire' = [wire EXCEPT ![slot[s].fd] = @ \o Units(buf, n)]
                /\ IF n = Size
                   THEN /\ calling' = [calling EXCEPT ![c] = Idle]
                        /\ slot' = [slot EXCEPT ![s].dw_lock = FALSE]
                   ELSE /\ calling' = [calling EXCEPT ![c] =
                             [pc |-> "store", id |-> @.id, rest |-> Written(buf, n)]]
                        /\ UNCHANGED slot
                /\ UNCHANGED agains
           \/ /\ MayFail(s)
              /\ calling' = [calling EXCEPT ![c] =
                   [pc |-> "store", id |-> @.id, rest |-> Again(buf)]]
              /\ UNCHANGED <<slot, wire>>
    /\ UNCHANGED <<alloc_id, pipe, thread, open, services, lost>>

(* What is left goes to dw_buffer, dw_size and dw_offset, for the socket   *)
(* thread to send.                                                         *)
Store(c) ==
    /\ calling[c].pc = "store"
    /\ LET s == HASH_ID(calling[c].id)
       IN  slot' = [slot EXCEPT ![s].dw = calling[c].rest, ![s].dw_lock = FALSE,
                                ![s].watch = IF @ = {} THEN {} ELSE Watch(TRUE)]
    /\ calling' = [calling EXCEPT ![c] = Idle]
    /\ UNCHANGED <<alloc_id, pipe, thread, kernel, services, agains, lost>>

(* inc_sending_ref                                                         *)
Inc(c) ==
    /\ calling[c].pc = "inc"
    /\ LET id == calling[c].id
           s == HASH_ID(id)
       IN  slot' = IF slot[s].tcp /\ slot[s].tag = ID_TAG16(id)
                   THEN [slot EXCEPT ![s].sending = @ + 1] ELSE slot
    /\ Goto(c, "push")
    /\ UNCHANGED <<alloc_id, pipe, thread, kernel, services, agains, lost>>

Push(c) ==
    /\ calling[c].pc = "push"
    /\ pipe' = Append(pipe, [kind |-> "send", id |-> calling[c].id, msg |-> calling[c].msg])
    /\ calling' = [calling EXCEPT ![c] = Idle]
    /\ UNCHANGED <<slot, alloc_id, thread, kernel, services, agains, lost>>
-----------------------------------------------------------------------------
(* ctrl_cmd: the socket thread takes a request of the pipe.                *)
Command(kind) ==
    /\ poll.pc = "ctrl" /\ pipe # <<>>
    /\ Head(pipe).kind = kind
    /\ pipe' = Tail(pipe)

NoCommand ==
    /\ poll.pc = "ctrl" /\ pipe = <<>>
    /\ checkctrl' = FALSE
    /\ poll' = At(IF ev = <<>> THEN "wait" ELSE "event")
    /\ UNCHANGED <<slot, alloc_id, pipe, ev, calling, kernel, services, agains, lost>>

(* The socket thread sets the type of s.                                   *)
Taken(s) == lost \/ slot[s].type = "RESERVE"

Matches(id) == slot[HASH_ID(id)].type # "INVALID" /\ slot[HASH_ID(id)].id = id

(* open_socket                                                             *)
Open ==
    /\ Command("connect")
    /\ LET id == Head(pipe).id
           s == HASH_ID(id)
       IN  \/ /\ slot' = [slot EXCEPT ![s].type = "INVALID"]     \* no address, no socket
              /\ poll' = In("clear", None, id, "")
              /\ UNCHANGED <<open, ready>>
           \/ /\ ~FreshSlot(s)                                  \* an assertion fails
              /\ poll' = At("abort")
              /\ UNCHANGED <<slot, open, ready>>
           \/ /\ FreshSlot(s)                                   \* sp_add fails in new_fd
              /\ slot' = [slot EXCEPT ![s].type = "INVALID"]
              /\ poll' = In("reopen", s, id, "")
              /\ UNCHANGED <<open, ready>>
           \/ /\ FreshSlot(s)                                   \* connected at once
              /\ slot' = [slot EXCEPT ![s] = NewFd(s, id, "CONNECTED", Watch(FALSE))]
              /\ open' = open \cup {id} /\ ready' = ready \cup {id}
              /\ poll' = At("ctrl")
           \/ /\ FreshSlot(s)
              /\ slot' = [slot EXCEPT ![s] = NewFd(s, id, "CONNECTING", Watch(TRUE))]
              /\ open' = open \cup {id}
              /\ poll' = At("ctrl")
              /\ UNCHANGED ready
    /\ UNCHANGED <<alloc_id, ev, checkctrl, calling, wire, given, calls, agains, lost>>

(* open_socket after new_fd has failed and freed the slot: the slot is     *)
(* made free once more, whoever has reserved it meanwhile                  *)
OpenFailed ==
    /\ poll.pc = "reopen"
    /\ slot' = [slot EXCEPT ![poll.s].type = "INVALID"]
    /\ lost' = Taken(poll.s)
    /\ poll' = In("clear", None, poll.id, "")
    /\ UNCHANGED <<alloc_id, pipe, ev, checkctrl, calling, kernel, services, agains>>

(* listen_socket                                                           *)
Listen ==
    /\ Command("listen")
    /\ LET id == Head(pipe).id
           s == HASH_ID(id)
       IN  IF FreshSlot(s)
           THEN /\ slot' = [slot EXCEPT ![s] = NewFd(s, id, "PLISTEN", {})]
                /\ poll' = At("ctrl")
           ELSE poll' = At("abort") /\ UNCHANGED slot
    /\ UNCHANGED <<alloc_id, ev, checkctrl, calling, kernel, services, agains, lost>>

(* start_socket: a listening or accepted socket is added to the poll, or   *)
(* closed when it cannot be; any other is handed over or left.             *)
Start ==
    /\ Command("start")
    /\ LET id == Head(pipe).id
           s == HASH_ID(id)
       IN  \/ /\ ~Matches(id)
              /\ poll' = In("clear", None, id, "")
              /\ UNCHANGED <<slot, ready>>
           \/ /\ Matches(id) /\ slot[s].type \in {"PACCEPT", "PLISTEN"}
              /\ slot' = [slot EXCEPT ![s].watch = Watch(FALSE),
                            ![s].type = IF @ = "PACCEPT" THEN "CONNECTED" ELSE "LISTEN"]
              /\ poll' = At("ctrl")
              /\ UNCHANGED ready
           \/ /\ Matches(id) /\ slot[s].type \in {"PACCEPT", "PLISTEN"}
              /\ BeginClose("close", s, id, "start")
              /\ UNCHANGED ready
           \/ /\ Matches(id) /\ slot[s].type \notin {"PACCEPT", "PLISTEN"}
              /\ poll' = At("ctrl")
              /\ UNCHANGED <<slot, ready>>
    /\ UNCHANGED <<alloc_id, ev, checkctrl, calling, kernel, given, calls, agains, lost>>

(* close_socket: what can be sent is sent first.                           *)
Close(kind) ==
    /\ Command(kind)
    /\ LET id == Head(pipe).id
           s == HASH_ID(id)
       IN  poll' = IF ~Matches(id) THEN In("clear", None, id, "")
                   ELSE In(IF nomore_sending_data(s) THEN "decide" ELSE "sendbuf", s, id, kind)
    /\ UNCHANGED <<slot, alloc_id, ev, checkctrl, calling, kernel, services, agains, lost>>

(* ... and the slot may by then be reserved, still under the last id.      *)
Decide ==
    /\ poll.pc = "decide"
    /\ IF poll.by = "shutdown" \/ nomore_sending_data(poll.s)
       THEN BeginClose("close", poll.s, poll.id, poll.by) /\ UNCHANGED lost
       ELSE /\ slot' = [slot EXCEPT ![poll.s].type = "HALFCLOSE"]
            /\ lost' = Taken(poll.s)
            /\ poll' = At("ctrl")
    /\ UNCHANGED <<alloc_id, pipe, ev, checkctrl, calling, kernel, services, agains>>

Queued(s, list, msg) == [slot[s] EXCEPT ![list] = Append(@, Whole(msg)), !.wb_size = @ + Size]

(* send_socket                                                             *)
SendSocket ==
    /\ Command("send")
    /\ LET id == Head(pipe).id
           msg == Head(pipe).msg
           s == HASH_ID(id)
       IN  /\ slot' =
                IF ~Matches(id) \/ slot[s].type \in {"HALFCLOSE", "PACCEPT", "PLISTEN", "LISTEN"}
                THEN slot
                ELSE IF Empty(s) /\ slot[s].type = "CONNECTED"
                THEN [slot EXCEPT ![s] = [Queued(s, "high", msg) EXCEPT !.watch = Watch(TRUE)]]
                ELSE [slot EXCEPT ![s] = Queued(s, IF msg.low THEN "low" ELSE "high", msg)]
           /\ poll' = In("count", s, id, "")
    /\ UNCHANGED <<alloc_id, ev, checkctrl, calling, kernel, services, agains, lost>>

(* dec_sending_ref: the code asserts that there is something to count down *)
Dec ==
    /\ poll.pc = "count"
    /\ LET s == poll.s
       IN  IF slot[s].id # poll.id \/ ~slot[s].tcp THEN poll' = At("ctrl") /\ UNCHANGED slot
           ELSE IF slot[s].sending = 0 THEN poll' = At("abort") /\ UNCHANGED slot
           ELSE /\ slot' = [slot EXCEPT ![s].sending = @ - 1]
                /\ poll' = At("ctrl")
    /\ UNCHANGED <<alloc_id, pipe, ev, checkctrl, calling, kernel, services, agains, lost>>
-----------------------------------------------------------------------------
(* send_buffer: the rest of a direct write is put before the high list.    *)

(* Back to whoever asked for the sending, with the lock released           *)
Sent(sl) ==
    /\ slot' = sl
    /\ IF poll.by = "event" THEN NextEvent(ev)
       ELSE poll' = [poll EXCEPT !.pc = "decide"] /\ UNCHANGED ev

TakeDirectUncounted(s) ==                            \* mutant of TakeDirect
    LET d == slot[s].dw
    IN  IF d = None THEN slot[s]
        ELSE [slot[s] EXCEPT !.high = <<d>> \o @, !.dw = None]

TakeDirect(s) ==
    LET d == slot[s].dw
    IN  IF d = None THEN slot[s]
        ELSE [slot[s] EXCEPT !.high = <<d>> \o @, !.wb_size = @ + d.sz, !.dw = None]

(* ... for close_socket; Writable is the same after an event               *)
SendBuffer ==
    /\ poll.pc = "sendbuf"
    /\ LET s == poll.s
       IN  \/ /\ slot[s].dw_lock
              /\ slot' = [slot EXCEPT ![s] = TakeDirect(s)]
              /\ poll' = [poll EXCEPT !.pc = "lists"]
           \/ /\ ~slot[s].dw_lock
              /\ slot' = [slot EXCEPT ![s].dw_lock = TRUE]
              /\ poll' = [poll EXCEPT !.pc = "decide"]
    /\ UNCHANGED <<alloc_id, pipe, ev, checkctrl, calling, kernel, services, agains, lost>>

(* raise_uncomplete: a low message that was begun goes on as a high one    *)
Raised(st) ==
    IF st.low # <<>> /\ Head(st.low).ptr # 0
    THEN [st EXCEPT !.high = <<Head(st.low)>>, !.low = Tail(st.low)]
    ELSE st

(* send_buffer_ and send_list_tcp: one write of the head of the high list, *)
(* or of the low one if that is empty, whole, in part or none              *)
SendList ==
    /\ poll.pc = "lists" /\ ~Empty(poll.s)
    /\ LET s == poll.s
           list == IF slot[s].high # <<>> THEN "high" ELSE "low"
           buf == Head(slot[s][list])
           rest == Tail(slot[s][list])
           Left(b, n) == [slot[s] EXCEPT ![list] = <<b>> \o rest, !.wb_size = @ - n,
                                         !.dw_lock = FALSE]
           After(b, n) == IF list = "low" THEN Raised(Left(b, n)) ELSE Left(b, n)
       IN  \/ \E n \in 1..buf.sz :
                /\ slot[s].fd \in open
                /\ wire' = [wire EXCEPT ![slot[s].fd] = @ \o Units(buf, n)]
                /\ IF n = buf.sz
                   THEN /\ slot' = [slot EXCEPT ![s][list] = rest, ![s].wb_size = @ - n]
                        /\ UNCHANGED <<ev, poll>>
                   ELSE Sent([slot EXCEPT ![s] = After(Written(buf, n), n)])
                /\ UNCHANGED agains
           \/ /\ MayFail(s)
              /\ Sent([slot EXCEPT ![s] = After(Again(buf), -1)])
              /\ UNCHANGED wire
    /\ UNCHANGED <<alloc_id, pipe, checkctrl, calling, open, services, lost>>

(* send_buffer_, step 4: both lists are done (and wb_size is 0, the code   *)
(* asserts); a half closed socket is closed.                               *)
AllSent ==
    /\ poll.pc = "lists" /\ Empty(poll.s)
    /\ LET s == poll.s
       IN  IF slot[s].wb_size # 0
           THEN poll' = At("abort") /\ UNCHANGED <<slot, ev>>
           ELSE IF slot[s].type = "HALFCLOSE"
           THEN BeginClose("closeHeld", s, poll.id, poll.by) /\ UNCHANGED ev
           ELSE Sent([slot EXCEPT ![s].watch = IF @ = {} THEN {} ELSE Watch(FALSE),
                                  ![s].dw_lock = FALSE])
    /\ UNCHANGED <<alloc_id, pipe, checkctrl, calling, kernel, services, agains, lost>>

(* force_close from the lock on                                            *)
EndClose ==
    /\ \/ poll.pc = "closeHeld"
       \/ poll.pc = "close" /\ ~slot[poll.s].dw_lock
    /\ slot' = [slot EXCEPT ![poll.s].type = "INVALID", ![poll.s].dw = None,
                            ![poll.s].dw_lock = FALSE]
    /\ open' = open \ {slot[poll.s].fd}
    /\ IF poll.by = "event" THEN NextEvent(ev)
       ELSE poll' = [poll EXCEPT !.pc = "clear"] /\ UNCHANGED ev
    /\ UNCHANGED <<alloc_id, pipe, checkctrl, calling, wire, services, agains, lost>>

(* clear_closed_event: the first waiting event of a slot just closed       *)
ClearClosed ==
    /\ poll.pc = "clear"
    /\ LET stale == {k \in DOMAIN ev : /\ ev[k].s # None
                                       /\ slot[ev[k].s].type = "INVALID"
                                       /\ slot[ev[k].s].id = poll.id}
       IN  ev' = IF stale = {} THEN ev
                 ELSE [ev EXCEPT ![CHOOSE k \in stale : \A j \in stale : k <= j].s = None]
    /\ poll' = At("ctrl")
    /\ UNCHANGED <<slot, alloc_id, pipe, checkctrl, calling, kernel, services, agains, lost>>
-----------------------------------------------------------------------------
(* sp_wait.  The pipe's own event carries no slot; an event of error is    *)
(* taken for a read that fails, with the same effect.                      *)
Pending ==
    (IF pipe = <<>> THEN {} ELSE {[s |-> None, read |-> TRUE, write |-> FALSE]}) \cup
    {e \in Event : /\ e.s # None /\ slot[e.s].watch # {}
                   /\ e.read \/ e.write
                   /\ e.write => "write" \in slot[e.s].watch}

Wait ==
    /\ poll.pc = "wait"
    /\ \E n \in 1..MAX_EVENT : \E q \in [1..n -> Pending] :
         /\ \A j, k \in 1..n : q[j].s = q[k].s => j = k
         /\ ev' = q
    /\ checkctrl' = TRUE
    /\ poll' = At("event")
    /\ UNCHANGED <<slot, alloc_id, pipe, calling, kernel, services, agains, lost>>

(* The next event: its slot                                                *)
Take == poll.pc = "event" /\ ev # <<>>
EventSlot == Head(ev).s

(* An event of the pipe, cleared, or of a slot that is free                *)
Skip ==
    /\ Take
    /\ EventSlot # None => slot[EventSlot].type = "INVALID"
    /\ NextEvent(Tail(ev))
    /\ UNCHANGED <<slot, alloc_id, pipe, checkctrl, calling, kernel, services, agains, lost>>

CloseOn ==
    /\ BeginClose("close", EventSlot, slot[EventSlot].id, "event")
    /\ ev' = Tail(ev)

(* report_connect.  xgetsockopt gives getsockopt the address of its own    *)
(* parameter, so that error is whatever the stack holds: the outcome may   *)
(* be either.                                                              *)
ReportConnect ==
    /\ Take /\ EventSlot # None /\ slot[EventSlot].type = "CONNECTING"
    /\ \/ CloseOn /\ UNCHANGED ready
       \/ /\ slot' = [slot EXCEPT ![EventSlot].type = "CONNECTED",
                                  ![EventSlot].watch = IF nomore_sending_data(EventSlot)
                                                 THEN Watch(FALSE) ELSE @]
          /\ ready' = ready \cup {slot[EventSlot].id}
          /\ NextEvent(Tail(ev))
    /\ UNCHANGED <<alloc_id, pipe, checkctrl, calling, kernel, given, calls, agains, lost>>

(* report_accept: nothing to accept or no slot left, or a socket that a    *)
(* service has to start                                                    *)
ReportAccept ==
    /\ Take /\ EventSlot # None /\ slot[EventSlot].type = "LISTEN"
    /\ \/ /\ NextEvent(Tail(ev))
          /\ UNCHANGED <<slot, alloc_id, open, given, ready>>
       \/ LET id == Reservable
              s == HASH_ID(id)
          IN  /\ id \in Id
              /\ alloc_id' = id
              /\ IF Empty(s)
                 THEN /\ slot' = [slot EXCEPT ![s] = NewFd(s, id, "PACCEPT", {})]
                      /\ open' = open \cup {id}
                      /\ given' = given \cup {id} /\ ready' = ready \cup {id}
                      /\ NextEvent(Tail(ev))
                 ELSE poll' = At("abort") /\ UNCHANGED <<slot, ev, open, given, ready>>
    /\ UNCHANGED <<pipe, checkctrl, calling, wire, calls, agains, lost>>

Established ==
    /\ Take /\ EventSlot # None
    /\ slot[EventSlot].type \notin {"INVALID", "CONNECTING", "LISTEN"}

(* forward_message_tcp: data (dropped by a half closed socket), the end or *)
(* an error of the connection; the write flag waits for the next turn.     *)
Read ==
    /\ Established /\ Head(ev).read
    /\ \/ /\ slot[EventSlot].type # "RESERVE"
          /\ NextEvent(IF Head(ev).write THEN [ev EXCEPT ![1].read = FALSE] ELSE Tail(ev))
          /\ UNCHANGED slot
       \/ CloseOn
    /\ UNCHANGED <<alloc_id, pipe, checkctrl, calling, kernel, services, agains, lost>>

(* send_buffer, for an event                                               *)
Writable ==
    /\ Established /\ ~Head(ev).read /\ Head(ev).write
    /\ LET s == EventSlot
       IN  \/ /\ slot[s].dw_lock
              /\ slot' = [slot EXCEPT ![s] = TakeDirect(s)]
              /\ poll' = In("lists", s, slot[s].id, "event")
              /\ ev' = Tail(ev)
           \/ /\ ~slot[s].dw_lock
              /\ slot' = [slot EXCEPT ![s].dw_lock = TRUE]
              /\ NextEvent(Tail(ev))
    /\ UNCHANGED <<alloc_id, pipe, checkctrl, calling, kernel, services, agains, lost>>

-----------------------------------------------------------------------------
Next ==
    \/ \E c \in Caller :
         \/ \E kind \in {"connect", "listen"} : Reserve(c, kind)
         \/ Reserved(c)
         \/ \E kind \in {"close", "shutdown", "start"}, id \in given : Request(c, kind, id)
         \/ \E id \in ready, low \in BOOLEAN : Send(c, id, low)
         \/ Look(c) \/ Try(c) \/ Recheck(c) \/ DirectWrite(c) \/ Store(c)
         \/ Inc(c) \/ Push(c)
    \/ NoCommand \/ Open \/ OpenFailed \/ Listen \/ Start
    \/ Close("close") \/ Close("shutdown") \/ Decide
    \/ SendSocket \/ Dec
    \/ SendBuffer \/ SendList \/ AllSent
    \/ EndClose \/ ClearClosed
    \/ Wait
    \/ Skip \/ ReportConnect \/ ReportAccept \/ Read \/ Writable

Spec == Init /\ [][Next]_vars
-----------------------------------------------------------------------------
Requests(id) == {k \in DOMAIN pipe : pipe[k].kind = "send" /\ pipe[k].id = id}
Pushing(id) == {c \in Caller : calling[c].pc = "push" /\ calling[c].id = id}

(* The count of requests to send, which callers raise and the socket       *)
(* thread lowers, is that of the slot's present socket: through closing    *)
(* and reuse of the slot no request of another id is counted or missed, so *)
(* that the assertion of dec_sending_ref holds and `no more data' is told  *)
(* only when no request is on its way; the state keeps its types.  A slot  *)
(* taken from who reserves it may end with two ids, one of which gets its  *)
(* descriptor after requests to send to it have been made: nothing is said *)
(* once that has happened.                                                 *)
SendingCounted ==
    /\ TypeOK
    /\ poll.pc # "abort" /\ ~lost =>
           \A s \in Slot : slot[s].tcp =>
               slot[s].sending = Cardinality(Requests(slot[s].id))
                                 + Cardinality(Pushing(slot[s].id))
                                 + (IF poll.pc = "count" /\ poll.id = slot[s].id
                                    THEN 1 ELSE 0)

(* A socket that has a descriptor and is not being closed                  *)
Live(s) ==
    /\ slot[s].fd \in open /\ slot[s].type \notin {"INVALID", "RESERVE"}
    /\ ~(poll.pc \in {"close", "closeHeld"} /\ poll.s = s)

Total(list) ==
    LET upto[k \in 0..Len(list)] == IF k = 0 THEN 0 ELSE upto[k-1] + list[k].sz
    IN  upto[Len(list)]

(* wb_size is what waits in both lists, whatever mixture of direct writes, *)
(* partial and failed ones filled them: step 4 of send_buffer_ asserts it. *)
BacklogCounted ==
    \A s \in Slot : Live(s) => slot[s].wb_size = Total(slot[s].high) + Total(slot[s].low)

(* Messages of one caller to one socket, none of low priority, are written *)
(* in the order of the calls, some directly and some through the pipe, and *)
(* none before the one ahead of it is done.  A socket that gets its        *)
(* descriptor after requests to send to it have been made does not count   *)
(* them, and a direct write then goes past them: nothing is said once a    *)
(* slot has been taken from who reserves it.                               *)
OwnOrder ==
    ~lost =>
        \A id \in Id : \A j, k \in DOMAIN wire[id] :
            LET a == wire[id][j].msg
                b == wire[id][k].msg
            IN  j < k /\ a.by = b.by /\ ~a.low /\ ~b.low => a.n <= b.n

(* The comment in send_buffer: `blocked by direct write, send later'.  The *)
(* socket thread does not send while a caller writes to the same slot.     *)
BlockedByDirectWrite ==
    \A c \in Caller : calling[c].pc \in {"write", "store"} =>
        ~(poll.pc = "lists" /\ poll.s = HASH_ID(calling[c].id))
=============================================================================
