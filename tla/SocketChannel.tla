---------------------------- MODULE SocketChannel ----------------------------
(***************************************************************************)
(* lualib/snownet/socketchannel.lua in order mode, with what it uses of    *)
(* lualib/snownet/socket.lua: a channel of one Lua service to one server,  *)
(* which connects when somebody asks, sends requests, and pairs the        *)
(* answers with them in the order of sending.                              *)
(*                                                                         *)
(* A coroutine runs until it yields: st says where it goes on, cur which   *)
(* one runs.  Those woken run next, in the order of their waking, then the *)
(* dispatcher if it has been forked, then the next message.                *)
(***************************************************************************)
EXTENDS Integers, Sequences, FiniteSets

CONSTANTS
    Caller,        \* coroutines of the service, each of which calls once
    Does,          \* Does[c]: the functions of the channel it may call
    Two,           \* requests whose response takes two reads
    MaxRefused,    \* bound: connections refused
    Dispatcher,    \* the channel's dispatch thread
    None           \* nil, false; in the request queue, the close signal

Function == {"request", "connect", "close", "changehost"}
Id       == 1..(Cardinality(Caller) + MaxRefused)
Error    == "socket error"

ASSUME SocketChannelAssumption ==
    /\ IsFiniteSet(Caller) /\ MaxRefused \in Nat
    /\ Does \in [Caller -> SUBSET Function] /\ Two \subseteq Caller
    /\ Dispatcher \notin Caller \cup {None} /\ None \notin Caller \cup Id
    /\ Error \notin Caller

VARIABLES
    cur,           \* the coroutine that runs, None for the handler of a message
    ready,         \* the coroutines woken
    st,            \* where each coroutine is or goes on
    on,            \* the socket it opens, reads or closes
    calls,         \* the function a caller has called
    got,           \* what a request has returned: whose answer, or the error
    reading,       \* the request the dispatcher reads for, what it has read
    sock,          \* __sock
    closed,        \* __closed
    pending,       \* __thread, in step with __request
    waiting,       \* __wait_response is set
    connecting,    \* __connecting: who connects, then those who wait for it
    pool,          \* socket_pool, and what its users still hold of an entry
    opened,        \* ids that driver.connect has given out
    strayed,       \* a connection has begun with a queue that was not empty
    server,        \* the state of each socket in the socket thread
    wire,          \* the answers the peer owes, piece by piece
    closing,       \* ids whose driver.close is on its way
    timers,        \* callers asleep between two tries
    inbox          \* the service's messages: socket events and timers

coroutines == <<st, on, calls, got, reading>>
channel    == <<sock, closed, pending, waiting, connecting, strayed>>
world      == <<server, wire, closing, timers, inbox>>
vars       == <<cur, ready, coroutines, channel, pool, opened, world>>

Fresh == [pooled |-> FALSE, connected |-> FALSE, co |-> None, closing |-> None,
          buffer |-> <<>>]

Init ==
    /\ cur = None /\ ready = <<>>
    /\ st = [x \in Caller \cup {Dispatcher} |-> "none"]
    /\ on = [x \in Caller \cup {Dispatcher} |-> None]
    /\ calls = [c \in Caller |-> None] /\ got = [c \in Caller |-> {}]
    /\ reading = [co |-> None, heard |-> {}]
    /\ sock = None /\ closed = FALSE /\ pending = <<>> /\ waiting = FALSE
    /\ connecting = <<>> /\ strayed = FALSE
    /\ pool = [i \in Id |-> Fresh] /\ opened = 0
    /\ server = [i \in Id |-> "none"] /\ wire = [i \in Id |-> <<>>]
    /\ closing = {} /\ timers = {} /\ inbox = <<>>

-----------------------------------------------------------------------------
(* The service's coroutines.                                               *)

(* x runs on at s, or yields to be woken there, or ends.                   *)
GoOn(x, s)  == st' = [st EXCEPT ![x] = s] /\ cur' = x
Yield(x, s) == st' = [st EXCEPT ![x] = s] /\ cur' = None

At(x, s) == cur = x /\ st[x] = s

(* Nothing runs, except that a caller whose call is over may call again or *)
(* end: c stands for its next call.                                        *)
Over == cur = None \/ (cur \in Caller /\ st[cur] = "done")
Idle == Over /\ ready = <<>> /\ st[Dispatcher] # "forked"

Resume ==
    /\ Over /\ ready # <<>>
    /\ cur' = Head(ready) /\ ready' = Tail(ready)
    /\ UNCHANGED <<coroutines, channel, pool, opened, world>>

RunFork ==
    /\ Over /\ ready = <<>> /\ st[Dispatcher] = "forked"
    /\ GoOn(Dispatcher, "loop")
    /\ UNCHANGED <<ready, on, calls, got, reading, channel, pool, opened, world>>

-----------------------------------------------------------------------------
(* socket.lua.                                                             *)

(* The entry leaves the pool, its buffer emptied.                          *)
Dropped(i) == [pool EXCEPT ![i].pooled = FALSE, ![i].connected = FALSE,
                           ![i].buffer = <<>>]

Woken(i) == IF pool[i].co = None THEN ready ELSE Append(ready, pool[i].co)

(* close_channel_socket and socket.close, by x, which goes on at s: a      *)
(* connected socket is waited for, behind its reader if it has one.        *)
CloseSocket(x, s) ==
    /\ sock' = None
    /\ \/ /\ sock = None
          /\ GoOn(x, s) /\ UNCHANGED <<on, pool, closing>>
       \/ /\ sock # None /\ ~pool[sock].connected
          /\ pool' = Dropped(sock)
          /\ GoOn(x, s) /\ UNCHANGED <<on, closing>>
       \/ /\ sock # None /\ pool[sock].connected
          /\ closing' = closing \cup {sock}
          /\ pool' = IF pool[sock].co = None THEN [pool EXCEPT ![sock].co = x]
                                             ELSE [pool EXCEPT ![sock].closing = x]
          /\ on' = [on EXCEPT ![x] = sock] /\ Yield(x, s)

(* What socket.close does when it goes on.                                 *)
EndClose(x) ==
    /\ pool' = IF on[x] = None THEN pool ELSE Dropped(on[x])
    /\ on' = [on EXCEPT ![x] = None]

(* socket_message: data wakes a reader, the others whoever is suspended.   *)
(* A connection's end, by the peer or by an error, is a close.             *)
Receive(type) == Idle /\ inbox # <<>> /\ Head(inbox)[1] = type

Handled == inbox' = Tail(inbox) /\ cur' = None

Event(type, connected) ==
    /\ Receive(type)
    /\ LET i == Head(inbox)[2]
       IN  IF pool[i].pooled
           THEN /\ pool' = [pool EXCEPT ![i].connected = connected, ![i].co = None]
                /\ ready' = Woken(i)
           ELSE UNCHANGED <<pool, ready>>
    /\ Handled
    /\ UNCHANGED <<coroutines, channel, opened, server, wire, closing, timers>>

ReceiveConnect == Event("connect", TRUE)
ReceiveClose   == Event("close", FALSE)

ReceiveData ==
    /\ Receive("data")
    /\ LET i == Head(inbox)[2]
           reader == pool[i].co = Dispatcher /\ st[Dispatcher] = "got"
       IN  IF pool[i].pooled
           THEN /\ pool' = [pool EXCEPT ![i].buffer = Append(@, Head(inbox)[3]),
                                        ![i].co = IF reader THEN None ELSE @]
                /\ ready' = IF reader THEN Woken(i) ELSE ready
           ELSE UNCHANGED <<pool, ready>>
    /\ Handled
    /\ UNCHANGED <<coroutines, channel, opened, server, wire, closing, timers>>

ReceiveTimer ==
    /\ Receive("timer")
    /\ ready' = Append(ready, Head(inbox)[2])
    /\ Handled
    /\ UNCHANGED <<coroutines, channel, pool, opened, server, wire, closing, timers>>

-----------------------------------------------------------------------------
(* The queue of requests.                                                  *)

(* push_response *)
Push(entry) ==
    /\ pending' = Append(pending, entry)
    /\ ready' = IF waiting THEN Append(ready, Dispatcher) ELSE ready
    /\ waiting' = FALSE

(* term_dispatch_thread *)
Signal == IF st[Dispatcher] # "none" THEN Push(None)
                                     ELSE UNCHANGED <<pending, ready, waiting>>

(* Whoever waits in the queue; the close signal has nobody to wake.        *)
Waiters == SelectSeq(pending, LAMBDA c : c # None)

(* wakeup_all, after those in first have been woken with an error too.     *)
WakeAll(first) ==
    LET woken == first \o Waiters
    IN  /\ pending' = <<>>
        /\ ready' = ready \o woken
        /\ got' = [c \in Caller |-> IF \E k \in DOMAIN woken : woken[k] = c
                                    THEN {Error} ELSE got[c]]

-----------------------------------------------------------------------------
(* Callers.                                                                *)

(* channel:request and channel:connect go to block_connect.                *)
Call(c) ==
    /\ Idle \/ (cur \in Caller /\ st[cur] = "done")
    /\ calls[c] = None
    /\ \E f \in Does[c] :
          /\ calls' = [calls EXCEPT ![c] = f]
          /\ closed' = (closed /\ f # "connect")
          /\ GoOn(c, IF f \in {"request", "connect"} THEN "check" ELSE "end")
    /\ UNCHANGED <<ready, on, got, reading, sock, pending, waiting, connecting,
                   strayed, pool, opened, world>>

(* channel:close *)
Close(c) ==
    /\ At(c, "end") /\ calls[c] = "close"
    /\ IF closed THEN GoOn(c, "ended") /\ UNCHANGED <<ready, on, channel, pool, closing>>
       ELSE /\ Signal
            /\ closed' = TRUE
            /\ CloseSocket(c, "ended")
            /\ UNCHANGED <<connecting, strayed>>
    /\ UNCHANGED <<calls, got, reading, opened, server, wire, timers, inbox>>

(* channel:changehost *)
ChangeHost(c) ==
    /\ At(c, "end") /\ calls[c] = "changehost"
    /\ IF closed THEN GoOn(c, "ended") /\ UNCHANGED <<on, sock, pool, closing>>
                 ELSE CloseSocket(c, "ended")
    /\ UNCHANGED <<ready, calls, got, reading, closed, pending, waiting, connecting,
                   strayed, opened, server, wire, timers, inbox>>

Ended(c) ==
    /\ At(c, "ended")
    /\ EndClose(c) /\ GoOn(c, "done")
    /\ UNCHANGED <<ready, calls, got, reading, channel, opened, world>>

(* check_connection *)
Connected    == sock # None /\ pool[sock].connected
Disconnected == sock # None /\ ~pool[sock].connected

(* block_connect has found a socket.                                       *)
Found(c) == GoOn(c, IF calls[c] = "request" THEN "send" ELSE "done")

(* A call fails.                                                           *)
Fails(c) ==
    /\ got' = IF calls[c] = "request" THEN [got EXCEPT ![c] = {Error}] ELSE got
    /\ GoOn(c, "done")

Check(c) ==
    /\ At(c, "check")
    /\ \/ /\ Connected
          /\ Found(c) /\ UNCHANGED <<on, got, sock, pool, closing>>
       \/ /\ Disconnected
          /\ CloseSocket(c, "seek") /\ UNCHANGED got
       \/ /\ sock = None /\ closed
          /\ Fails(c) /\ UNCHANGED <<on, sock, pool, closing>>
       \/ /\ sock = None /\ ~closed
          /\ GoOn(c, "seek") /\ UNCHANGED <<on, got, sock, pool, closing>>
    /\ UNCHANGED <<ready, calls, reading, closed, pending, waiting, connecting,
                   strayed, opened, server, wire, timers, inbox>>

(* block_connect without a socket: connect, or wait for who does.          *)
Seeks(c, alone) ==
    /\ At(c, "seek")
    /\ connecting' = Append(connecting, c)
    /\ IF alone THEN GoOn(c, "try") ELSE Yield(c, "found")
    /\ UNCHANGED <<ready, on, calls, got, reading, sock, closed, pending, waiting,
                   strayed, pool, opened, world>>

SeekUnchecked(c) == Seeks(c, TRUE)                   \* mutant of Seek
Seek(c)          == Seeks(c, connecting = <<>>)

(* try_connect, connect_once, socket.open: the dispatcher of the last      *)
(* connection is told to end.                                              *)
Try(c) ==
    /\ At(c, "try")
    /\ \/ /\ closed
          /\ GoOn(c, "finish")
          /\ UNCHANGED <<ready, on, pending, waiting, pool, opened, server>>
       \/ /\ ~closed
          /\ Signal
          /\ opened' = opened + 1
          /\ server' = [server EXCEPT ![opened'] = "opening"]
          /\ pool' = [pool EXCEPT ![opened'] = [Fresh EXCEPT !.pooled = TRUE, !.co = c]]
          /\ on' = [on EXCEPT ![c] = opened']
          /\ Yield(c, "opened")
    /\ UNCHANGED <<calls, got, reading, sock, closed, connecting, strayed, wire,
                   closing, timers, inbox>>

(* A request tries once; connect tries again after a while.                *)
Opened(c) ==
    /\ At(c, "opened")
    /\ \/ /\ pool[on[c]].connected
          /\ GoOn(c, "establish") /\ UNCHANGED <<on, pool, timers>>
       \/ /\ ~pool[on[c]].connected
          /\ pool' = Dropped(on[c]) /\ on' = [on EXCEPT ![c] = None]
          /\ IF calls[c] = "request"
             THEN GoOn(c, "finish") /\ UNCHANGED timers
             ELSE Yield(c, "try") /\ timers' = timers \cup {c}
    /\ UNCHANGED <<ready, calls, got, reading, channel, opened, server, wire,
                   closing, inbox>>

(* connect_once yields until the last dispatcher has ended, sets __sock    *)
(* and forks the next.                                                     *)
Establish(c) ==
    /\ At(c, "establish")
    /\ \/ /\ st[Dispatcher] # "none"
          /\ inbox' = Append(inbox, <<"timer", c>>)
          /\ Yield(c, "establish") /\ UNCHANGED <<on, sock, strayed>>
       \/ /\ st[Dispatcher] = "none"
          /\ sock' = on[c] /\ on' = [on EXCEPT ![c] = None]
          /\ st' = [st EXCEPT ![c] = "finish", ![Dispatcher] = "forked"]
          /\ strayed' = (strayed \/ pending # <<>>)
          /\ cur' = c /\ UNCHANGED inbox
    /\ UNCHANGED <<ready, calls, got, reading, closed, pending, waiting, connecting,
                   pool, opened, server, wire, closing, timers>>

(* block_connect wakes those who wait ...                                  *)
Finish(c) ==
    /\ At(c, "finish")
    /\ ready' = ready \o Tail(connecting) /\ connecting' = <<>>
    /\ GoOn(c, "found")
    /\ UNCHANGED <<on, calls, got, reading, sock, closed, pending, waiting, strayed,
                   pool, opened, world>>

(* ... and everybody looks at the connection again.                        *)
CheckAgain(c) ==
    /\ At(c, "found")
    /\ IF Connected THEN Found(c) /\ UNCHANGED <<got, sock, pool>>
       ELSE /\ Fails(c)
            /\ sock' = None
            /\ pool' = IF sock = None THEN pool ELSE Dropped(sock)
    /\ UNCHANGED <<ready, on, calls, reading, closed, pending, waiting, connecting,
                   strayed, opened, world>>

(* channel:request: the write fails on a socket that the socket thread has *)
(* closed, whose close the service has not seen yet.                       *)
Send(c) ==
    /\ At(c, "send")
    /\ \/ /\ server[sock] = "open"
          /\ wire' = [wire EXCEPT ![sock] = @ \o
                         IF c \in Two THEN <<[of |-> c, last |-> FALSE],
                                            [of |-> c, last |-> TRUE]>>
                                      ELSE <<[of |-> c, last |-> TRUE]>>]
          /\ Push(c)
          /\ Yield(c, "answered")
          /\ UNCHANGED <<on, got, sock, pool, closing>>
       \/ /\ server[sock] # "open"
          /\ got' = [got EXCEPT ![c] = {Error}]
          /\ CloseSocket(c, "failed")
          /\ UNCHANGED <<ready, pending, waiting, wire>>
    /\ UNCHANGED <<calls, reading, closed, connecting, strayed, opened, server,
                   timers, inbox>>

(* sock_err *)
Failed(c) ==
    /\ At(c, "failed")
    /\ EndClose(c) /\ WakeAll(<<>>) /\ GoOn(c, "done")
    /\ UNCHANGED <<calls, reading, sock, closed, waiting, connecting, strayed,
                   opened, world>>

(* wait_for_response *)
Answered(c) ==
    /\ At(c, "answered")
    /\ GoOn(c, "done")
    /\ UNCHANGED <<ready, on, calls, got, reading, channel, pool, opened, world>>

-----------------------------------------------------------------------------
(* dispatch_by_order.                                                      *)

Ends == st' = [st EXCEPT ![Dispatcher] = "none"] /\ cur' = None

Loop ==
    /\ At(Dispatcher, "loop")
    /\ IF sock = None THEN Ends ELSE GoOn(Dispatcher, "pop")
    /\ UNCHANGED <<ready, on, calls, got, reading, channel, pool, opened, world>>

(* pop_response; the response function gets the socket there is by then.   *)
Pop ==
    /\ At(Dispatcher, "pop")
    /\ \/ /\ pending = <<>>
          /\ waiting' = TRUE /\ Yield(Dispatcher, "pop")
          /\ UNCHANGED <<ready, on, got, reading, pending>>
       \/ /\ pending # <<>> /\ Head(pending) = None
          /\ WakeAll(<<>>) /\ Ends
          /\ UNCHANGED <<on, reading, waiting>>
       \/ /\ pending # <<>> /\ Head(pending) # None
          /\ pending' = Tail(pending)
          /\ reading' = [co |-> Head(pending), heard |-> {}]
          /\ on' = [on EXCEPT ![Dispatcher] = sock]
          /\ GoOn(Dispatcher, IF sock = None THEN "fail" ELSE "read")
          /\ UNCHANGED <<ready, got, waiting>>
    /\ UNCHANGED <<calls, sock, closed, connecting, strayed, pool, opened, world>>

(* socket.read by the response function.                                   *)
Read ==
    /\ At(Dispatcher, "read")
    /\ LET s == pool[on[Dispatcher]]
       IN  IF s.buffer # <<>> \/ ~s.connected
           THEN GoOn(Dispatcher, "take") /\ UNCHANGED pool
           ELSE /\ pool' = [pool EXCEPT ![on[Dispatcher]].co = Dispatcher]
                /\ Yield(Dispatcher, "got")
    /\ UNCHANGED <<ready, on, calls, got, reading, channel, opened, world>>

(* suspend wakes who waits to close the socket ...                         *)
Gets(closer) ==
    /\ At(Dispatcher, "got")
    /\ ready' = IF closer = None THEN ready ELSE Append(ready, closer)
    /\ GoOn(Dispatcher, "take")
    /\ UNCHANGED <<on, calls, got, reading, channel, pool, opened, world>>

GotQuietly == Gets(None)                             \* mutant of Got
Got        == Gets(pool[on[Dispatcher]].closing)

(* get_response reads on while there is padding.                           *)
CompleteAtOnce(piece) == TRUE                        \* mutant of Complete
Complete(piece) == piece.last

(* ... and the read returns what there is.  The response function reads on *)
(* as the answer says, or raises an error over it.                         *)
Take ==
    /\ At(Dispatcher, "take")
    /\ LET s == pool[on[Dispatcher]]
       IN  \/ /\ on' = [on EXCEPT ![Dispatcher] = None]
              /\ GoOn(Dispatcher, "fail")
              /\ UNCHANGED <<pool, reading>>
           \/ /\ s.buffer # <<>>
              /\ pool' = [pool EXCEPT ![on[Dispatcher]].buffer = Tail(@)]
              /\ reading' = [reading EXCEPT !.heard = @ \cup {Head(s.buffer).of}]
              /\ GoOn(Dispatcher, IF Complete(Head(s.buffer)) THEN "deliver" ELSE "read")
              /\ UNCHANGED on
    /\ UNCHANGED <<ready, calls, got, channel, opened, world>>

Deliver ==
    /\ At(Dispatcher, "deliver")
    /\ got' = [got EXCEPT ![reading.co] = reading.heard]
    /\ ready' = Append(ready, reading.co)
    /\ reading' = [co |-> None, heard |-> {}]
    /\ on' = [on EXCEPT ![Dispatcher] = None]
    /\ GoOn(Dispatcher, "loop")
    /\ UNCHANGED <<calls, channel, pool, opened, world>>

(* The response function has raised an error.                              *)
Fail ==
    /\ At(Dispatcher, "fail")
    /\ CloseSocket(Dispatcher, "broken")
    /\ UNCHANGED <<ready, calls, got, reading, closed, pending, waiting, connecting,
                   strayed, opened, server, wire, timers, inbox>>

Broken ==
    /\ At(Dispatcher, "broken")
    /\ EndClose(Dispatcher) /\ WakeAll(<<reading.co>>)
    /\ reading' = [co |-> None, heard |-> {}]
    /\ GoOn(Dispatcher, "loop")
    /\ UNCHANGED <<calls, sock, closed, waiting, connecting, strayed, opened, world>>

-----------------------------------------------------------------------------
(* The socket thread, the peer and the timer.                              *)

Post(message) == inbox' = Append(inbox, message)

outside == <<cur, ready, coroutines, channel, pool, opened>>

Accept(i) ==
    /\ server[i] = "opening"
    /\ server' = [server EXCEPT ![i] = "open"]
    /\ Post(<<"connect", i>>)
    /\ UNCHANGED <<outside, wire, closing, timers>>

Refuse(i) ==
    /\ server[i] = "opening"
    /\ Cardinality({j \in Id : server[j] = "refused"}) < MaxRefused
    /\ server' = [server EXCEPT ![i] = "refused"]
    /\ Post(<<"close", i>>)
    /\ UNCHANGED <<outside, wire, closing, timers>>

Reply(i) ==
    /\ server[i] = "open" /\ wire[i] # <<>>
    /\ wire' = [wire EXCEPT ![i] = Tail(@)]
    /\ Post(<<"data", i, Head(wire[i])>>)
    /\ UNCHANGED <<outside, server, closing, timers>>

(* The connection ends on either side, or breaks.                          *)
ConnectionEnds(i) ==
    /\ server' = [server EXCEPT ![i] = "closed"]
    /\ wire' = [wire EXCEPT ![i] = <<>>]
    /\ Post(<<"close", i>>)
    /\ UNCHANGED <<outside, timers>>

PeerCloses(i) == server[i] = "open" /\ ConnectionEnds(i) /\ UNCHANGED closing

(* A close request is answered by a close, also when the socket is closed. *)
CloseRequest(i) ==
    /\ i \in closing /\ closing' = closing \ {i}
    /\ ConnectionEnds(i)

TimerFires(c) ==
    /\ c \in timers /\ timers' = timers \ {c}
    /\ Post(<<"timer", c>>)
    /\ UNCHANGED <<outside, server, wire, closing>>

-----------------------------------------------------------------------------

Channel(c) ==
    \/ Close(c) \/ ChangeHost(c) \/ Ended(c) \/ Check(c) \/ Seek(c) \/ Try(c)
    \/ Opened(c) \/ Establish(c) \/ Finish(c) \/ CheckAgain(c) \/ Send(c)
    \/ Failed(c) \/ Answered(c)

Dispatch == Loop \/ Pop \/ Read \/ Got \/ Take \/ Deliver \/ Fail \/ Broken

Service == Resume \/ RunFork \/ ReceiveConnect \/ ReceiveClose \/ ReceiveData
        \/ ReceiveTimer \/ (\E c \in Caller : Channel(c)) \/ Dispatch

Next ==
    \/ Service
    \/ \E c \in Caller : Call(c) \/ TimerFires(c)
    \/ \E i \in Id : Accept(i) \/ Refuse(i) \/ Reply(i) \/ PeerCloses(i)
                    \/ CloseRequest(i)

Spec == Init /\ [][Next]_vars

(* A peer that owes an answer gives it or closes; one that owes nothing    *)
(* may leave its connection open for ever.                                 *)
Honours(i) == wire[i] # <<>> /\ (Reply(i) \/ PeerCloses(i))

(* The service's thread runs on and its messages are dispatched; a connect *)
(* ends, peers honour requests, close requests and timers are served.      *)
FairSpec ==
    /\ Spec /\ WF_vars(Service)
    /\ \A i \in Id : /\ WF_vars(Accept(i) \/ Refuse(i))
                     /\ WF_vars(Honours(i))
                     /\ WF_vars(CloseRequest(i))
    /\ \A c \in Caller : WF_vars(TimerFires(c))

-----------------------------------------------------------------------------
(* The types, and the places where a coroutine may be.                     *)
Place == {"none", "check", "seek", "try", "opened", "establish", "finish", "found",
          "send", "answered", "failed", "end", "ended", "done"}
DispatcherPlace == {"none", "forked", "loop", "pop", "read", "got", "take", "deliver",
                    "fail", "broken"}

Piece == [of : Caller, last : BOOLEAN]
Message == ({"connect", "close"} \X Id) \cup ({"data"} \X Id \X Piece)
           \cup ({"timer"} \X Caller)

TypeOK ==
    /\ cur \in Caller \cup {Dispatcher, None}
    /\ ready \in Seq(Caller \cup {Dispatcher})
    /\ DOMAIN st = Caller \cup {Dispatcher}
    /\ \A c \in Caller : st[c] \in Place
    /\ st[Dispatcher] \in DispatcherPlace
    /\ on \in [Caller \cup {Dispatcher} -> Id \cup {None}]
    /\ calls \in [Caller -> Function \cup {None}]
    /\ got \in [Caller -> SUBSET (Caller \cup {Error})]
    /\ reading \in [co : Caller \cup {None}, heard : SUBSET Caller]
    /\ sock \in Id \cup {None}
    /\ {closed, waiting, strayed} \subseteq BOOLEAN
    /\ pending \in Seq(Caller \cup {None}) /\ connecting \in Seq(Caller)
    /\ pool \in [Id -> [pooled : BOOLEAN, connected : BOOLEAN,
                        co : Caller \cup {Dispatcher, None},
                        closing : Caller \cup {Dispatcher, None}, buffer : Seq(Piece)]]
    /\ opened \in Id \cup {0}
    /\ server \in [Id -> {"none", "opening", "open", "refused", "closed"}]
    /\ wire \in [Id -> Seq(Piece)]
    /\ closing \subseteq Id /\ timers \subseteq Caller /\ inbox \in Seq(Message)

(* A request returns its own answer, whole, or the socket error, however   *)
(* connections break and the channel is closed, moved and reconnected; the *)
(* one exception is a connection that begins with a queue its dispatcher   *)
(* has not emptied.                                                        *)
OwnAnswer == strayed \/ \A c \in Caller : got[c] \in {{}, {c}, {Error}}

(* The assertions of connect_once, socket.close and suspend, which pcall   *)
(* would swallow in part: while the channel has a socket nobody connects,  *)
(* nobody closes it, and nobody but the dispatcher is suspended on it; the *)
(* state keeps its types.                                                  *)
Exclusive ==
    /\ TypeOK
    /\ sock # None =>
           /\ pool[sock].pooled
           /\ pool[sock].closing = None /\ pool[sock].co \in {None, Dispatcher}
           /\ \A c \in Caller : st[c] \notin {"try", "opened", "establish"}

(* A reader that waits for a socket which has left the pool is never woken *)
(* and its channel never connects again: suspend has woken who closes the  *)
(* socket before the second read of one answer.                            *)
Abandoned == Idle /\ st[Dispatcher] = "got" /\ ~pool[on[Dispatcher]].pooled

(* A dispatcher that reads an answer while the channel loses its socket    *)
(* ends with the rest of the queue in place, and nobody wakes those in it. *)
Forsaken ==
    /\ Idle /\ sock = None /\ st[Dispatcher] = "none" /\ pending # <<>>
    /\ \A c \in Caller : st[c] # "failed"

(* The code does not keep all that its first comment promises, to capture  *)
(* socket errors in a request: a request can be lost in the two ways       *)
(* above, and a connection that begins with the queue of the last (strayed)*)
(* may answer with another's.  But for these three every call ends: with   *)
(* the peer's answer or the close of a peer that owes one, with the end of *)
(* a connect, with the turn of those that wait for each other; an idle     *)
(* connection that stays open wakes nobody and keeps nobody.               *)
CallsEnd ==
    \A c \in Caller :
        calls[c] # None ~> st[c] = "done" \/ strayed \/ Abandoned \/ Forsaken
==============================================================================
