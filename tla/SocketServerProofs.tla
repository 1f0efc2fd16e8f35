------------------------- MODULE SocketServerProofs -------------------------
(***************************************************************************)
(* Proofs about SocketServer, for every number of slots, callers, ids and  *)
(* calls and every size of a message:                                      *)
(*                                                                         *)
(*   ShapeHolds           the state keeps its types and its slots;         *)
(*   SendingIsCounted     the requests that are on their way to a socket   *)
(*                        are counted right, unless a slot has been taken  *)
(*                        from who was reserving it;                       *)
(*   BacklogIsCounted     the size of what waits to be written is that of  *)
(*                        both lists;                                      *)
(*   OwnOrderHolds        the messages of a caller to a socket are written *)
(*                        in the order of its calls, as long as no slot    *)
(*                        has been taken so.                               *)
(*                                                                         *)
(* The first two rest on how an id comes to be: a caller that has reserved *)
(* a slot, or its request to connect or listen, holds the slot alone and   *)
(* under type RESERVE until the socket thread makes the descriptor, and    *)
(* until then nobody has been told that it may send to the id.             *)
(* The last rests on the line of a socket: what is written, what waits in  *)
(* its slot, what is asked for and what callers write at the moment come   *)
(* in this order, and a caller's message in hand is its latest.            *)
(***************************************************************************)
EXTENDS SocketServer, FiniteSetTheorems, WellFoundedInduction, TLAPS

Plain == [kind : {"connect", "listen", "close", "shutdown", "start"}, id : Id]
ToSend == [kind : {"send"}, id : Id, msg : Message]

(* Requests are about ids that a service has, to send about open ones.     *)
PipeOK ==
    /\ pipe \in Seq(Plain \cup ToSend)
    /\ \A k \in DOMAIN pipe :
           pipe[k].id \in given /\ (pipe[k].kind = "send" => pipe[k].id \in ready)

Calling ==
    {Idle} \cup [pc : {"reserved"}, kind : {"connect", "listen"}, id : Id]
           \cup [pc : {"look", "try", "recheck", "write", "inc", "push"},
                 id : Id, msg : Message]
           \cup [pc : {"store"}, id : Id, rest : Buffer]

CallingOK ==
    /\ calling \in [Caller -> Calling]
    /\ \A c \in Caller : calling[c].pc \notin {"idle", "reserved"} => calling[c].id \in ready
    /\ \A c \in Caller : calling[c].pc = "reserved" => calling[c].id <= alloc_id

(* What the socket thread is at work on: a slot, which nobody frees under  *)
(* it, and that of an id when it can end half closed.                      *)
PollOK ==
    /\ poll.pc \in {"count", "sendbuf", "lists", "decide", "close", "closeHeld", "reopen"} =>
           poll.s \in Slot
    /\ poll.pc = "count" => poll.id \in ready /\ poll.s = HASH_ID(poll.id)
    /\ poll.pc \in {"sendbuf", "lists", "decide"} => slot[poll.s].type # "INVALID"
    /\ poll.pc \in {"sendbuf", "decide"} => poll.by \in {"close", "shutdown"}
    /\ poll.pc = "lists" => poll.by \in {"event", "close", "shutdown"}
    /\ poll.pc \in {"sendbuf", "lists", "decide"} /\ poll.by # "event" =>
           slot[poll.s].id \in given
    /\ poll.pc \in {"close", "closeHeld"} => slot[poll.s].type \notin {"INVALID", "RESERVE"}

SlotOK(s) ==
    /\ slot[s].id # 0 => slot[s].id \in given /\ HASH_ID(slot[s].id) = s
    /\ slot[s].fd # 0 => slot[s].fd <= alloc_id /\ HASH_ID(slot[s].fd) = s
    /\ slot[s].type \notin {"INVALID", "RESERVE"} => slot[s].id # 0
    /\ slot[s].tcp => slot[s].id # 0 /\ slot[s].tag = ID_TAG16(slot[s].id)

KnownOK ==
    /\ \A id \in given : id <= alloc_id
    /\ \A id \in open : id <= alloc_id

Opens(r) == r.kind \in {"connect", "listen"}
Reserves(c) == calling[c].pc = "reserved"

(* While the socket thread has not taken a slot from who reserves it: an   *)
(* id without a descriptor is with one caller or in one request, alone on  *)
(* its slot, and nobody has been told to use it.                           *)
FreshOK ==
    /\ \A c \in Caller : Reserves(c) =>
           slot[HASH_ID(calling[c].id)].type = "RESERVE" /\ calling[c].id \notin given
    /\ \A k \in DOMAIN pipe : Opens(pipe[k]) =>
           slot[HASH_ID(pipe[k].id)].type = "RESERVE" /\ pipe[k].id \notin ready
    /\ \A c, d \in Caller : Reserves(c) /\ Reserves(d)
           /\ HASH_ID(calling[c].id) = HASH_ID(calling[d].id) => c = d
    /\ \A k, l \in DOMAIN pipe : Opens(pipe[k]) /\ Opens(pipe[l])
           /\ HASH_ID(pipe[k].id) = HASH_ID(pipe[l].id) => k = l
    /\ \A c \in Caller, k \in DOMAIN pipe : Reserves(c) /\ Opens(pipe[k]) =>
           HASH_ID(calling[c].id) # HASH_ID(pipe[k].id)

OnItsWay(id) ==
    Cardinality(Requests(id)) + Cardinality(Pushing(id))
        + (IF poll.pc = "count" /\ poll.id = id THEN 1 ELSE 0)

CountOK(s) == slot[s].tcp => slot[s].sending = OnItsWay(slot[s].id)

Sound == poll.pc # "abort" /\ ~lost

(* What holds of the state in any case, and what does while it is sound    *)
Shape ==
    /\ TypeOK /\ PipeOK /\ CallingOK /\ PollOK /\ KnownOK
    /\ \A s \in Slot : SlotOK(s)

IInv ==
    /\ Shape
    /\ Sound => FreshOK /\ \A s \in Slot : CountOK(s)

(* The backlog of a slot whose descriptor is open and not being closed     *)
BacklogOK(s) ==
    slot[s].fd \in open /\ ~(poll.pc \in {"close", "closeHeld"} /\ poll.s = s) =>
        slot[s].wb_size = Total(slot[s].high) + Total(slot[s].low)

BInv == \A s \in Slot : BacklogOK(s)
-----------------------------------------------------------------------------
(* Slots and ids                                                           *)

(* Every id has its slot and tag.                                          *)
LEMMA HashInSlot == \A id \in Id : HASH_ID(id) \in Slot /\ ID_TAG16(id) \in Nat
  BY SocketAssumption DEF Id, Slot, HASH_ID, ID_TAG16

(* An id is told by its slot and tag: the tag of inc_sending_ref is enough *)
(* to recognise a socket that has the slot no more.                        *)
LEMMA HashAndTag ==
  \A i, j \in Id : HASH_ID(i) = HASH_ID(j) /\ ID_TAG16(i) = ID_TAG16(j) => i = j
<1> SUFFICES ASSUME NEW i \in Id, NEW j \in Id,
                    HASH_ID(i) = HASH_ID(j), ID_TAG16(i) = ID_TAG16(j)
             PROVE  i = j
  OBVIOUS
<1>1. i = MAX_SOCKET * ID_TAG16(i) + HASH_ID(i)
  BY SocketAssumption DEF Id, HASH_ID, ID_TAG16
<1>2. j = MAX_SOCKET * ID_TAG16(j) + HASH_ID(j)
  BY SocketAssumption DEF Id, HASH_ID, ID_TAG16
<1> QED
  BY <1>1, <1>2

(* A set of naturals has a least member.                                   *)
LEMMA LeastNat ==
  ASSUME NEW T, T \subseteq Nat, T # {}
  PROVE  \E x \in T : \A y \in T : x <= y
<1> DEFINE R == OpToRel(<, Nat)
<1>1. \A a, b \in Nat : <<a, b>> \in R <=> a < b
  BY DEF OpToRel
<1>2. IsWellFoundedOn(R, Nat)
  BY NatLessThanWellFounded, Zenon
<1> HIDE DEF R
<1>3. PICK x \in T : \A y \in T : ~(<<y, x>> \in R)
  BY <1>2, WFMin
<1>4. \A y \in T : ~(y < x)
  BY <1>1, <1>3
<1> QED
  BY <1>4

(* reserve_id gives out an id larger than all before, of a free slot.      *)
LEMMA ReservableIsNew ==
  ASSUME TypeOK, Reservable \in Id
  PROVE  /\ Reservable > alloc_id
         /\ HASH_ID(Reservable) \in Slot
         /\ slot[HASH_ID(Reservable)].type = "INVALID"
<1> DEFINE free == {id \in alloc_id+1..alloc_id+MAX_SOCKET : slot[HASH_ID(id)].type = "INVALID"}
<1>1. alloc_id \in Nat
  BY SocketAssumption DEF TypeOK, Id
<1>2. free # {}
  BY SocketAssumption DEF Reservable, Id
<1>3. free \subseteq Nat
  BY <1>1, SocketAssumption
<1>4. \E id \in free : \A j \in free : id <= j
  BY <1>2, <1>3, LeastNat
<1>5. Reservable = CHOOSE id \in free : \A j \in free : id <= j
  BY <1>2 DEF Reservable
<1> HIDE DEF free
<1>6. Reservable \in free
  BY <1>4, <1>5
<1> QED
  BY <1>1, <1>6, HashInSlot, SocketAssumption DEF free

(* One slot is written.                                                    *)
LEMMA OneSlot ==
  ASSUME slot \in [Slot -> Socket], NEW s \in Slot, NEW r \in Socket,
         slot' = [slot EXCEPT ![s] = r]
  PROVE  /\ slot' \in [Slot -> Socket]
         /\ slot'[s] = r
         /\ \A t \in Slot : t # s => slot'[t] = slot[t]
  OBVIOUS
(* A message, what is left of it and what a failed write leaves are        *)
(* buffers.                                                                *)
LEMMA WholeIsBuffer == \A msg \in Message : Whole(msg) \in Buffer
  BY SocketAssumption DEF Whole, Buffer

LEMMA WrittenIsBuffer ==
  ASSUME NEW buf \in Buffer, NEW n \in Int, n < buf.sz
  PROVE  Written(buf, n) \in Buffer /\ Written(buf, n).sz = buf.sz - n
<1>1. /\ buf \in [msg : Message, ptr : Int, sz : Nat \ {0}]
      /\ buf.ptr + buf.sz = Size /\ buf.sz \in Nat \ {0} /\ buf.ptr \in Int
  BY DEF Buffer
<1>2. buf.sz - n \in Nat \ {0} /\ buf.ptr + n \in Int /\ buf.ptr + n + (buf.sz - n) = Size
  BY <1>1
<1>3. /\ Written(buf, n) \in [msg : Message, ptr : Int, sz : Nat \ {0}]
      /\ Written(buf, n).ptr = buf.ptr + n /\ Written(buf, n).sz = buf.sz - n
  BY <1>1, <1>2 DEF Written
<1> QED
  BY <1>2, <1>3 DEF Buffer

(* The backlog of a slot is any number.                                    *)
LEMMA BacklogField ==
  ASSUME NEW r \in Socket, NEW z \in Int
  PROVE  [r EXCEPT !.wb_size = z] \in Socket
  BY DEF Socket

(* So is the count of requests, but not below zero.                        *)
LEMMA SendingField ==
  ASSUME NEW r \in Socket, NEW n \in Nat
  PROVE  LET q == [r EXCEPT !.sending = n]
         IN  /\ q \in Socket /\ q.sending = n
             /\ q.type = r.type /\ q.id = r.id /\ q.fd = r.fd /\ q.tcp = r.tcp /\ q.tag = r.tag
             /\ q.high = r.high /\ q.low = r.low /\ q.wb_size = r.wb_size
  BY DEF Socket

(* The lists of a slot take any buffers, its watch either event.           *)
Holds(r, h, l, w) == [r EXCEPT !.high = h, !.low = l, !.watch = w]

LEMMA ListsField ==
  ASSUME NEW r \in Socket, NEW h \in Seq(Buffer), NEW l \in Seq(Buffer),
         NEW w \in SUBSET {"read", "write"}
  PROVE  LET q == Holds(r, h, l, w)
         IN  /\ q \in Socket
             /\ q.type = r.type /\ q.id = r.id /\ q.fd = r.fd /\ q.tcp = r.tcp /\ q.tag = r.tag
             /\ q.sending = r.sending /\ q.wb_size = r.wb_size
             /\ q.high = h /\ q.low = l
  BY DEF Holds, Socket

(* new_fd's record is a slot's.                                            *)
LEMMA NewFdIsSocket ==
  ASSUME NEW s \in Slot, slot[s] \in Socket, NEW id \in Id, NEW type \in Types,
         NEW watch \in SUBSET {"read", "write"},
         NEW r, r = NewFd(s, id, type, watch)
  PROVE  /\ r \in Socket
         /\ r.type = type /\ r.id = id /\ r.fd = id /\ r.tcp
         /\ r.tag = ID_TAG16(id) /\ r.sending = 0 /\ r.wb_size = 0
         /\ r.high = slot[s].high /\ r.low = slot[s].low
<1>1. ID_TAG16(id) \in Nat /\ id \in {0} \cup Id
  BY HashInSlot
<1>2. slot[s] \in Socket
  OBVIOUS
<1>3. NewFd(s, id, type, watch) \in Socket
  <2> DEFINE r1 == [slot[s] EXCEPT !.id = id, !.fd = id, !.tcp = TRUE]
             r2 == [r1 EXCEPT !.tag = ID_TAG16(id), !.sending = 0]
             r3 == [r2 EXCEPT !.wb_size = 0]
             r4 == [r3 EXCEPT !.dw = None, !.type = type, !.watch = watch]
  <2>1. r1 \in Socket
    BY <1>1, <1>2 DEF Socket
  <2> HIDE DEF r1
  <2>2. r2 \in Socket
    BY <1>1, <2>1 DEF Socket
  <2> HIDE DEF r2
  <2> HIDE DEF r2
  <2>3. r3 \in Socket
    BY <2>2, BacklogField
  <2> HIDE DEF r3
  <2>4. r4 \in Socket
    BY <2>3 DEF Socket
  <2>5. r4 = NewFd(s, id, type, watch)
    BY <1>2 DEF NewFd, r1, r2, r3
  <2> QED
    BY <2>4, <2>5
<1>4. /\ r.type = type /\ r.id = id /\ r.fd = id /\ r.tcp
      /\ r.tag = ID_TAG16(id)
  BY <1>2 DEF NewFd, Socket
<1>5. /\ r.sending = 0 /\ r.wb_size = 0
      /\ r.high = slot[s].high /\ r.low = slot[s].low
  BY <1>2 DEF NewFd, Socket
<1> QED
  BY <1>3, <1>4, <1>5

(* What a step does not do to the slot s: change whose it is.              *)
Same(s) ==
    /\ slot'[s].type = slot[s].type /\ slot'[s].id = slot[s].id
    /\ slot'[s].fd = slot[s].fd /\ slot'[s].tcp = slot[s].tcp
    /\ slot'[s].tag = slot[s].tag

AllSame == \A s \in Slot : Same(s)

Grows == given \subseteq given' /\ ready \subseteq ready' /\ alloc_id' >= alloc_id

LEMMA SlotsKept ==
  ASSUME Shape, NEW s \in Slot, Same(s), Grows, alloc_id' \in Nat
  PROVE  SlotOK(s)'
<1>1. SlotOK(s) /\ slot[s].fd \in Nat /\ alloc_id \in Nat
  BY DEF Shape, TypeOK, Socket, Id
<1> QED
  BY <1>1 DEF Same, SlotOK, Grows

LEMMA PollKept ==
  ASSUME Shape, AllSame, Grows, poll' = poll
  PROVE  PollOK'
  BY DEF Shape, AllSame, Same, Grows, PollOK

(* The pipe as commands leave it.                                          *)
LEMMA PipeTail ==
  ASSUME Shape, pipe # <<>>, pipe' = Tail(pipe), Grows
  PROVE  PipeOK'
<1>1. pipe \in Seq(Plain \cup ToSend) /\ PipeOK
  BY DEF Shape, PipeOK
<1>2. pipe' \in Seq(Plain \cup ToSend)
  BY <1>1
<1>3. \A k \in DOMAIN pipe' : k + 1 \in DOMAIN pipe /\ pipe'[k] = pipe[k+1]
  BY <1>1
<1> QED
  BY <1>1, <1>2, <1>3 DEF PipeOK, Grows

LEMMA PipeAppend ==
  ASSUME Shape, NEW r \in Plain \cup ToSend, pipe' = Append(pipe, r), Grows,
         r.id \in given', r.kind = "send" => r.id \in ready'
  PROVE  PipeOK'
<1>1. pipe \in Seq(Plain \cup ToSend) /\ PipeOK
  BY DEF Shape, PipeOK
<1>2. pipe' \in Seq(Plain \cup ToSend)
  BY <1>1
<1>3. \A k \in DOMAIN pipe' : \/ k \in DOMAIN pipe /\ pipe'[k] = pipe[k]
                              \/ pipe'[k] = r
  BY <1>1
<1> QED
  BY <1>1, <1>2, <1>3 DEF PipeOK, Grows

LEMMA PipeKept ==
  ASSUME Shape, pipe' = pipe, Grows
  PROVE  PipeOK'
  BY DEF Shape, PipeOK, Grows

(* The request that a command takes                                        *)
LEMMA HeadOfPipe ==
  ASSUME Shape, pipe # <<>>
  PROVE  /\ 1 \in DOMAIN pipe /\ Head(pipe) = pipe[1]
         /\ Head(pipe) \in Plain \cup ToSend
         /\ Head(pipe).id \in given /\ Head(pipe).id \in Id
         /\ Head(pipe).kind = "send" => Head(pipe).id \in ready /\ Head(pipe).msg \in Message
         /\ HASH_ID(Head(pipe).id) \in Slot
<1>1. pipe \in Seq(Plain \cup ToSend) /\ PipeOK /\ given \subseteq Id
  BY DEF Shape, PipeOK, TypeOK
<1>2. 1 \in DOMAIN pipe /\ Head(pipe) = pipe[1] /\ Head(pipe) \in Plain \cup ToSend
  BY <1>1
<1>3. Head(pipe).id \in given /\ (Head(pipe).kind = "send" => Head(pipe).id \in ready)
  BY <1>1, <1>2 DEF PipeOK
<1>4. Head(pipe).kind = "send" => Head(pipe).msg \in Message
  BY <1>2 DEF Plain, ToSend
<1> QED
  BY <1>1, <1>2, <1>3, <1>4, HashInSlot
-----------------------------------------------------------------------------
(* The shape of the state: calls of services                               *)

(* The callers' places, and what a call leaves of the others'.             *)
LEMMA CallingType == CallingOK' => \A c \in Caller : calling'[c].pc \in
           {"idle", "reserved", "look", "try", "recheck", "write", "store", "inc", "push"}
  BY DEF CallingOK, Calling, Idle

LEMMA CallingMoves ==
  ASSUME Shape, NEW c \in Caller, NEW q \in Calling, Grows, alloc_id' \in Nat,
         calling' = [calling EXCEPT ![c] = q],
         q.pc \notin {"idle", "reserved"} => q.id \in ready',
         q.pc = "reserved" => q.id <= alloc_id'
  PROVE  CallingOK'
<1>1. /\ calling \in [Caller -> Calling] /\ CallingOK /\ alloc_id \in Nat
  BY DEF Shape, CallingOK, TypeOK, Id
<1>2. calling' \in [Caller -> Calling]
  BY <1>1
<1>3. \A d \in Caller : calling'[d] = IF d = c THEN q ELSE calling[d]
  BY <1>1
<1>4. \A d \in Caller : calling[d].pc = "reserved" => calling[d].id \in Nat
  BY <1>1 DEF Calling, Idle, Id
<1> QED
  BY <1>1, <1>2, <1>3, <1>4 DEF CallingOK, Grows

LEMMA CallingKept ==
  ASSUME Shape, Grows, alloc_id' \in Nat, calling' = calling
  PROVE  CallingOK'
<1>1. /\ calling \in [Caller -> Calling] /\ CallingOK /\ alloc_id \in Nat
  BY DEF Shape, CallingOK, TypeOK, Id
<1>2. \A d \in Caller : calling[d].pc = "reserved" => calling[d].id \in Nat
  BY <1>1 DEF Calling, Idle, Id
<1> QED
  BY <1>1, <1>2 DEF CallingOK, Grows

LEMMA KnownKept ==
  ASSUME Shape, UNCHANGED <<given, alloc_id>>, open' \subseteq open
  PROVE  KnownOK'
  BY DEF Shape, KnownOK

(* A caller before it sends or requests knows an id and a message.         *)
LEMMA CallerAt ==
  ASSUME Shape, NEW c \in Caller
  PROVE  /\ calling[c].pc = "reserved" =>
                /\ calling[c].kind \in {"connect", "listen"} /\ calling[c].id \in Id
                /\ calling[c].id <= alloc_id /\ HASH_ID(calling[c].id) \in Slot
         /\ calling[c].pc \in {"look", "try", "recheck", "write", "inc", "push"} =>
                /\ calling[c] = [pc |-> calling[c].pc, id |-> calling[c].id,
                                 msg |-> calling[c].msg]
                /\ calling[c].id \in ready /\ calling[c].id \in Id
                /\ calling[c].msg \in Message /\ HASH_ID(calling[c].id) \in Slot
         /\ calling[c].pc = "store" =>
                /\ calling[c].rest \in Buffer /\ calling[c].id \in ready
                /\ calling[c].id \in Id /\ HASH_ID(calling[c].id) \in Slot
<1>1. calling[c] \in Calling /\ CallingOK
  BY DEF Shape, CallingOK
<1>2. \/ calling[c] = Idle
      \/ calling[c] \in [pc : {"reserved"}, kind : {"connect", "listen"}, id : Id]
      \/ calling[c] \in [pc : {"look", "try", "recheck", "write", "inc", "push"},
                         id : Id, msg : Message]
      \/ calling[c] \in [pc : {"store"}, id : Id, rest : Buffer]
  BY <1>1 DEF Calling
<1> QED
  BY <1>1, <1>2, HashInSlot DEF Idle, CallingOK
(* reserve_id: the slot keeps its last id, that of a socket long closed.   *)
LEMMA ReserveShape ==
  ASSUME Shape, NEW c \in Caller, NEW kind \in {"connect", "listen"}, Reserve(c, kind)
  PROVE  Shape'
<1> DEFINE id == Reservable
           s == HASH_ID(id)
           r == [slot[s] EXCEPT !.type = "RESERVE"]
<1>1. id \in Id /\ id > alloc_id /\ s \in Slot /\ slot[s].type = "INVALID"
  BY ReservableIsNew DEF Reserve, Shape
<1>2. alloc_id \in Nat /\ alloc_id' = id /\ alloc_id' \in Nat /\ alloc_id' \in {0} \cup Id
  BY <1>1 DEF Reserve, Shape, TypeOK, Id
<1>3. Grows
  BY <1>1, <1>2 DEF Reserve, Grows, Id
<1>4. slot \in [Slot -> Socket] /\ slot[s] \in Socket
  BY <1>1 DEF Shape, TypeOK
<1>5. r \in Socket /\ r.type = "RESERVE" /\ r.id = slot[s].id /\ r.fd = slot[s].fd
      /\ r.tcp = slot[s].tcp /\ r.tag = slot[s].tag
  BY <1>4 DEF Socket, Types
<1>6. slot' = [slot EXCEPT ![s] = r]
  BY DEF Reserve
<1> HIDE DEF r
<1>7. slot' \in [Slot -> Socket] /\ slot'[s] = r /\ \A t \in Slot : t # s => slot'[t] = slot[t]
  BY <1>1, <1>4, <1>5, <1>6, OneSlot
<1>8. [pc |-> "reserved", kind |-> kind, id |-> id] \in Calling
  BY <1>1 DEF Calling
<1>9. CallingOK'
  <2>1. calling' = [calling EXCEPT ![c] = [pc |-> "reserved", kind |-> kind, id |-> id]]
    BY DEF Reserve
  <2>2. id <= alloc_id'
    BY <1>1, <1>2 DEF Id
  <2> QED
    BY <1>2, <1>3, <1>8, <2>1, <2>2, CallingMoves
<1>10. PipeOK'
  BY <1>3, PipeKept DEF Reserve
<1>11. PollOK'
  BY <1>1, <1>3, <1>5, <1>7 DEF Shape, PollOK, Reserve, thread
<1>12. \A t \in Slot : SlotOK(t)'
  <2> TAKE t \in Slot
  <2>1. CASE t = s
    <3>1. SlotOK(s) /\ slot[s].fd \in Nat
      BY <1>1, <1>4 DEF Shape, Socket, Id
    <3> QED
      BY <1>1, <1>2, <1>3, <1>5, <1>7, <2>1, <3>1 DEF SlotOK, Grows, Reserve
  <2>2. CASE t # s
    BY <1>2, <1>3, <1>7, <2>2, SlotsKept DEF Same
  <2> QED
    BY <2>1, <2>2
<1>13. KnownOK' /\ open' \subseteq Id
  <2>1. \A i \in open : i <= alloc_id /\ i \in Id
    BY DEF Shape, KnownOK, TypeOK
  <2>2. \A i \in given : i <= alloc_id /\ i \in Id
    BY DEF Shape, KnownOK, TypeOK
  <2>3. open' \subseteq open \cup {id} /\ given' = given
    BY DEF Reserve
  <2> QED
    BY <1>1, <1>2, <2>1, <2>2, <2>3 DEF KnownOK, Id
<1>14. TypeOK'
  <2>1. calls' \in 0..MaxCall
    BY SocketAssumption DEF Reserve, Call, Shape, TypeOK
  <2>2. \A d \in Caller : calling'[d].pc \in
           {"idle", "reserved", "look", "try", "recheck", "write", "store", "inc", "push"}
    BY <1>9, CallingType
  <2> QED
    BY <1>2, <1>7, <1>13, <2>1, <2>2 DEF Reserve, Shape, TypeOK, thread
<1> QED
  BY <1>9, <1>10, <1>11, <1>12, <1>13, <1>14 DEF Shape
(* The rest of reserve_id: the new id is the slot's.                       *)
LEMMA ReservedShape ==
  ASSUME Shape, NEW c \in Caller, Reserved(c)
  PROVE  Shape'
<1> DEFINE id == calling[c].id
           s == HASH_ID(id)
           r == [slot[s] EXCEPT !.id = id, !.tcp = FALSE, !.fd = 0]
           q == [kind |-> calling[c].kind, id |-> id]
<1>1. id \in Id /\ s \in Slot /\ id <= alloc_id /\ calling[c].kind \in {"connect", "listen"}
  BY CallerAt DEF Reserved
<1>2. /\ UNCHANGED <<alloc_id, ev, checkctrl, poll, open, ready, calls, agains>>
      /\ given' = given \cup {id} /\ pipe' = Append(pipe, q)
      /\ calling' = [calling EXCEPT ![c] = Idle]
  BY DEF Reserved, thread, kernel
<1>3. Grows /\ alloc_id' \in Nat
  BY <1>2 DEF Grows, Shape, TypeOK, Id
<1>4. slot \in [Slot -> Socket] /\ slot[s] \in Socket
  BY <1>1 DEF Shape, TypeOK
<1>5. r \in Socket /\ r.type = slot[s].type /\ r.id = id /\ r.fd = 0 /\ r.tcp = FALSE
  BY <1>1, <1>4 DEF Socket, Types
<1>6. slot' = [slot EXCEPT ![s] = r]
  BY DEF Reserved
<1> HIDE DEF r
<1>7. slot' \in [Slot -> Socket] /\ slot'[s] = r /\ \A t \in Slot : t # s => slot'[t] = slot[t]
  BY <1>1, <1>4, <1>5, <1>6, OneSlot
<1>8. CallingOK'
  BY <1>2, <1>3, CallingMoves DEF Calling, Idle
<1>9. PipeOK'
  <2>1. q \in Plain \cup ToSend /\ q.id \in given' /\ q.kind # "send"
    BY <1>1, <1>2 DEF Plain
  <2> HIDE DEF q
  <2> QED
    BY <1>2, <1>3, <2>1, PipeAppend
<1>10. PollOK'
  BY <1>1, <1>2, <1>5, <1>7 DEF Shape, PollOK
<1>11. \A t \in Slot : SlotOK(t)'
  <2> TAKE t \in Slot
  <2>1. CASE t = s
    <3>1. id # 0 /\ id \in given'
      BY <1>1, <1>2 DEF Id
    <3> QED
      BY <1>5, <1>7, <2>1, <3>1 DEF SlotOK
  <2>2. CASE t # s
    BY <1>3, <1>7, <2>2, SlotsKept DEF Same
  <2> QED
    BY <2>1, <2>2
<1>12. KnownOK'
  BY <1>1, <1>2 DEF Shape, KnownOK
<1>13. TypeOK'
  <2>1. \A d \in Caller : calling'[d].pc \in
           {"idle", "reserved", "look", "try", "recheck", "write", "store", "inc", "push"}
    BY <1>8, CallingType
  <2>2. given' \subseteq Id /\ ready' \subseteq given'
    BY <1>1, <1>2 DEF Shape, TypeOK
  <2> QED
    BY <1>2, <1>7, <2>1, <2>2 DEF Shape, TypeOK
<1> QED
  BY <1>8, <1>9, <1>10, <1>11, <1>12, <1>13 DEF Shape

(* A step of a caller that leaves every slot to whom it belongs            *)
LEMMA CallerShape ==
  ASSUME Shape, UNCHANGED <<alloc_id, ev, checkctrl, poll, open, given, ready>>, AllSame,
         slot' \in [Slot -> Socket], PipeOK', CallingOK',
         calls' \in 0..MaxCall, agains' \in 0..MaxAgain
  PROVE  Shape'
<1>1. Grows /\ alloc_id' \in Nat
  BY DEF Grows, Shape, TypeOK, Id
<1>2. PollOK'
  BY <1>1, PollKept
<1>3. \A s \in Slot : SlotOK(s)'
  BY <1>1, SlotsKept DEF AllSame
<1>4. KnownOK'
  BY KnownKept
<1>5. TypeOK'
  <2>1. \A d \in Caller : calling'[d].pc \in
           {"idle", "reserved", "look", "try", "recheck", "write", "store", "inc", "push"}
    BY CallingType
  <2> QED
    BY <2>1 DEF Shape, TypeOK
<1> QED
  BY <1>2, <1>3, <1>4, <1>5 DEF Shape

LEMMA RequestShape ==
  ASSUME Shape, NEW c \in Caller, NEW kind \in {"close", "shutdown", "start"},
         NEW id \in given, Request(c, kind, id)
  PROVE  Shape'
<1> DEFINE q == [kind |-> kind, id |-> id]
<1>1. /\ UNCHANGED <<slot, alloc_id, ev, checkctrl, poll, calling, open, given, ready, agains>>
      /\ pipe' = Append(pipe, q)
      /\ calls' \in 0..MaxCall /\ agains \in 0..MaxAgain
  BY SocketAssumption DEF Request, Call, thread, kernel, Shape, TypeOK
<1>2. Grows /\ alloc_id' \in Nat
  BY <1>1 DEF Grows, Shape, TypeOK, Id
<1>3. q \in Plain \cup ToSend /\ q.id \in given' /\ q.kind # "send"
  BY <1>1 DEF Plain, Shape, TypeOK
<1> HIDE DEF q
<1>4. PipeOK'
  BY <1>1, <1>2, <1>3, PipeAppend
<1>5. CallingOK'
  BY <1>1, <1>2, CallingKept
<1>6. AllSame /\ slot' \in [Slot -> Socket]
  BY <1>1 DEF AllSame, Same, Shape, TypeOK
<1> QED
  BY <1>1, <1>4, <1>5, <1>6, CallerShape

(* A caller has its message, and goes on to a place where it keeps it.     *)
LEMMA SendShape ==
  ASSUME Shape, NEW c \in Caller, NEW id \in ready, NEW low \in BOOLEAN, Send(c, id, low)
  PROVE  Shape'
<1> DEFINE msg == [n |-> calls', by |-> c, low |-> low]
<1>1. /\ UNCHANGED <<slot, alloc_id, pipe, ev, checkctrl, poll, open, given, ready, agains>>
      /\ calls' = calls + 1 /\ calls < MaxCall
  BY DEF Send, Call, thread, kernel
<1>2. calls' \in 1..MaxCall /\ calls' \in 0..MaxCall /\ agains \in 0..MaxAgain
  BY <1>1, SocketAssumption DEF Shape, TypeOK
<1>3. msg \in Message
  BY <1>2 DEF Message
<1>4. Grows /\ alloc_id' \in Nat
  BY <1>1 DEF Grows, Shape, TypeOK, Id
<1>5. id \in Id /\ ready' = ready
  BY <1>1 DEF Shape, TypeOK
<1>6. PICK q \in Calling : /\ calling' = [calling EXCEPT ![c] = q]
                           /\ q.pc \notin {"idle", "reserved"} => q.id = id
                           /\ q.pc # "reserved"
  <2> DEFINE a == [pc |-> "look", id |-> id, msg |-> msg]
             b == [pc |-> "inc", id |-> id, msg |-> msg]
  <2>1. a \in Calling /\ b \in Calling /\ Idle \in Calling
    BY <1>3, <1>5 DEF Calling
  <2>2. \/ calling' = [calling EXCEPT ![c] = Idle]
        \/ calling' = [calling EXCEPT ![c] = a]
        \/ calling' = [calling EXCEPT ![c] = b]
    BY DEF Send
  <2> QED
    BY <2>1, <2>2 DEF Idle
<1>7. CallingOK'
  BY <1>4, <1>5, <1>6, CallingMoves
<1>8. PipeOK' /\ AllSame /\ slot' \in [Slot -> Socket]
  BY <1>1, <1>4, PipeKept DEF AllSame, Same, Shape, TypeOK
<1> QED
  BY <1>1, <1>2, <1>7, <1>8, CallerShape
Holding == {"look", "try", "recheck", "write", "inc", "push"}

LEMMA GotoKeeps ==
  ASSUME Shape, NEW c \in Caller, calling[c].pc \in Holding, NEW pc \in Holding,
         Goto(c, pc), UNCHANGED <<alloc_id, given, ready>>
  PROVE  CallingOK'
<1> DEFINE q == [calling[c] EXCEPT !.pc = pc]
<1>1. /\ calling[c] = [pc |-> calling[c].pc, id |-> calling[c].id, msg |-> calling[c].msg]
      /\ calling[c].id \in ready /\ calling[c].id \in Id /\ calling[c].msg \in Message
  BY CallerAt DEF Holding
<1>2. q = [pc |-> pc, id |-> calling[c].id, msg |-> calling[c].msg]
  BY <1>1
<1>3. q \in Calling /\ q.pc \notin {"idle", "reserved"} /\ q.id \in ready
  BY <1>1, <1>2 DEF Calling, Holding
<1>4. calling' = [calling EXCEPT ![c] = q]
  BY DEF Goto
<1> HIDE DEF q
<1>5. Grows /\ alloc_id' \in Nat
  BY DEF Grows, Shape, TypeOK, Id
<1> QED
  BY <1>3, <1>4, <1>5, CallingMoves

(* can_direct_write and the lock touch no more than the lock.              *)
LEMMA LookShape ==
  ASSUME Shape, NEW c \in Caller, Look(c) \/ Try(c) \/ Recheck(c)
  PROVE  Shape'
<1> DEFINE s == HASH_ID(calling[c].id)
<1>1. UNCHANGED <<alloc_id, pipe, ev, checkctrl, poll, open, given, ready, calls, agains>>
  BY DEF Look, Try, Recheck, thread, kernel, services
<1>2. calling[c].pc \in {"look", "try", "recheck"} /\ calling[c].pc \in Holding
  BY DEF Look, Try, Recheck, Holding
<1>3. s \in Slot
  BY <1>2, CallerAt
<1>4. PICK pc \in Holding : Goto(c, pc)
  BY DEF Look, Try, Recheck, Holding
<1>5. CallingOK'
  BY <1>1, <1>2, <1>4, GotoKeeps
<1>6. PICK held \in BOOLEAN : slot' = slot \/ slot' = [slot EXCEPT ![s].dw_lock = held]
  BY DEF Look, Try, Recheck
<1>7. slot \in [Slot -> Socket] /\ slot[s] \in Socket
  BY <1>3 DEF Shape, TypeOK
<1>8. AllSame /\ slot' \in [Slot -> Socket]
  <2>1. CASE slot' = slot
    BY <1>7, <2>1 DEF AllSame, Same
  <2>2. CASE slot' = [slot EXCEPT ![s].dw_lock = held]
    <3> DEFINE r == [slot[s] EXCEPT !.dw_lock = held]
    <3>1. r \in Socket /\ r.type = slot[s].type /\ r.id = slot[s].id
          /\ r.fd = slot[s].fd /\ r.tcp = slot[s].tcp /\ r.tag = slot[s].tag
      BY <1>7 DEF Socket
    <3>2. slot' = [slot EXCEPT ![s] = r]
      BY <2>2
    <3> HIDE DEF r
    <3> QED
      BY <1>3, <1>7, <3>1, <3>2, OneSlot DEF AllSame, Same
  <2> QED
    BY <1>6, <2>1, <2>2
<1>9. PipeOK'
  BY <1>1, PipeKept DEF Grows, Shape, TypeOK, Id
<1> QED
  BY <1>1, <1>5, <1>8, <1>9, CallerShape DEF Shape, TypeOK

(* A direct write, whole, in part or failed, and what is kept of it        *)
LEMMA DirectWriteShape ==
  ASSUME Shape, NEW c \in Caller, DirectWrite(c)
  PROVE  Shape'
<1> DEFINE s == HASH_ID(calling[c].id)
           buf == Whole(calling[c].msg)
           r == [slot[s] EXCEPT !.dw_lock = FALSE]
<1>1. UNCHANGED <<alloc_id, pipe, ev, checkctrl, poll, open, given, ready, calls>>
  BY Zenon DEF DirectWrite, thread, services
<1>2. s \in Slot /\ buf \in Buffer /\ calling[c].id \in ready /\ calling[c].id \in Id
  BY Zenon, CallerAt, WholeIsBuffer DEF DirectWrite
<1>3. buf.sz = Size /\ Size \in Nat \ {0}
  BY SocketAssumption DEF Whole
<1>4. agains' \in 0..MaxAgain
  <2>1. agains' = agains \/ (agains < MaxAgain /\ agains' = agains + 1)
    BY Zenon DEF DirectWrite, MayFail
  <2> QED
    BY <2>1, SocketAssumption DEF Shape, TypeOK
<1>5. slot \in [Slot -> Socket] /\ slot[s] \in Socket
  BY <1>2 DEF Shape, TypeOK
<1>6. r \in Socket /\ r.type = slot[s].type /\ r.id = slot[s].id
      /\ r.fd = slot[s].fd /\ r.tcp = slot[s].tcp /\ r.tag = slot[s].tag
  BY Zenon, <1>5 DEF Socket
<1>7. slot' = slot \/ slot' = [slot EXCEPT ![s] = r]
  BY Zenon DEF DirectWrite
<1> HIDE DEF r
<1>8. AllSame /\ slot' \in [Slot -> Socket]
  <2>1. CASE slot' = slot
    BY <1>5, <2>1 DEF AllSame, Same
  <2>2. CASE slot' = [slot EXCEPT ![s] = r]
    BY <1>2, <1>5, <1>6, <2>2, OneSlot DEF AllSame, Same
  <2> QED
    BY <1>7, <2>1, <2>2
<1>9. PICK q \in Calling : /\ calling' = [calling EXCEPT ![c] = q]
                           /\ q.pc \notin {"idle", "reserved"} => q.id = calling[c].id
                           /\ q.pc # "reserved"
  <2> DEFINE left(b) == [pc |-> "store", id |-> calling[c].id, rest |-> b]
  <2>1. ASSUME NEW n \in 1..Size, n # Size PROVE left(Written(buf, n)) \in Calling
    BY <1>2, <1>3, <2>1, WrittenIsBuffer DEF Calling
  <2>2. left(Again(buf)) \in Calling
    BY <1>2, <1>3, WrittenIsBuffer DEF Calling, Again
  <2>3. Idle \in Calling
    BY DEF Calling
  <2>4. \/ calling' = [calling EXCEPT ![c] = Idle]
        \/ calling' = [calling EXCEPT ![c] = left(Again(buf))]
        \/ \E n \in 1..Size : n # Size /\ calling' = [calling EXCEPT ![c] = left(Written(buf, n))]
    <3> HIDE DEF buf
    <3> QED
      BY Zenon DEF DirectWrite, buf, Shape, CallingOK
  <2> HIDE DEF buf
  <2> QED
    BY <2>1, <2>2, <2>3, <2>4 DEF Idle
<1>10. Grows /\ alloc_id' \in Nat /\ ready' = ready
  BY <1>1 DEF Grows, Shape, TypeOK, Id
<1>11. CallingOK'
  BY <1>2, <1>9, <1>10, CallingMoves
<1>12. PipeOK'
  BY <1>1, <1>10, PipeKept
<1>13. calls' \in 0..MaxCall
  BY <1>1 DEF Shape, TypeOK
<1> QED
  BY <1>1, <1>4, <1>8, <1>11, <1>12, <1>13, CallerShape
LEMMA StoreShape ==
  ASSUME Shape, NEW c \in Caller, Store(c)
  PROVE  Shape'
<1> DEFINE s == HASH_ID(calling[c].id)
           r == [slot[s] EXCEPT !.dw = calling[c].rest, !.dw_lock = FALSE,
                                !.watch = IF @ = {} THEN {} ELSE Watch(TRUE)]
<1>1. UNCHANGED <<alloc_id, pipe, ev, checkctrl, poll, open, given, ready, calls, agains>>
  BY DEF Store, thread, kernel, services
<1>2. s \in Slot /\ calling[c].rest \in Buffer
  BY CallerAt DEF Store
<1>3. slot \in [Slot -> Socket] /\ slot[s] \in Socket
  BY <1>2 DEF Shape, TypeOK
<1>4. r \in Socket /\ r.type = slot[s].type /\ r.id = slot[s].id
      /\ r.fd = slot[s].fd /\ r.tcp = slot[s].tcp /\ r.tag = slot[s].tag
  BY Zenon, <1>2, <1>3 DEF Socket, Watch
<1>5. slot' = [slot EXCEPT ![s] = r]
  BY DEF Store
<1> HIDE DEF r
<1>6. AllSame /\ slot' \in [Slot -> Socket]
  BY <1>2, <1>3, <1>4, <1>5, OneSlot DEF AllSame, Same
<1>7. Grows /\ alloc_id' \in Nat
  BY <1>1 DEF Grows, Shape, TypeOK, Id
<1>8. CallingOK'
  <2>1. calling' = [calling EXCEPT ![c] = Idle]
    BY DEF Store
  <2> QED
    BY <1>7, <2>1, CallingMoves DEF Calling, Idle
<1>9. PipeOK'
  BY <1>1, <1>7, PipeKept
<1> QED
  BY <1>1, <1>6, <1>8, <1>9, CallerShape DEF Shape, TypeOK

LEMMA IncShape ==
  ASSUME Shape, NEW c \in Caller, Inc(c)
  PROVE  Shape'
<1> DEFINE s == HASH_ID(calling[c].id)
           n == slot[s].sending + 1
           r == [slot[s] EXCEPT !.sending = n]
<1>1. UNCHANGED <<alloc_id, pipe, ev, checkctrl, poll, open, given, ready, calls, agains>>
  BY DEF Inc, thread, kernel, services
<1>2. s \in Slot /\ calling[c].pc \in Holding
  BY CallerAt DEF Inc, Holding
<1>3. slot \in [Slot -> Socket] /\ slot[s] \in Socket
  BY <1>2 DEF Shape, TypeOK
<1>4. r \in Socket /\ r.type = slot[s].type /\ r.id = slot[s].id
      /\ r.fd = slot[s].fd /\ r.tcp = slot[s].tcp /\ r.tag = slot[s].tag
  <2>1. n \in Nat
    BY <1>3 DEF Socket
  <2> HIDE DEF n
  <2> QED
    BY <1>3, <2>1, SendingField
<1>5. slot' = slot \/ slot' = [slot EXCEPT ![s] = r]
  BY DEF Inc
<1> HIDE DEF r
<1>6. AllSame /\ slot' \in [Slot -> Socket]
  <2>1. CASE slot' = slot
    BY <1>3, <2>1 DEF AllSame, Same
  <2>2. CASE slot' = [slot EXCEPT ![s] = r]
    BY <1>2, <1>3, <1>4, <2>2, OneSlot DEF AllSame, Same
  <2> QED
    BY <1>5, <2>1, <2>2
<1>7. CallingOK'
  BY <1>1, <1>2, GotoKeeps DEF Inc, Holding
<1>8. PipeOK'
  BY <1>1, PipeKept DEF Grows, Shape, TypeOK, Id
<1> QED
  BY <1>1, <1>6, <1>7, <1>8, CallerShape DEF Shape, TypeOK

LEMMA PushShape ==
  ASSUME Shape, NEW c \in Caller, Push(c)
  PROVE  Shape'
<1> DEFINE q == [kind |-> "send", id |-> calling[c].id, msg |-> calling[c].msg]
<1>1. /\ UNCHANGED <<slot, alloc_id, ev, checkctrl, poll, open, given, ready, calls, agains>>
      /\ pipe' = Append(pipe, q)
  BY DEF Push, thread, kernel, services
<1>2. Grows /\ alloc_id' \in Nat /\ ready' = ready
  BY <1>1 DEF Grows, Shape, TypeOK, Id
<1>3. calling[c].id \in ready /\ calling[c].id \in Id /\ calling[c].msg \in Message
  BY CallerAt DEF Push
<1>4. q \in Plain \cup ToSend /\ q.id \in given' /\ q.id \in ready'
  BY <1>1, <1>3 DEF ToSend, Shape, TypeOK
<1> HIDE DEF q
<1>5. PipeOK'
  BY <1>1, <1>2, <1>4, PipeAppend
<1>6. CallingOK'
  <2>1. calling' = [calling EXCEPT ![c] = Idle]
    BY DEF Push
  <2> QED
    BY <1>2, <2>1, CallingMoves DEF Calling, Idle
<1>7. AllSame /\ slot' \in [Slot -> Socket]
  BY <1>1 DEF AllSame, Same, Shape, TypeOK
<1> QED
  BY <1>1, <1>5, <1>6, <1>7, CallerShape DEF Shape, TypeOK
-----------------------------------------------------------------------------
(* The shape of the state: the socket thread                               *)

(* A step of the thread that leaves every slot to whom it belongs          *)
LEMMA ThreadShape ==
  ASSUME Shape, UNCHANGED <<alloc_id, calling, open, given, ready, calls>>, AllSame,
         slot' \in [Slot -> Socket], PipeOK', PollOK', poll' \in Work,
         ev' \in Seq(Event), Len(ev') <= MAX_EVENT, checkctrl' \in BOOLEAN,
         agains' \in 0..MaxAgain
  PROVE  Shape'
<1>1. Grows /\ alloc_id' \in Nat
  BY DEF Grows, Shape, TypeOK, Id
<1>2. CallingOK'
  BY <1>1, CallingKept
<1>3. \A s \in Slot : SlotOK(s)'
  BY <1>1, SlotsKept DEF AllSame
<1>4. KnownOK'
  BY KnownKept
<1>5. TypeOK'
  BY DEF Shape, TypeOK
<1> QED
  BY <1>2, <1>3, <1>4, <1>5 DEF Shape

(* With no slot in hand there is nothing to say of the thread.             *)
Resting == {"ctrl", "wait", "event", "abort", "clear"}

LEMMA AtRest ==
  ASSUME poll' \in Work, poll'.pc \in Resting
  PROVE  PollOK'
  BY DEF PollOK, Resting

LEMMA AtIsWork ==
  ASSUME NEW pc \in Resting
  PROVE  At(pc) \in Work /\ At(pc).pc = pc
  BY DEF At, Resting, Work

LEMMA NextEventRests ==
  ASSUME NEW rest, NextEvent(rest), checkctrl \in BOOLEAN
  PROVE  ev' = rest /\ poll' \in Work /\ poll'.pc \in Resting /\ PollOK'
<1>1. PICK pc \in Resting : poll' = At(pc)
  BY DEF NextEvent, Resting
<1>2. ev' = rest
  BY DEF NextEvent
<1>3. poll' \in Work /\ poll'.pc \in Resting
  <2>1. At(pc) \in Work /\ At(pc).pc = pc
    BY AtIsWork
  <2> QED
    BY <1>1, <2>1
<1> QED
  BY <1>2, <1>3, AtRest

(* The events that wait                                                    *)
LEMMA EventsShrink ==
  ASSUME Shape, ev # <<>>
  PROVE  /\ Tail(ev) \in Seq(Event) /\ Len(Tail(ev)) <= MAX_EVENT
         /\ EventSlot \in Slot \cup {None}
         /\ EventSlot # None => EventSlot \in Slot /\ slot[EventSlot] \in Socket
         /\ [ev EXCEPT ![1].read = FALSE] \in Seq(Event)
         /\ Len([ev EXCEPT ![1].read = FALSE]) <= MAX_EVENT
<1>1. ev \in Seq(Event) /\ Len(ev) <= MAX_EVENT /\ MAX_EVENT \in Nat
      /\ slot \in [Slot -> Socket]
  BY SocketAssumption DEF Shape, TypeOK
<1>2. Tail(ev) \in Seq(Event) /\ Len(Tail(ev)) <= MAX_EVENT
  BY <1>1
<1>3. Head(ev) \in Event /\ ev[1] \in Event
  BY <1>1
<1>4. EventSlot \in Slot \cup {None}
  BY <1>3 DEF EventSlot, Event
<1>5. [ev[1] EXCEPT !.read = FALSE] \in Event
  BY <1>3 DEF Event
<1>6. [ev EXCEPT ![1] = [ev[1] EXCEPT !.read = FALSE]] \in Seq(Event)
      /\ Len([ev EXCEPT ![1] = [ev[1] EXCEPT !.read = FALSE]]) = Len(ev)
  BY <1>1, <1>5
<1> QED
  BY <1>1, <1>2, <1>4, <1>6

(* What waits is counted by the backlog: kept, at least, from one state to *)
(* the next.                                                               *)
Excess(s) == slot[s].wb_size - (Total(slot[s].high) + Total(slot[s].low))

(* force_close up to the lock, on a slot that is in use                    *)
LEMMA BeginCloseKeeps ==
  ASSUME Shape, NEW s \in Slot, slot[s].type # "INVALID", NEW pc \in {"close", "closeHeld"},
         NEW id \in {0} \cup Id, NEW by \in {"event", "close", "shutdown", "start"},
         BeginClose(pc, s, id, by)
  PROVE  /\ AllSame /\ slot' \in [Slot -> Socket] /\ poll' \in Work /\ PollOK'
         /\ poll'.pc \in {"abort", "close", "closeHeld"}
         /\ \A t \in Slot : /\ slot'[t].sending = slot[t].sending
                            /\ \/ Excess(t)' = Excess(t)
                               \/ poll'.pc \in {"close", "closeHeld"} /\ poll'.s = t
<1>1. slot \in [Slot -> Socket] /\ slot[s] \in Socket
  BY DEF Shape, TypeOK
<1>2. CASE slot[s].type = "RESERVE"
  <2>1. slot' = slot /\ poll' = At("abort")
    BY <1>2 DEF BeginClose
  <2>2. poll' \in Work /\ poll'.pc \in Resting
    <3>1. "abort" \in Resting
      BY DEF Resting
    <3>2. At("abort") \in Work /\ At("abort").pc = "abort"
      BY <3>1, AtIsWork
    <3> QED
      BY <2>1, <3>1, <3>2
  <2>3. poll'.pc = "abort"
    BY Zenon, <2>1 DEF At
  <2>4. \A t \in Slot : Excess(t)' = Excess(t) /\ slot'[t].sending = slot[t].sending
    BY <2>1 DEF Excess
  <2> QED
    BY <1>1, <2>1, <2>2, <2>3, <2>4, AtRest DEF AllSame, Same
<1>3. CASE slot[s].type # "RESERVE"
  <2> DEFINE r == [slot[s] EXCEPT !.high = <<>>, !.low = <<>>, !.watch = {}]
  <2>1. r \in Socket /\ r.type = slot[s].type /\ r.id = slot[s].id
        /\ r.fd = slot[s].fd /\ r.tcp = slot[s].tcp /\ r.tag = slot[s].tag
        /\ r.sending = slot[s].sending
    <3> DEFINE empty == <<>>
               nothing == {}
    <3>1. empty \in Seq(Buffer) /\ nothing \in SUBSET {"read", "write"}
      OBVIOUS
    <3>2. r = Holds(slot[s], empty, empty, nothing)
      BY DEF Holds
    <3> DEFINE q == Holds(slot[s], empty, empty, nothing)
    <3> HIDE DEF empty, nothing
    <3>3. /\ q \in Socket /\ q.type = slot[s].type /\ q.id = slot[s].id
          /\ q.fd = slot[s].fd /\ q.tcp = slot[s].tcp /\ q.tag = slot[s].tag
          /\ q.sending = slot[s].sending
      BY <1>1, <3>1, ListsField
    <3> HIDE DEF q, r
    <3> QED
      BY <3>2, <3>3 DEF q
  <2>2. slot' = [slot EXCEPT ![s] = r] /\ poll' = In(pc, s, id, by)
    BY <1>3 DEF BeginClose
  <2> HIDE DEF r
  <2>3. /\ slot' \in [Slot -> Socket] /\ slot'[s] = r
        /\ \A t \in Slot : t # s => slot'[t] = slot[t]
    BY <1>1, <2>1, <2>2, OneSlot
  <2>6. \A t \in Slot : slot'[t].sending = slot[t].sending
    BY <2>1, <2>3
  <2>7. \A t \in Slot : t # s => Excess(t)' = Excess(t)
    BY <2>3 DEF Excess
  <2>8. AllSame /\ slot' \in [Slot -> Socket]
    BY <2>1, <2>3 DEF AllSame, Same
  <2>4. poll' \in Work /\ poll'.pc = pc /\ poll'.s = s
    BY Zenon, <2>2 DEF In, Work
  <2>5. PollOK'
    BY <1>3, <2>4, <2>8 DEF PollOK, AllSame, Same
  <2> QED
    BY <2>3, <2>4, <2>5, <2>6, <2>7, <2>8
<1> QED
  BY <1>2, <1>3
(* The steps that change nothing of a slot                                 *)
LEMMA IdleShape ==
  ASSUME Shape, NoCommand \/ ClearClosed \/ Wait \/ Skip
  PROVE  Shape'
<1>1. /\ UNCHANGED <<slot, alloc_id, pipe, calling, open, given, ready, calls, agains>>
  BY Zenon DEF NoCommand, ClearClosed, Wait, Skip, kernel, services
<1>2. PipeOK'
  BY <1>1, PipeKept DEF Grows, Shape, TypeOK, Id
<1>3. checkctrl \in BOOLEAN /\ checkctrl' \in BOOLEAN
  BY Zenon DEF NoCommand, ClearClosed, Wait, Skip, Shape, TypeOK
<1>4. poll' \in Work /\ PollOK'
  <2>1. CASE NoCommand \/ ClearClosed \/ Wait
    <3>1. PICK pc \in Resting : poll' = At(pc)
      BY Zenon, <2>1 DEF NoCommand, ClearClosed, Wait, Resting
    <3>2. At(pc) \in Work /\ At(pc).pc = pc
      BY AtIsWork
    <3> QED
      BY <3>1, <3>2, AtRest
  <2>2. CASE Skip
    BY <1>3, <2>2, NextEventRests DEF Skip
  <2> QED
    BY <2>1, <2>2
<1>5. ev' \in Seq(Event) /\ Len(ev') <= MAX_EVENT
  <2>1. ev \in Seq(Event) /\ Len(ev) <= MAX_EVENT /\ MAX_EVENT \in Nat
    BY SocketAssumption DEF Shape, TypeOK
  <2>2. CASE NoCommand
    BY <2>1, <2>2 DEF NoCommand
  <2>3. CASE Skip
    BY <1>3, <2>3, NextEventRests, EventsShrink DEF Skip, Take
  <2>4. CASE ClearClosed
    <3>1. CASE ev' = ev
      BY <2>1, <3>1
    <3>2. CASE \E k \in DOMAIN ev : ev' = [ev EXCEPT ![k].s = None]
      <4>1. PICK k \in DOMAIN ev : ev' = [ev EXCEPT ![k].s = None]
        BY <3>2
      <4>2. [ev[k] EXCEPT !.s = None] \in Event
        <5>1. ev[k] \in Event
          BY <2>1, <4>1
        <5> QED
          BY <5>1 DEF Event
      <4>3. ev' = [ev EXCEPT ![k] = [ev[k] EXCEPT !.s = None]]
        BY <4>1
      <4> QED
        BY <2>1, <4>1, <4>2, <4>3
    <3>3. ev' = ev \/ \E k \in DOMAIN ev : ev' = [ev EXCEPT ![k].s = None]
      <4> DEFINE stale == {k \in DOMAIN ev : /\ ev[k].s # None
                                             /\ slot[ev[k].s].type = "INVALID"
                                             /\ slot[ev[k].s].id = poll.id}
                 first == CHOOSE k \in stale : \A j \in stale : k <= j
      <4>1. stale # {} => first \in stale
        <5>1. stale \subseteq Nat
          BY <2>1
        <5> HIDE DEF stale
        <5> QED
          BY <5>1, LeastNat
      <4>2. ev' = IF stale = {} THEN ev ELSE [ev EXCEPT ![first].s = None]
        BY Zenon, <2>4 DEF ClearClosed
      <4> HIDE DEF first
      <4> QED
        BY <4>1, <4>2
    <3> QED
      BY <3>1, <3>2, <3>3
  <2>5. CASE Wait
    <3>1. PICK n \in 1..MAX_EVENT : \E q \in [1..n -> Pending] : ev' = q
      BY <2>5 DEF Wait
    <3>2. Pending \subseteq Event
      <4>1. [s |-> None, read |-> TRUE, write |-> FALSE] \in Event
        BY DEF Event
      <4> QED
        BY <4>1 DEF Pending
    <3> QED
      BY <2>1, <3>1, <3>2
  <2> QED
    BY <2>2, <2>3, <2>4, <2>5
<1>6. AllSame /\ slot' \in [Slot -> Socket] /\ agains' \in 0..MaxAgain
  BY <1>1 DEF AllSame, Same, Shape, TypeOK
<1> QED
  BY <1>1, <1>2, <1>3, <1>4, <1>5, <1>6, ThreadShape

LEMMA CloseShape ==
  ASSUME Shape, NEW kind \in {"close", "shutdown"}, Close(kind)
  PROVE  Shape'
<1> DEFINE id == Head(pipe).id
           s == HASH_ID(id)
<1>1. UNCHANGED <<slot, alloc_id, ev, checkctrl, calling, open, given, ready, calls, agains>>
  BY Zenon DEF Close, kernel, services
<1>2. id \in given /\ id \in Id /\ s \in Slot
  BY Zenon, HeadOfPipe DEF Close, Command
<1>3. PipeOK'
  <2>1. Grows
    BY <1>1 DEF Grows, Shape, TypeOK, Id
  <2> QED
    BY Zenon, <2>1, PipeTail DEF Close, Command
<1>4. \/ poll' = In("clear", None, id, "")
      \/ Matches(id) /\ \E pc \in {"decide", "sendbuf"} : poll' = In(pc, s, id, kind)
  BY Zenon DEF Close
<1> HIDE DEF id
<1>5. poll' \in Work /\ PollOK'
  <2>1. CASE poll' = In("clear", None, id, "")
    <3>1. poll' \in Work /\ poll'.pc = "clear"
      BY Zenon, <1>2, <2>1 DEF In, Work
    <3> QED
      BY <3>1, AtRest DEF Resting
  <2>2. CASE Matches(id) /\ \E pc \in {"decide", "sendbuf"} : poll' = In(pc, s, id, kind)
    <3>1. PICK pc \in {"decide", "sendbuf"} : poll' = In(pc, s, id, kind)
      BY <2>2
    <3> HIDE DEF s
    <3>2. poll' \in Work
      BY Zenon, <1>2, <3>1 DEF In, Work
    <3>3. poll'.pc = pc /\ poll'.s = s /\ poll'.by = kind
      BY <3>1 DEF In
    <3>4. slot[s].type # "INVALID" /\ slot[s].id = id
      BY <2>2 DEF Matches, s
    <3> QED
      BY <1>1, <1>2, <3>2, <3>3, <3>4 DEF PollOK
  <2> QED
    BY Zenon, <1>4, <2>1, <2>2
<1>6. AllSame /\ slot' \in [Slot -> Socket] /\ agains' \in 0..MaxAgain
      /\ ev' \in Seq(Event) /\ Len(ev') <= MAX_EVENT /\ checkctrl' \in BOOLEAN
  BY <1>1 DEF AllSame, Same, Shape, TypeOK
<1> QED
  BY <1>1, <1>3, <1>5, <1>6, ThreadShape
-----------------------------------------------------------------------------
(* The units of a list                                                     *)

(* Induction over the naturals, for a set                                  *)
LEMMA SetInduction ==
  ASSUME NEW X, 0 \in X, \A n \in Nat : n \in X => n + 1 \in X
  PROVE  Nat \subseteq X
<1> SUFFICES ASSUME Nat \ X # {} PROVE FALSE
  OBVIOUS
<1>1. PICK x \in Nat \ X : \A y \in Nat \ X : x <= y
  BY LeastNat
<1>2. x # 0 /\ x - 1 \in Nat
  OBVIOUS
<1>3. x - 1 \in X
  BY <1>1, <1>2
<1> QED
  BY <1>1, <1>2, <1>3

(* The sums that Total takes are there, and are numbers.                   *)
Sums(list, f) ==
    /\ f \in [0..Len(list) -> Nat]
    /\ f[0] = 0
    /\ \A k \in 1..Len(list) : f[k] = f[k-1] + list[k].sz

LEMMA TotalSums ==
  ASSUME NEW list \in Seq(Buffer)
  PROVE  \E f : Sums(list, f) /\ Total(list) = f[Len(list)]
<1> DEFINE Eq(f, n) == f = [k \in 0..n |-> IF k = 0 THEN 0 ELSE f[k-1] + list[k].sz]
           X == {n \in Nat : n <= Len(list) => \E f \in [0..n -> Nat] : Eq(f, n)}
<1>1. Len(list) \in Nat /\ \A k \in 1..Len(list) : list[k].sz \in Nat
  BY DEF Buffer
<1>2. 0 \in X
  <2> DEFINE z == [k \in 0..0 |-> 0]
  <2>1. z \in [0..0 -> Nat] /\ Eq(z, 0)
    OBVIOUS
  <2> QED
    BY <2>1
<1>3. \A n \in Nat : n \in X => n + 1 \in X
  <2> HIDE DEF Eq
  <2> SUFFICES ASSUME NEW n \in Nat, n \in X, n + 1 <= Len(list)
               PROVE  \E g \in [0..n+1 -> Nat] : Eq(g, n + 1)
    BY SMTT(30)
  <2>0. n <= Len(list)
    BY <1>1
  <2>1. PICK f \in [0..n -> Nat] : Eq(f, n)
    BY <2>0
  <2> USE DEF Eq
  <2> DEFINE g == [k \in 0..n+1 |-> IF k = n + 1 THEN f[n] + list[n+1].sz ELSE f[k]]
  <2>2. g \in [0..n+1 -> Nat]
    BY SMTT(30), <1>1, <2>1
  <2>3. \A k \in 0..n+1 : g[k] = IF k = 0 THEN 0 ELSE g[k-1] + list[k].sz
    <3> TAKE k \in 0..n+1
    <3>1. CASE k = n + 1
      BY <3>1
    <3>2. CASE k # n + 1
      <4>1. k \in 0..n /\ (k # 0 => k - 1 \in 0..n)
        BY <3>2
      <4> QED
        BY <2>1, <3>2, <4>1
    <3> QED
      BY <3>1, <3>2
  <2>4. Eq(g, n + 1)
    BY <2>3
  <2> QED
    BY <2>2, <2>4
<1> HIDE DEF X
<1>4. Len(list) \in X
  BY <1>1, <1>2, <1>3, SetInduction
<1>5. \E f \in [0..Len(list) -> Nat] : Eq(f, Len(list))
  BY <1>1, <1>4 DEF X
<1> DEFINE up == CHOOSE f : Eq(f, Len(list))
<1>6. Eq(up, Len(list)) /\ Total(list) = up[Len(list)]
  BY <1>5 DEF Total
<1>7. \A f, h : Eq(f, Len(list)) /\ Eq(h, Len(list)) => \A k \in 0..Len(list) : f[k] = h[k]
  <2> SUFFICES ASSUME NEW f, NEW h, Eq(f, Len(list)), Eq(h, Len(list))
               PROVE  \A k \in 0..Len(list) : f[k] = h[k]
    BY ZenonT(40)
  <2> DEFINE Y == {n \in Nat : n <= Len(list) => f[n] = h[n]}
  <2>1. \A k \in 0..Len(list) : /\ f[k] = IF k = 0 THEN 0 ELSE f[k-1] + list[k].sz
                                /\ h[k] = IF k = 0 THEN 0 ELSE h[k-1] + list[k].sz
    OBVIOUS
  <2>2. 0 \in Y
    BY <1>1, <2>1
  <2>3. \A n \in Nat : n \in Y => n + 1 \in Y
    BY <1>1, <2>1
  <2> HIDE DEF Y
  <2>4. Nat \subseteq Y
    BY <2>2, <2>3, SetInduction
  <2> QED
    BY <1>1, <2>4 DEF Y
<1> HIDE DEF up
<1>8. up \in [0..Len(list) -> Nat]
  <2>1. PICK f \in [0..Len(list) -> Nat] : Eq(f, Len(list))
    BY <1>5
  <2>2. \A k \in 0..Len(list) : up[k] = f[k]
    <3> HIDE DEF Eq
    <3> QED
      BY <1>6, <1>7, <2>1
  <2>3. up = [k \in 0..Len(list) |-> up[k]]
    BY <1>6
  <2> HIDE DEF Eq
  <2> QED
    BY <2>2, <2>3
<1>9. Sums(list, up)
  BY SMTT(30), <1>1, <1>6, <1>8 DEF Sums
<1> QED
  BY <1>6, <1>9
LEMMA TotalIsNat ==
  ASSUME NEW list \in Seq(Buffer)
  PROVE  Total(list) \in Nat
<1>1. PICK f : Sums(list, f) /\ Total(list) = f[Len(list)]
  BY TotalSums
<1>2. Len(list) \in 0..Len(list)
  OBVIOUS
<1> QED
  BY <1>1, <1>2 DEF Sums

LEMMA TotalOfNone == Total(<<>>) = 0
<1> DEFINE list == <<>>
<1>1. list \in Seq(Buffer) /\ Len(list) = 0
  OBVIOUS
<1> HIDE DEF list
<1>2. PICK f : Sums(list, f) /\ Total(list) = f[Len(list)]
  BY <1>1, TotalSums
<1>3. Total(list) = 0
  BY <1>1, <1>2 DEF Sums
<1> QED
  BY <1>3 DEF list

(* What is put behind a list adds to its total, and so does what is first. *)
LEMMA TotalOfAppend ==
  ASSUME NEW list \in Seq(Buffer), NEW b \in Buffer
  PROVE  Append(list, b) \in Seq(Buffer) /\ Total(Append(list, b)) = Total(list) + b.sz
<1> DEFINE long == Append(list, b)
           n == Len(list)
<1>1. /\ long \in Seq(Buffer) /\ Len(long) = n + 1 /\ n \in Nat
      /\ long[n+1] = b /\ \A k \in 1..n : long[k] = list[k]
  OBVIOUS
<1> HIDE DEF long
<1>2. PICK f : Sums(list, f) /\ Total(list) = f[n]
  BY TotalSums
<1>3. PICK g : Sums(long, g) /\ Total(long) = g[n+1]
  BY <1>1, TotalSums
<1> HIDE DEF n
<1> DEFINE X == {k \in Nat : k <= n => g[k] = f[k]}
<1>4. 0 \in X
  BY <1>2, <1>3 DEF Sums
<1>5. \A k \in Nat : k \in X => k + 1 \in X
  <2> SUFFICES ASSUME NEW k \in Nat, k \in X, k + 1 <= n
               PROVE  g[k+1] = f[k+1]
    OBVIOUS
  <2>1. k + 1 \in 1..n /\ k + 1 \in 1..n+1 /\ k <= n /\ (k + 1) - 1 = k
    BY <1>1
  <2>2. g[k+1] = g[k] + long[k+1].sz
    BY <1>1, <1>3, <2>1 DEF Sums
  <2>3. f[k+1] = f[k] + list[k+1].sz
    BY <1>2, <2>1 DEF Sums, n
  <2> QED
    BY <1>1, <2>1, <2>2, <2>3
<1> HIDE DEF X
<1>6. n \in X
  BY <1>1, <1>4, <1>5, SetInduction
<1>7. g[n] = f[n]
  BY <1>1, <1>6 DEF X
<1>8. g[n+1] = g[n] + b.sz
  <2>1. n + 1 \in 1..Len(long) /\ (n + 1) - 1 = n
    BY <1>1
  <2> QED
    BY <1>1, <1>3, <2>1 DEF Sums
<1> QED
  BY <1>1, <1>2, <1>3, <1>7, <1>8 DEF long

LEMMA TotalOfFirst ==
  ASSUME NEW list \in Seq(Buffer), list # <<>>
  PROVE  /\ Head(list) \in Buffer /\ Tail(list) \in Seq(Buffer)
         /\ Total(list) = Head(list).sz + Total(Tail(list))
<1> DEFINE rest == Tail(list)
           n == Len(rest)
<1>1. /\ rest \in Seq(Buffer) /\ Len(list) = n + 1 /\ n \in Nat
      /\ Head(list) = list[1] /\ Head(list) \in Buffer
      /\ \A k \in 1..n : rest[k] = list[k+1]
  OBVIOUS
<1> HIDE DEF rest
<1>2. PICK f : Sums(list, f) /\ Total(list) = f[n+1]
  BY <1>1, TotalSums
<1>3. PICK g : Sums(rest, g) /\ Total(rest) = g[n]
  BY <1>1, TotalSums
<1> DEFINE a == Head(list).sz
           X == {k \in Nat : k <= n => f[k+1] = a + g[k]}
<1>4. a \in Nat /\ \A k \in 0..n : g[k] \in Nat
  BY <1>1, <1>3 DEF Buffer, Sums
<1>5. \A k \in 1..n : rest[k].sz \in Nat
  <2>1. \A k \in 1..n : rest[k] \in Buffer
    BY <1>1
  <2>2. \A buf \in Buffer : buf.sz \in Nat
    BY DEF Buffer
  <2> QED
    BY <2>1, <2>2
<1>6. \A k \in 1..n : g[k] = g[k-1] + rest[k].sz
  BY <1>3 DEF Sums
<1>7. \A k \in 1..n+1 : f[k] = f[k-1] + list[k].sz
  BY <1>1, <1>2 DEF Sums
<1>8. f[0] = 0 /\ g[0] = 0
  BY <1>2, <1>3 DEF Sums
<1> HIDE DEF n
<1>9. 0 \in X
  <2>1. f[1] = f[0] + list[1].sz
    BY <1>1, <1>7
  <2> QED
    BY <1>1, <1>4, <1>8, <2>1
<1>10. \A k \in Nat : k \in X => k + 1 \in X
  <2> SUFFICES ASSUME NEW k \in Nat, k \in X, k + 1 <= n
               PROVE  f[(k+1)+1] = a + g[k+1]
    OBVIOUS
  <2>1. k + 1 \in 1..n /\ (k + 1) + 1 \in 1..n+1 /\ k <= n /\ k \in 0..n
        /\ (k + 1) - 1 = k /\ ((k + 1) + 1) - 1 = k + 1
    BY <1>1
  <2>2. f[(k+1)+1] = f[k+1] + list[(k+1)+1].sz
    BY <1>7, <2>1
  <2>3. g[k+1] = g[k] + rest[k+1].sz /\ rest[k+1] = list[(k+1)+1] /\ rest[k+1].sz \in Nat
    BY <1>1, <1>5, <1>6, <2>1
  <2>4. f[k+1] = a + g[k] /\ g[k] \in Nat
    BY <1>4, <2>1
  <2> HIDE DEF a
  <2> QED
    BY <1>4, <2>2, <2>3, <2>4
<1> HIDE DEF X
<1>11. n \in X
  BY <1>1, <1>9, <1>10, SetInduction
<1> QED
  BY <1>1, <1>2, <1>3, <1>11 DEF X, rest

LEMMA TotalOfCons ==
  ASSUME NEW list \in Seq(Buffer), NEW b \in Buffer
  PROVE  <<b>> \o list \in Seq(Buffer) /\ Total(<<b>> \o list) = b.sz + Total(list)
<1> DEFINE long == <<b>> \o list
<1>1. long \in Seq(Buffer) /\ long # <<>> /\ Head(long) = b
  OBVIOUS
<1>2. Tail(long) = list
  <2>1. /\ Tail(long) \in Seq(Buffer) /\ Len(Tail(long)) = Len(list)
        /\ \A k \in 1..Len(list) : Tail(long)[k] = list[k]
    OBVIOUS
  <2> QED
    BY <2>1
<1> HIDE DEF long
<1>3. Total(long) = b.sz + Total(list)
  BY <1>1, <1>2, TotalOfFirst
<1> QED
  BY <1>1, <1>3 DEF long
LEMMA TotalOfOne ==
  ASSUME NEW b \in Buffer
  PROVE  <<b>> \in Seq(Buffer) /\ Total(<<b>>) = b.sz
<1> DEFINE list == <<b>>
           rest == Tail(list)
<1>1. list \in Seq(Buffer) /\ list # <<>> /\ Head(list) = b /\ rest = <<>>
  OBVIOUS
<1> HIDE DEF list
<1>2. Total(list) = b.sz + Total(Tail(list))
  BY <1>1, TotalOfFirst
<1>3. b.sz \in Nat
  BY DEF Buffer
<1> QED
  BY <1>1, <1>2, <1>3, TotalOfNone DEF list

-----------------------------------------------------------------------------
(* The steps that send                                                     *)

(* What sending writes of a slot.                                          *)
Update(r, h, l, b, d, k, w) ==
    [r EXCEPT !.high = h, !.low = l, !.wb_size = b, !.dw = d, !.dw_lock = k, !.watch = w]

LEMMA UpdateIsSocket ==
  ASSUME NEW r \in Socket, NEW h \in Seq(Buffer), NEW l \in Seq(Buffer), NEW b \in Int,
         NEW d \in Buffer \cup {None}, NEW k \in BOOLEAN, NEW w \in SUBSET {"read", "write"}
  PROVE  LET q == Update(r, h, l, b, d, k, w)
         IN  /\ q \in Socket
             /\ q.type = r.type /\ q.id = r.id /\ q.fd = r.fd /\ q.tcp = r.tcp /\ q.tag = r.tag
             /\ q.sending = r.sending /\ q.wb_size = b /\ q.high = h /\ q.low = l
  BY DEF Update, Socket

(* Sending writes into s as many units as it says in the backlog.          *)
Updates(s) ==
    \E h \in Seq(Buffer), l \in Seq(Buffer), b \in Int, d \in Buffer \cup {None},
       k \in BOOLEAN, w \in SUBSET {"read", "write"} :
        /\ slot' = [slot EXCEPT ![s] = Update(slot[s], h, l, b, d, k, w)]
        /\ b - slot[s].wb_size =
               (Total(h) + Total(l)) - (Total(slot[s].high) + Total(slot[s].low))

LEMMA UpdatesKeep ==
  ASSUME Shape, NEW s \in Slot, Updates(s)
  PROVE  /\ AllSame /\ slot' \in [Slot -> Socket]
         /\ \A t \in Slot : slot'[t].sending = slot[t].sending /\ Excess(t)' = Excess(t)
<1>1. slot \in [Slot -> Socket] /\ slot[s] \in Socket
  BY DEF Shape, TypeOK
<1>2. PICK h \in Seq(Buffer), l \in Seq(Buffer), b \in Int, d \in Buffer \cup {None},
           k \in BOOLEAN, w \in SUBSET {"read", "write"} :
        /\ slot' = [slot EXCEPT ![s] = Update(slot[s], h, l, b, d, k, w)]
        /\ b - slot[s].wb_size =
               (Total(h) + Total(l)) - (Total(slot[s].high) + Total(slot[s].low))
  BY DEF Updates
<1> DEFINE q == Update(slot[s], h, l, b, d, k, w)
<1>3. /\ q \in Socket /\ q.type = slot[s].type /\ q.id = slot[s].id /\ q.fd = slot[s].fd
      /\ q.tcp = slot[s].tcp /\ q.tag = slot[s].tag /\ q.sending = slot[s].sending
      /\ q.wb_size = b /\ q.high = h /\ q.low = l
  BY <1>1, UpdateIsSocket
<1>4. slot' = [slot EXCEPT ![s] = q]
  BY <1>2
<1> HIDE DEF q
<1>5. slot' \in [Slot -> Socket] /\ slot'[s] = q /\ \A t \in Slot : t # s => slot'[t] = slot[t]
  BY <1>1, <1>3, <1>4, OneSlot
<1>6. Excess(s)' = Excess(s)
  <2>1. Total(h) \in Nat /\ Total(l) \in Nat
    BY TotalIsNat
  <2>2. /\ slot[s].high \in Seq(Buffer) /\ slot[s].low \in Seq(Buffer)
        /\ slot[s].wb_size \in Int
    BY <1>1 DEF Socket
  <2>3. Total(slot[s].high) \in Nat /\ Total(slot[s].low) \in Nat
    BY <2>2, TotalIsNat
  <2>4. Excess(s)' = b - (Total(h) + Total(l))
    BY <1>3, <1>5 DEF Excess
  <2> DEFINE x == Total(h) + Total(l)
             y == Total(slot[s].high) + Total(slot[s].low)
             z == slot[s].wb_size
  <2>5. x \in Int /\ y \in Int /\ z \in Int /\ b \in Int /\ b - z = x - y
    BY SMTT(30), <1>2, <2>1, <2>2, <2>3
  <2>6. Excess(s) = z - y /\ Excess(s)' = b - x
    BY <2>4 DEF Excess
  <2> HIDE DEF x, y, z
  <2>7. b - x = z - y
    BY <2>5
  <2> QED
    BY <2>6, <2>7
<1>7. \A t \in Slot : Excess(t)' = Excess(t)
  BY <1>5, <1>6 DEF Excess
<1> QED
  BY <1>3, <1>5, <1>7 DEF AllSame, Same
(* send_buffer takes over what a direct write has left.                    *)
LEMMA TakeDirectUpdates ==
  ASSUME Shape, NEW s \in Slot, slot' = [slot EXCEPT ![s] = TakeDirect(s)]
  PROVE  Updates(s)
<1> DEFINE r == slot[s]
<1>1. r \in Socket
  BY DEF Shape, TypeOK
<1>2. /\ r.high \in Seq(Buffer) /\ r.low \in Seq(Buffer) /\ r.wb_size \in Int
      /\ r.dw \in Buffer \cup {None} /\ r.dw_lock \in BOOLEAN
      /\ r.watch \in SUBSET {"read", "write"}
  BY <1>1 DEF Socket
<1>3. Total(r.high) \in Nat /\ Total(r.low) \in Nat
  BY <1>2, TotalIsNat
<1>4. CASE r.dw = None
  <2>1. TakeDirect(s) = Update(r, r.high, r.low, r.wb_size, r.dw, r.dw_lock, r.watch)
    BY <1>1, <1>4 DEF TakeDirect, Update, Socket
  <2>2. r.wb_size - r.wb_size
          = (Total(r.high) + Total(r.low)) - (Total(r.high) + Total(r.low))
    BY <1>2, <1>3
  <2>3. slot' = [slot EXCEPT ![s] = Update(r, r.high, r.low, r.wb_size, r.dw, r.dw_lock, r.watch)]
    BY <2>1
  <2> QED
    BY ZenonT(40), <1>2, <2>2, <2>3 DEF Updates
<1>5. CASE r.dw # None
  <2> DEFINE h == <<r.dw>> \o r.high
             b == r.wb_size + r.dw.sz
  <2>1. r.dw \in Buffer /\ r.dw.sz \in Nat
    BY <1>2, <1>5 DEF Buffer
  <2>2. h \in Seq(Buffer) /\ Total(h) = r.dw.sz + Total(r.high)
    BY <1>2, <2>1, TotalOfCons
  <2>3. TakeDirect(s) = Update(r, h, r.low, b, None, r.dw_lock, r.watch)
    BY <1>1, <1>5 DEF TakeDirect, Update, Socket
  <2>4. b \in Int /\ b - r.wb_size = (Total(h) + Total(r.low)) - (Total(r.high) + Total(r.low))
    BY <1>2, <1>3, <2>1, <2>2
  <2> HIDE DEF h, b
  <2>5. slot' = [slot EXCEPT ![s] = Update(r, h, r.low, b, None, r.dw_lock, r.watch)]
    BY <2>3
  <2> QED
    <3> USE <1>2, <2>2, <2>4 DEF Updates
    <3> WITNESS h \in Seq(Buffer), r.low \in Seq(Buffer), b \in Int,
                None \in Buffer \cup {None}, r.dw_lock \in BOOLEAN,
                r.watch \in SUBSET {"read", "write"}
    <3> QED
      BY <2>5
<1> QED
  BY <1>4, <1>5

(* A lock taken or released, events watched or not                         *)
LEMMA LockUpdates ==
  ASSUME Shape, NEW s \in Slot, NEW k \in BOOLEAN, NEW w \in SUBSET {"read", "write"},
         slot' = [slot EXCEPT ![s].dw_lock = k, ![s].watch = w]
  PROVE  Updates(s)
<1> DEFINE r == slot[s]
<1>1. r \in Socket /\ slot \in [Slot -> Socket]
  BY DEF Shape, TypeOK
<1>2. /\ r.high \in Seq(Buffer) /\ r.low \in Seq(Buffer) /\ r.wb_size \in Int
      /\ r.dw \in Buffer \cup {None}
  BY <1>1 DEF Socket
<1>3. Total(r.high) \in Nat /\ Total(r.low) \in Nat
  BY <1>2, TotalIsNat
<1>4. [r EXCEPT !.dw_lock = k, !.watch = w] = Update(r, r.high, r.low, r.wb_size, r.dw, k, w)
  BY <1>1 DEF Update, Socket
<1>5. r.wb_size - r.wb_size
        = (Total(r.high) + Total(r.low)) - (Total(r.high) + Total(r.low))
  BY <1>2, <1>3
<1>6. slot' = [slot EXCEPT ![s] = [r EXCEPT !.dw_lock = k, !.watch = w]]
  BY <1>1
<1>7. slot' = [slot EXCEPT ![s] = Update(r, r.high, r.low, r.wb_size, r.dw, k, w)]
  BY <1>4, <1>6
<1> USE <1>2 DEF Updates
<1> WITNESS r.high \in Seq(Buffer), r.low \in Seq(Buffer), r.wb_size \in Int,
            r.dw \in Buffer \cup {None}, k \in BOOLEAN, w \in SUBSET {"read", "write"}
<1> QED
  BY <1>5, <1>7

(* A message is queued.                                                    *)
LEMMA QueuedUpdates ==
  ASSUME Shape, NEW s \in Slot, NEW msg \in Message, NEW list \in {"high", "low"},
         NEW w \in SUBSET {"read", "write"},
         slot' = [slot EXCEPT ![s] = [Queued(s, list, msg) EXCEPT !.watch = w]]
  PROVE  Updates(s)
<1> DEFINE r == slot[s]
           buf == Whole(msg)
           b == r.wb_size + Size
<1>1. r \in Socket
  BY DEF Shape, TypeOK
<1>2. /\ r.high \in Seq(Buffer) /\ r.low \in Seq(Buffer) /\ r.wb_size \in Int
      /\ r.dw \in Buffer \cup {None} /\ r.dw_lock \in BOOLEAN
  BY <1>1 DEF Socket
<1>3. Total(r.high) \in Nat /\ Total(r.low) \in Nat
  BY <1>2, TotalIsNat
<1>4. buf \in Buffer /\ buf.sz = Size /\ Size \in Nat
  BY WholeIsBuffer, SocketAssumption DEF Whole
<1>5. CASE list = "high"
  <2> DEFINE h == Append(r.high, buf)
  <2>1. h \in Seq(Buffer) /\ Total(h) = Total(r.high) + Size
    BY <1>2, <1>4, TotalOfAppend
  <2>2. [Queued(s, list, msg) EXCEPT !.watch = w] = Update(r, h, r.low, b, r.dw, r.dw_lock, w)
    BY Zenon, <1>1, <1>5 DEF Queued, Update, Socket
  <2>3. b \in Int /\ b - r.wb_size = (Total(h) + Total(r.low)) - (Total(r.high) + Total(r.low))
    BY <1>2, <1>3, <1>4, <2>1
  <2> HIDE DEF h, b
  <2>4. slot' = [slot EXCEPT ![s] = Update(r, h, r.low, b, r.dw, r.dw_lock, w)]
    BY <2>2
  <2> QED
    BY ZenonT(40), <1>2, <2>1, <2>3, <2>4 DEF Updates
<1>6. CASE list = "low"
  <2> DEFINE l == Append(r.low, buf)
  <2>1. l \in Seq(Buffer) /\ Total(l) = Total(r.low) + Size
    BY <1>2, <1>4, TotalOfAppend
  <2>2. [Queued(s, list, msg) EXCEPT !.watch = w] = Update(r, r.high, l, b, r.dw, r.dw_lock, w)
    BY Zenon, <1>1, <1>6 DEF Queued, Update, Socket
  <2>3. b \in Int /\ b - r.wb_size = (Total(r.high) + Total(l)) - (Total(r.high) + Total(r.low))
    BY <1>2, <1>3, <1>4, <2>1
  <2> HIDE DEF l, b
  <2>4. slot' = [slot EXCEPT ![s] = Update(r, r.high, l, b, r.dw, r.dw_lock, w)]
    BY <2>2
  <2> USE <1>2, <2>1, <2>3 DEF Updates
  <2> WITNESS r.high \in Seq(Buffer), l \in Seq(Buffer), b \in Int,
              r.dw \in Buffer \cup {None}, r.dw_lock \in BOOLEAN,
              w \in SUBSET {"read", "write"}
  <2> QED
    BY <2>4
<1> QED
  BY <1>5, <1>6
LEMMA SendSocketUpdates ==
  ASSUME Shape, SendSocket
  PROVE  /\ Head(pipe).id \in ready /\ HASH_ID(Head(pipe).id) \in Slot
         /\ slot' = slot \/ Updates(HASH_ID(Head(pipe).id))
<1> DEFINE id == Head(pipe).id
           msg == Head(pipe).msg
           s == HASH_ID(id)
<1>1. id \in ready /\ s \in Slot /\ msg \in Message /\ id \in Id
  BY Zenon, HeadOfPipe DEF SendSocket, Command
<1>2. slot[s] \in Socket
  BY <1>1 DEF Shape, TypeOK
<1>3. \/ slot' = slot
      \/ slot' = [slot EXCEPT ![s] = [Queued(s, "high", msg) EXCEPT !.watch = Watch(TRUE)]]
      \/ \E list \in {"high", "low"} : slot' = [slot EXCEPT ![s] = Queued(s, list, msg)]
  BY Zenon DEF SendSocket
<1> HIDE DEF msg, id
<1>4. CASE slot' = [slot EXCEPT ![s] = [Queued(s, "high", msg) EXCEPT !.watch = Watch(TRUE)]]
  <2>1. PICK w \in SUBSET {"read", "write"} : w = Watch(TRUE)
    BY DEF Watch
  <2>2. PICK list \in {"high", "low"} : list = "high"
    OBVIOUS
  <2>3. slot' = [slot EXCEPT ![s] = [Queued(s, list, msg) EXCEPT !.watch = w]]
    BY <1>4, <2>1, <2>2
  <2> HIDE DEF s
  <2> QED
    BY <1>1, <2>3, QueuedUpdates DEF s, id
<1>5. CASE \E list \in {"high", "low"} : slot' = [slot EXCEPT ![s] = Queued(s, list, msg)]
  <2>1. PICK list \in {"high", "low"} : slot' = [slot EXCEPT ![s] = Queued(s, list, msg)]
    BY <1>5
  <2>2. PICK w \in SUBSET {"read", "write"} : w = slot[s].watch
    BY <1>2 DEF Socket
  <2>3. [Queued(s, list, msg) EXCEPT !.watch = w] = Queued(s, list, msg)
    <3>1. CASE list = "high"
      BY Zenon, <1>2, <2>2, <3>1 DEF Queued, Socket
    <3>2. CASE list = "low"
      BY Zenon, <1>2, <2>2, <3>2 DEF Queued, Socket
    <3> QED
      BY <3>1, <3>2
  <2>4. slot' = [slot EXCEPT ![s] = [Queued(s, list, msg) EXCEPT !.watch = w]]
    BY <2>1, <2>3
  <2> HIDE DEF s
  <2> QED
    BY <1>1, <2>4, QueuedUpdates DEF s, id
<1> QED
  BY <1>1, <1>3, <1>4, <1>5 DEF id

(* n units less wait, in the lists and in the backlog.                     *)
LEMMA LessUpdates ==
  ASSUME Shape, NEW s \in Slot, NEW h \in Seq(Buffer), NEW l \in Seq(Buffer), NEW b \in Int,
         NEW d \in Buffer \cup {None}, NEW k \in BOOLEAN, NEW w \in SUBSET {"read", "write"},
         NEW n \in Int, b = slot[s].wb_size - n,
         Total(h) + Total(l) + n = Total(slot[s].high) + Total(slot[s].low),
         slot' = [slot EXCEPT ![s] = Update(slot[s], h, l, b, d, k, w)]
  PROVE  Updates(s)
<1>1. slot[s] \in Socket
  BY DEF Shape, TypeOK
<1>2. /\ slot[s].high \in Seq(Buffer) /\ slot[s].low \in Seq(Buffer)
      /\ slot[s].wb_size \in Int
  BY <1>1 DEF Socket
<1>3. Total(slot[s].high) \in Nat /\ Total(slot[s].low) \in Nat
      /\ Total(h) \in Nat /\ Total(l) \in Nat
  BY <1>2, TotalIsNat
<1> DEFINE x == Total(h) + Total(l)
           y == Total(slot[s].high) + Total(slot[s].low)
           z == slot[s].wb_size
<1>4. x \in Int /\ y \in Int /\ z \in Int /\ x + n = y /\ b = z - n
  BY SMTT(30), <1>2, <1>3
<1> HIDE DEF x, y, z
<1>5. b - z = x - y
  BY <1>4
<1>6. b - slot[s].wb_size =
         (Total(h) + Total(l)) - (Total(slot[s].high) + Total(slot[s].low))
  BY <1>5 DEF x, y, z
<1> QED
  BY <1>6 DEF Updates

(* A list whose head has lost n units                                      *)
LEMMA HeadLoses ==
  ASSUME NEW list \in Seq(Buffer), list # <<>>, NEW n \in Int, n < Head(list).sz
  PROVE  LET d == Written(Head(list), n)
         IN  /\ d \in Buffer /\ Tail(list) \in Seq(Buffer)
             /\ <<d>> \o Tail(list) \in Seq(Buffer) /\ <<d>> \o Tail(list) # <<>>
             /\ Head(<<d>> \o Tail(list)) = d /\ Tail(<<d>> \o Tail(list)) = Tail(list)
             /\ Total(<<d>> \o Tail(list)) + n = Total(list)
             /\ <<d>> \in Seq(Buffer) /\ Total(<<d>>) + Total(Tail(list)) + n = Total(list)
<1> DEFINE buf == Head(list)
           rest == Tail(list)
           d == Written(buf, n)
           long == <<d>> \o rest
           one == <<d>>
<1>1. buf \in Buffer /\ rest \in Seq(Buffer) /\ Total(list) = buf.sz + Total(rest)
  BY TotalOfFirst
<1>2. d \in Buffer /\ d.sz = buf.sz - n
  BY <1>1, WrittenIsBuffer
<1> HIDE DEF d, rest, buf
<1>3. long \in Seq(Buffer) /\ Total(long) = d.sz + Total(rest)
  BY <1>1, <1>2, TotalOfCons
<1>4. one \in Seq(Buffer) /\ Total(one) = d.sz
  BY <1>2, TotalOfOne
<1>5. long # <<>> /\ Head(long) = d
  BY <1>1, <1>2
<1>6. Tail(long) = rest
  <2>1. /\ Tail(long) \in Seq(Buffer) /\ Len(Tail(long)) = Len(rest)
        /\ \A k \in 1..Len(rest) : Tail(long)[k] = rest[k]
    BY <1>1, <1>2
  <2> HIDE DEF long
  <2> QED
    BY SMTT(30), <1>1, <2>1
<1> DEFINE x == Total(long)
           y == Total(rest)
           z == Total(list)
           u == Total(one)
           v == buf.sz
           q == d.sz
<1>7. x \in Int /\ y \in Int /\ z \in Int /\ u \in Int /\ v \in Int /\ q \in Int
      /\ z = v + y /\ q = v - n /\ x = q + y /\ u = q
  BY SMTT(30), <1>1, <1>2, <1>3, <1>4, TotalIsNat DEF Buffer
<1> HIDE DEF x, y, z, u, v, q
<1>8. x + n = z /\ u + y + n = z
  BY <1>7
<1> HIDE DEF long, one
<1> QED
  BY <1>1, <1>2, <1>3, <1>4, <1>5, <1>6, <1>8 DEF x, y, z, u, long, one, rest, buf, d

(* One write of send_list_tcp: n units gone, or one more owed.             *)
LEMMA SendListUpdates ==
  ASSUME Shape, SendList
  PROVE  poll.s \in Slot /\ Updates(poll.s)
<1> DEFINE s == poll.s
           r == slot[s]
           list == IF r.high # <<>> THEN "high" ELSE "low"
           buf == Head(r[list])
           rest == Tail(r[list])
           Left(b, n) == [r EXCEPT ![list] = <<b>> \o rest, !.wb_size = @ - n, !.dw_lock = FALSE]
           After(b, n) == IF list = "low" THEN Raised(Left(b, n)) ELSE Left(b, n)
<1>1. s \in Slot
  BY Zenon DEF SendList, Shape, PollOK
<1>2. r \in Socket /\ slot \in [Slot -> Socket]
  BY <1>1 DEF Shape, TypeOK
<1>3. /\ r.high \in Seq(Buffer) /\ r.low \in Seq(Buffer) /\ r.wb_size \in Int
      /\ r.dw \in Buffer \cup {None} /\ r.dw_lock \in BOOLEAN
      /\ r.watch \in SUBSET {"read", "write"}
  BY <1>2 DEF Socket
<1>4. Total(r.high) \in Nat /\ Total(r.low) \in Nat /\ FALSE \in BOOLEAN
  BY <1>3, TotalIsNat
<1>5. ~(r.high = <<>> /\ r.low = <<>>)
  BY Zenon DEF SendList, Empty
<1>6. r[list] \in Seq(Buffer) /\ r[list] # <<>>
  BY <1>3, <1>5
<1>7. /\ buf \in Buffer /\ rest \in Seq(Buffer) /\ buf.sz \in Nat
      /\ Total(r[list]) = buf.sz + Total(rest) /\ Total(rest) \in Nat
  <2>1. buf \in Buffer /\ rest \in Seq(Buffer) /\ Total(r[list]) = buf.sz + Total(rest)
    BY <1>6, TotalOfFirst
  <2> QED
    BY <2>1, TotalIsNat DEF Buffer
<1>8. \/ slot' = [slot EXCEPT ![s][list] = rest, ![s].wb_size = @ - buf.sz]
      \/ \E n \in Int : n < buf.sz /\ slot' = [slot EXCEPT ![s] = After(Written(buf, n), n)]
  <2>1. \A n \in 1..buf.sz : n \in Int /\ (n # buf.sz => n < buf.sz)
    BY <1>7
  <2>2. -1 \in Int /\ -1 < buf.sz
    BY <1>7
  <2>3. \/ slot' = [slot EXCEPT ![s][list] = rest, ![s].wb_size = @ - buf.sz]
        \/ \E n \in 1..buf.sz : n # buf.sz /\ slot' = [slot EXCEPT ![s] = After(Written(buf, n), n)]
        \/ slot' = [slot EXCEPT ![s] = After(Again(buf), -1)]
    BY Zenon DEF SendList, Sent
  <2> HIDE DEF After, buf
  <2> QED
    BY <2>1, <2>2, <2>3 DEF Again
<1>9. CASE slot' = [slot EXCEPT ![s][list] = rest, ![s].wb_size = @ - buf.sz]
  <2> DEFINE n == buf.sz
             b == r.wb_size - n
  <2>1. n \in Int /\ b \in Int /\ Total(rest) + n = Total(r[list])
    <3> DEFINE z == Total(r[list])
               v == Total(rest)
    <3>1. n \in Nat /\ v \in Nat /\ z = n + v /\ r.wb_size \in Int
      BY <1>3, <1>7
    <3> HIDE DEF n, z, v
    <3>2. n \in Int /\ b \in Int /\ v + n = z
      BY <3>1
    <3> QED
      BY <3>2 DEF z, v
  <2>2. CASE r.high # <<>>
    <3>1. list = "high" /\ r[list] = r.high
      BY <2>2
    <3>2. [r EXCEPT !["high"] = rest, !.wb_size = b]
            = Update(r, rest, r.low, b, r.dw, r.dw_lock, r.watch)
      BY Zenon, <1>2 DEF Update, Socket
    <3>3. slot' = [slot EXCEPT ![s] = [r EXCEPT !["high"] = rest, !.wb_size = b]]
      BY Zenon, <1>1, <1>2, <1>9, <3>1
    <3>4. slot' = [slot EXCEPT ![s] = Update(r, rest, r.low, b, r.dw, r.dw_lock, r.watch)]
      BY Zenon, <3>2, <3>3
    <3>5. b = r.wb_size - n
      OBVIOUS
    <3> DEFINE x == Total(rest)
               y == Total(r.low)
               z == Total(r.high)
    <3>6. x \in Int /\ y \in Int /\ z \in Int /\ x + n = z
      BY <1>4, <1>7, <2>1, <3>1
    <3> HIDE DEF x, y, z, b, n, rest
    <3>7. x + y + n = z + y
      BY <2>1, <3>6
    <3>8. Total(rest) + Total(r.low) + n = Total(r.high) + Total(r.low)
      BY <3>7 DEF x, y, z
    <3> QED
      BY <1>1, <1>3, <1>7, <2>1, <3>4, <3>5, <3>8, LessUpdates
  <2>3. CASE r.high = <<>>
    <3>1. list = "low" /\ r[list] = r.low
      BY <2>3
    <3>2. [r EXCEPT !["low"] = rest, !.wb_size = b]
            = Update(r, r.high, rest, b, r.dw, r.dw_lock, r.watch)
      BY Zenon, <1>2 DEF Update, Socket
    <3>3. slot' = [slot EXCEPT ![s] = [r EXCEPT !["low"] = rest, !.wb_size = b]]
      BY Zenon, <1>1, <1>2, <1>9, <3>1
    <3>4. slot' = [slot EXCEPT ![s] = Update(r, r.high, rest, b, r.dw, r.dw_lock, r.watch)]
      BY Zenon, <3>2, <3>3
    <3>5. b = r.wb_size - n
      OBVIOUS
    <3> DEFINE x == Total(rest)
               y == Total(r.high)
               z == Total(r.low)
    <3>6. x \in Int /\ y \in Int /\ z \in Int /\ x + n = z
      BY <1>4, <1>7, <2>1, <3>1
    <3> HIDE DEF x, y, z, b, n, rest
    <3>7. y + x + n = y + z
      BY <2>1, <3>6
    <3>8. Total(r.high) + Total(rest) + n = Total(r.high) + Total(r.low)
      BY <3>7 DEF x, y, z
    <3> QED
      BY <1>1, <1>3, <1>7, <2>1, <3>4, <3>5, <3>8, LessUpdates
  <2> QED
    BY <2>2, <2>3
<1>10. ASSUME NEW n \in Int, n < buf.sz,
              slot' = [slot EXCEPT ![s] = After(Written(buf, n), n)]
       PROVE  Updates(s)
  <2> DEFINE d == Written(buf, n)
             long == <<d>> \o rest
             one == <<d>>
             b == r.wb_size - n
             k == FALSE
  <2>1. b \in Int /\ k \in BOOLEAN /\ b = r.wb_size - n
    BY <1>3
  <2>2. /\ long \in Seq(Buffer) /\ long # <<>> /\ Head(long) = d /\ Tail(long) = rest
        /\ Total(long) + n = Total(r[list])
        /\ one \in Seq(Buffer) /\ Total(one) + Total(rest) + n = Total(r[list])
    BY Zenon, <1>6, <1>10, HeadLoses
  <2>3. slot' = [slot EXCEPT ![s] = After(d, n)]
    BY Zenon, <1>10
  <2> DEFINE x == Total(long)
             u == Total(one)
             v == Total(rest)
             y == Total(r.low)
             z == Total(r.high)
  <2>4. x \in Int /\ y \in Int /\ z \in Int /\ u \in Int /\ v \in Int
    <3> HIDE DEF long, one, rest, buf, d
    <3>1. x \in Nat /\ u \in Nat
      BY <2>2, TotalIsNat
    <3>2. y \in Nat /\ z \in Nat /\ v \in Nat
      BY <1>4, <1>7
    <3> HIDE DEF x, y, z, u, v
    <3> QED
      BY <3>1, <3>2
  <2> HIDE DEF d
  <2>5. CASE r.high # <<>>
    <3>1. list = "high" /\ r[list] = r.high
      BY <2>5
    <3>2. After(d, n) = Update(r, long, r.low, b, r.dw, k, r.watch)
      BY Zenon, <1>2, <3>1 DEF Update, Socket
    <3>3. slot' = [slot EXCEPT ![s] = Update(r, long, r.low, b, r.dw, k, r.watch)]
      BY Zenon, <2>3, <3>2
    <3>4. x + n = z
      BY <2>2, <3>1
    <3> HIDE DEF x, y, z, u, v, b, k, long
    <3>5. x + y + n = z + y
      BY <2>4, <3>4
    <3>6. Total(long) + Total(r.low) + n = Total(r.high) + Total(r.low)
      BY <3>5 DEF x, y, z
    <3> QED
      BY <1>1, <1>3, <2>1, <2>2, <3>3, <3>6, LessUpdates
  <2>6. CASE r.high = <<>> /\ d.ptr = 0
    <3>1. list = "low" /\ r[list] = r.low
      BY <2>6
    <3>2. After(d, n) = Update(r, r.high, long, b, r.dw, k, r.watch)
      <4>1. Left(d, n) = Update(r, r.high, long, b, r.dw, k, r.watch)
        BY Zenon, <1>2, <3>1 DEF Update, Socket
      <4>2. Left(d, n).low = long
        BY <1>2, <3>1 DEF Socket
      <4>3. After(d, n) = Left(d, n)
        <5> HIDE DEF Left, long
        <5> QED
          BY <2>2, <2>6, <3>1, <4>2 DEF Raised
      <4> QED
        BY Zenon, <4>1, <4>3
    <3>3. slot' = [slot EXCEPT ![s] = Update(r, r.high, long, b, r.dw, k, r.watch)]
      BY Zenon, <2>3, <3>2
    <3>4. x + n = y
      BY <2>2, <3>1
    <3> HIDE DEF x, y, z, u, v, b, k, long
    <3>5. z + x + n = z + y
      BY <2>4, <3>4
    <3>6. Total(r.high) + Total(long) + n = Total(r.high) + Total(r.low)
      BY <3>5 DEF x, y, z
    <3> QED
      BY <1>1, <1>3, <2>1, <2>2, <3>3, <3>6, LessUpdates
  <2>7. CASE r.high = <<>> /\ d.ptr # 0
    <3>1. list = "low" /\ r[list] = r.low
      BY <2>7
    <3>2. After(d, n) = Update(r, one, rest, b, r.dw, k, r.watch)
      <4>1. Left(d, n) = Update(r, r.high, long, b, r.dw, k, r.watch)
        BY Zenon, <1>2, <3>1 DEF Update, Socket
      <4>2. Left(d, n).low = long
        BY <1>2, <3>1 DEF Socket
      <4>3. After(d, n) = [Left(d, n) EXCEPT !.high = one, !.low = rest]
        <5> HIDE DEF Left, long
        <5> QED
          BY <2>2, <2>7, <3>1, <4>2 DEF Raised
      <4>4. [Update(r, r.high, long, b, r.dw, k, r.watch) EXCEPT !.high = one, !.low = rest]
              = Update(r, one, rest, b, r.dw, k, r.watch)
        <5> HIDE DEF one, rest, long, b, k
        <5> QED
          BY <1>2 DEF Update, Socket
      <4> HIDE DEF Left, After, one, rest, long, b, k
      <4> QED
        BY <4>1, <4>3, <4>4
    <3>3. slot' = [slot EXCEPT ![s] = Update(r, one, rest, b, r.dw, k, r.watch)]
      BY Zenon, <2>3, <3>2
    <3>4. u + v + n = y
      BY <2>2, <3>1
    <3>5. z = 0
      BY <2>7, TotalOfNone
    <3> HIDE DEF x, y, z, u, v, b, k, one, rest
    <3>6. u + v + n = z + y
      BY <2>4, <3>4, <3>5
    <3>7. Total(one) + Total(rest) + n = Total(r.high) + Total(r.low)
      BY <3>6 DEF u, v, y, z
    <3> QED
      BY <1>1, <1>3, <1>7, <2>1, <2>2, <3>3, <3>7, LessUpdates
  <2> QED
    BY <2>5, <2>6, <2>7
<1> QED
  <2> HIDE DEF After, buf, rest, list
  <2> QED
    BY <1>1, <1>8, <1>9, <1>10

(* A step of the thread that sends, takes or releases a lock, or counts    *)
LEMMA UpdateShape ==
  ASSUME Shape, NEW s \in Slot, slot' = slot \/ Updates(s),
         UNCHANGED <<alloc_id, calling, open, given, ready, calls, checkctrl>>,
         pipe' = pipe \/ (pipe # <<>> /\ pipe' = Tail(pipe)),
         PollOK', poll' \in Work, ev' \in Seq(Event), Len(ev') <= MAX_EVENT,
         agains' \in 0..MaxAgain
  PROVE  Shape'
<1>1. AllSame /\ slot' \in [Slot -> Socket]
  <2>1. CASE slot' = slot
    BY <2>1 DEF AllSame, Same, Shape, TypeOK
  <2>2. CASE Updates(s)
    BY <2>2, UpdatesKeep
  <2> QED
    BY <2>1, <2>2
<1>2. PipeOK'
  <2>1. Grows
    BY DEF Grows, Shape, TypeOK, Id
  <2> QED
    BY <2>1, PipeKept, PipeTail
<1>3. checkctrl' \in BOOLEAN
  BY DEF Shape, TypeOK
<1> QED
  BY <1>1, <1>2, <1>3, ThreadShape

(* Where the thread is when it sends                                       *)
LEMMA Sends ==
  ASSUME Shape, NEW pc \in {"lists", "decide"}, poll' = [poll EXCEPT !.pc = pc],
         poll.pc \in {"sendbuf", "lists"}, pc = "decide" => poll.by \in {"close", "shutdown"},
         AllSame, given' = given
  PROVE  poll' \in Work /\ PollOK'
<1>1. poll \in Work /\ PollOK
  BY DEF Shape, TypeOK
<1>2. poll' \in Work /\ poll'.pc = pc /\ poll'.s = poll.s /\ poll'.by = poll.by
  BY Zenon, <1>1 DEF Work
<1>3. slot'[poll.s].type # "INVALID" /\ poll.s \in Slot
      /\ (poll.by # "event" => slot'[poll.s].id \in given')
      /\ poll.by \in {"event", "close", "shutdown"}
  BY <1>1 DEF PollOK, AllSame, Same
<1> QED
  BY <1>2, <1>3 DEF PollOK

LEMMA SendSocketShape ==
  ASSUME Shape, SendSocket
  PROVE  Shape'
<1> DEFINE id == Head(pipe).id
           s == HASH_ID(id)
           by == ""
           pc == "count"
<1>1. /\ UNCHANGED <<alloc_id, calling, open, given, ready, calls, checkctrl, ev, agains>>
      /\ pipe # <<>> /\ pipe' = Tail(pipe) /\ poll' = In(pc, s, id, by)
  BY Zenon DEF SendSocket, Command, kernel, services
<1>2. id \in ready /\ s \in Slot /\ (slot' = slot \/ Updates(s))
  BY SendSocketUpdates
<1>3. ev' \in Seq(Event) /\ Len(ev') <= MAX_EVENT /\ agains' \in 0..MaxAgain
      /\ ready \subseteq Id
  BY Zenon, <1>1 DEF Shape, TypeOK
<1>4. poll' \in Work /\ poll'.pc = pc /\ poll'.s = s /\ poll'.id = id
  BY Zenon, <1>1, <1>2, <1>3 DEF In, Work
<1>5. PollOK'
  BY Zenon, <1>1, <1>2, <1>4 DEF PollOK
<1> HIDE DEF id
<1> QED
  BY Zenon, <1>1, <1>2, <1>3, <1>4, <1>5, UpdateShape

LEMMA SendBufferShape ==
  ASSUME Shape, SendBuffer
  PROVE  Shape' /\ Updates(poll.s)
<1> DEFINE s == poll.s
<1>1. UNCHANGED <<alloc_id, pipe, calling, open, given, ready, calls, checkctrl, ev, agains>>
  BY DEF SendBuffer, kernel, services
<1>2. s \in Slot /\ poll.by \in {"close", "shutdown"} /\ slot[s] \in Socket
      /\ slot \in [Slot -> Socket]
  BY DEF SendBuffer, Shape, PollOK, TypeOK
<1>3. Updates(s)
  <2>1. CASE slot' = [slot EXCEPT ![s] = TakeDirect(s)]
    BY <1>2, <2>1, TakeDirectUpdates
  <2>2. CASE slot' = [slot EXCEPT ![s].dw_lock = TRUE]
    <3>1. PICK k \in BOOLEAN : k = TRUE
      OBVIOUS
    <3>2. PICK w \in SUBSET {"read", "write"} : w = slot[s].watch
      BY <1>2 DEF Socket
    <3>3. slot' = [slot EXCEPT ![s].dw_lock = k, ![s].watch = w]
      BY <1>2, <2>2, <3>1, <3>2 DEF Socket
    <3> QED
      BY Zenon, <1>2, <3>3, LockUpdates
  <2> QED
    BY <2>1, <2>2 DEF SendBuffer
<1>4. poll' \in Work /\ PollOK'
  <2>1. AllSame
    BY <1>2, <1>3, UpdatesKeep
  <2>2. \E pc \in {"lists", "decide"} : poll' = [poll EXCEPT !.pc = pc]
    BY DEF SendBuffer
  <2> QED
    BY <1>1, <1>2, <2>1, <2>2, Sends DEF SendBuffer
<1>5. ev' \in Seq(Event) /\ Len(ev') <= MAX_EVENT /\ agains' \in 0..MaxAgain
  BY <1>1 DEF Shape, TypeOK
<1> QED
  BY <1>1, <1>2, <1>3, <1>4, <1>5, UpdateShape

(* After the sending                                                       *)
LEMMA SentMoves ==
  ASSUME Shape, poll.pc = "lists", AllSame, given' = given, Sent(slot')
  PROVE  /\ poll' \in Work /\ PollOK'
         /\ ev' \in Seq(Event) /\ Len(ev') <= MAX_EVENT
         /\ poll'.pc \in Resting \cup {"decide"}
<1>1. ev \in Seq(Event) /\ Len(ev) <= MAX_EVENT /\ poll.by \in {"event", "close", "shutdown"}
      /\ checkctrl \in BOOLEAN /\ poll \in Work
  BY DEF Shape, TypeOK, PollOK
<1>2. CASE poll.by = "event"
  BY <1>1, <1>2, NextEventRests DEF Sent
<1>3. CASE poll.by # "event"
  <2>1. ev' = ev /\ \E pc \in {"lists", "decide"} : poll' = [poll EXCEPT !.pc = pc]
    BY <1>3 DEF Sent
  <2>2. poll'.pc = "decide"
    BY Zenon, <1>1, <1>3 DEF Sent, Work
  <2> QED
    BY <1>1, <1>3, <2>1, <2>2, Sends
<1> QED
  BY <1>2, <1>3

LEMMA SendListShape ==
  ASSUME Shape, SendList
  PROVE  Shape' /\ Updates(poll.s)
<1>1. UNCHANGED <<alloc_id, pipe, calling, open, given, ready, calls, checkctrl>>
  BY Zenon DEF SendList, services
<1>2. poll.s \in Slot /\ Updates(poll.s) /\ poll.pc = "lists"
  BY Zenon, SendListUpdates DEF SendList
<1>3. (ev' = ev /\ poll' = poll) \/ Sent(slot')
  BY Zenon DEF SendList, Sent
<1>4. AllSame
  BY <1>2, UpdatesKeep
<1>5. poll' \in Work /\ PollOK' /\ ev' \in Seq(Event) /\ Len(ev') <= MAX_EVENT
  <2>1. CASE ev' = ev /\ poll' = poll
    <3>1. Grows
      BY <1>1 DEF Grows, Shape, TypeOK, Id
    <3> QED
      BY <1>1, <1>4, <2>1, <3>1, PollKept DEF Shape, TypeOK
  <2>2. CASE Sent(slot')
    BY <1>1, <1>2, <1>4, <2>2, SentMoves
  <2> QED
    BY <1>3, <2>1, <2>2
<1>6. agains' \in 0..MaxAgain
  <2>1. agains' = agains \/ (agains < MaxAgain /\ agains' = agains + 1)
    BY Zenon DEF SendList, MayFail
  <2> QED
    BY <2>1, SocketAssumption DEF Shape, TypeOK
<1> QED
  BY <1>1, <1>2, <1>5, <1>6, UpdateShape

LEMMA AllSentShape ==
  ASSUME Shape, AllSent
  PROVE  /\ Shape' /\ AllSame /\ poll.s \in Slot
         /\ \A t \in Slot : /\ slot'[t].sending = slot[t].sending
                            /\ \/ Excess(t)' = Excess(t)
                               \/ poll'.pc \in {"close", "closeHeld"} /\ poll'.s = t
<1> DEFINE s == poll.s
<1>1. UNCHANGED <<alloc_id, pipe, calling, open, given, ready, calls, checkctrl, agains>>
  BY DEF AllSent, kernel, services
<1>2. /\ s \in Slot /\ slot[s].type # "INVALID" /\ poll.by \in {"event", "close", "shutdown"}
      /\ poll.id \in {0} \cup Id /\ slot[s] \in Socket /\ slot \in [Slot -> Socket]
      /\ poll.pc = "lists"
  BY Zenon DEF AllSent, Shape, PollOK, TypeOK, Work
<1>3. /\ ev \in Seq(Event) /\ Len(ev) <= MAX_EVENT /\ checkctrl' \in BOOLEAN
      /\ agains' \in 0..MaxAgain
  BY <1>1 DEF Shape, TypeOK
<1>4. PipeOK'
  BY <1>1, PipeKept DEF Grows, Shape, TypeOK, Id
<1>5. CASE poll' = At("abort") /\ slot' = slot /\ ev' = ev
  <2>1. poll' \in Work /\ poll'.pc \in Resting
    <3>1. PICK pc \in Resting : pc = "abort"
      BY DEF Resting
    <3>2. At(pc) \in Work /\ At(pc).pc = pc
      BY AtIsWork
    <3> QED
      BY <1>5, <3>1, <3>2
  <2>2. AllSame /\ slot' \in [Slot -> Socket]
    BY <1>2, <1>5 DEF AllSame, Same
  <2>3. \A t \in Slot : Excess(t)' = Excess(t) /\ slot'[t].sending = slot[t].sending
    BY <1>5 DEF Excess
  <2> QED
    BY <1>1, <1>2, <1>3, <1>4, <1>5, <2>1, <2>2, <2>3, AtRest, ThreadShape
<1>6. CASE BeginClose("closeHeld", s, poll.id, poll.by) /\ ev' = ev
  <2>1. PICK pc \in {"close", "closeHeld"} : pc = "closeHeld"
    OBVIOUS
  <2>2. PICK id \in {0} \cup Id : id = poll.id
    BY <1>2
  <2>3. PICK by \in {"event", "close", "shutdown", "start"} : by = poll.by
    BY <1>2
  <2>4. BeginClose(pc, s, id, by)
    BY <1>6, <2>1, <2>2, <2>3
  <2>5. /\ AllSame /\ slot' \in [Slot -> Socket] /\ poll' \in Work /\ PollOK'
        /\ \A t \in Slot : /\ slot'[t].sending = slot[t].sending
                           /\ \/ Excess(t)' = Excess(t)
                              \/ poll'.pc \in {"close", "closeHeld"} /\ poll'.s = t
    BY <1>2, <2>4, BeginCloseKeeps
  <2> QED
    BY <1>1, <1>2, <1>3, <1>4, <1>6, <2>5, ThreadShape
<1>7. CASE Sent(slot') /\ slot' = [slot EXCEPT ![s].watch = IF @ = {} THEN {} ELSE Watch(FALSE),
                                              ![s].dw_lock = FALSE]
  <2>1. Updates(s)
    <3>1. PICK k \in BOOLEAN : k = FALSE
      OBVIOUS
    <3>2. PICK w \in SUBSET {"read", "write"} :
             w = IF slot[s].watch = {} THEN {} ELSE Watch(FALSE)
      BY DEF Watch
    <3>3. slot' = [slot EXCEPT ![s].dw_lock = k, ![s].watch = w]
      BY ZenonT(40), <1>2, <1>7, <3>1, <3>2 DEF Socket
    <3> QED
      BY Zenon, <1>2, <3>3, LockUpdates
  <2>2. /\ AllSame /\ slot' \in [Slot -> Socket]
        /\ \A t \in Slot : slot'[t].sending = slot[t].sending /\ Excess(t)' = Excess(t)
    BY <1>2, <2>1, UpdatesKeep
  <2>3. poll' \in Work /\ PollOK' /\ ev' \in Seq(Event) /\ Len(ev') <= MAX_EVENT
    BY <1>1, <1>2, <1>7, <2>2, SentMoves
  <2> QED
    BY <1>1, <1>2, <1>3, <1>4, <2>2, <2>3, ThreadShape
<1> QED
  BY <1>5, <1>6, <1>7 DEF AllSent, Sent

(* dec_sending_ref lowers the count of one slot.                           *)
LEMMA DecShape ==
  ASSUME Shape, Dec
  PROVE  /\ Shape' /\ AllSame /\ \A t \in Slot : Excess(t)' = Excess(t)
         /\ poll'.pc \in Resting
<1> DEFINE s == poll.s
           n == slot[s].sending - 1
           r == [slot[s] EXCEPT !.sending = n]
<1>1. UNCHANGED <<alloc_id, pipe, calling, open, given, ready, calls, checkctrl, agains, ev>>
  BY DEF Dec, kernel, services
<1>2. s \in Slot /\ slot[s] \in Socket /\ slot \in [Slot -> Socket]
  BY DEF Dec, Shape, PollOK, TypeOK
<1>3. /\ ev' \in Seq(Event) /\ Len(ev') <= MAX_EVENT /\ checkctrl' \in BOOLEAN
      /\ agains' \in 0..MaxAgain
  BY <1>1 DEF Shape, TypeOK
<1>4. PipeOK'
  BY <1>1, PipeKept DEF Grows, Shape, TypeOK, Id
<1>5. poll' \in Work /\ poll'.pc \in Resting
  <2>1. PICK pc \in Resting : poll' = At(pc)
    BY DEF Dec, Resting
  <2>2. At(pc) \in Work /\ At(pc).pc = pc
    BY AtIsWork
  <2> QED
    BY <2>1, <2>2
<1>6. /\ AllSame /\ slot' \in [Slot -> Socket]
      /\ \A t \in Slot : Excess(t)' = Excess(t)
  <2>1. CASE slot' = slot
    BY <1>2, <2>1 DEF AllSame, Same, Excess
  <2>2. CASE slot[s].sending # 0 /\ slot' = [slot EXCEPT ![s].sending = @ - 1]
    <3>1. n \in Nat
      BY <1>2, <2>2 DEF Socket
    <3>2. slot' = [slot EXCEPT ![s] = r]
      BY <2>2
    <3> HIDE DEF n
    <3>3. /\ r \in Socket /\ r.type = slot[s].type /\ r.id = slot[s].id
          /\ r.fd = slot[s].fd /\ r.tcp = slot[s].tcp /\ r.tag = slot[s].tag
          /\ r.high = slot[s].high /\ r.low = slot[s].low /\ r.wb_size = slot[s].wb_size
      BY <1>2, <3>1, SendingField
    <3> HIDE DEF r
    <3>4. /\ slot' \in [Slot -> Socket] /\ slot'[s] = r
          /\ \A t \in Slot : t # s => slot'[t] = slot[t]
      BY <1>2, <3>2, <3>3, OneSlot
    <3> QED
      BY <3>3, <3>4 DEF AllSame, Same, Excess
  <2> QED
    BY <2>1, <2>2 DEF Dec
<1> QED
  BY <1>1, <1>2, <1>3, <1>4, <1>5, <1>6, AtRest, ThreadShape
-----------------------------------------------------------------------------
(* The steps that give a slot another type                                 *)

Retype(r, type, d, k, w) ==
    [r EXCEPT !.type = type, !.dw = d, !.dw_lock = k, !.watch = w]

Retypes(s, type) ==
    \E d \in Buffer \cup {None}, k \in BOOLEAN, w \in SUBSET {"read", "write"} :
        slot' = [slot EXCEPT ![s] = Retype(slot[s], type, d, k, w)]

(* The slot's socket and what is counted of it stay.                       *)
Kept(s) ==
    /\ slot'[s].id = slot[s].id /\ slot'[s].fd = slot[s].fd
    /\ slot'[s].tcp = slot[s].tcp /\ slot'[s].tag = slot[s].tag
    /\ slot'[s].sending = slot[s].sending
    /\ Excess(s)' = Excess(s)

LEMMA RetypesKeep ==
  ASSUME Shape, NEW s \in Slot, NEW type \in Types, Retypes(s, type), Grows, alloc_id' \in Nat,
         type \notin {"INVALID", "RESERVE"} => slot[s].id # 0
  PROVE  /\ slot' \in [Slot -> Socket] /\ slot'[s].type = type
         /\ \A t \in Slot : /\ Kept(t) /\ SlotOK(t)'
                            /\ t # s => slot'[t].type = slot[t].type
<1>1. slot \in [Slot -> Socket] /\ slot[s] \in Socket
  BY DEF Shape, TypeOK
<1>2. PICK d \in Buffer \cup {None}, k \in BOOLEAN, w \in SUBSET {"read", "write"} :
        slot' = [slot EXCEPT ![s] = Retype(slot[s], type, d, k, w)]
  BY DEF Retypes
<1> DEFINE r == Retype(slot[s], type, d, k, w)
<1>3. /\ r \in Socket /\ r.type = type /\ r.id = slot[s].id /\ r.fd = slot[s].fd
      /\ r.tcp = slot[s].tcp /\ r.tag = slot[s].tag /\ r.sending = slot[s].sending
      /\ r.high = slot[s].high /\ r.low = slot[s].low /\ r.wb_size = slot[s].wb_size
  BY <1>1 DEF Retype, Socket
<1>4. slot' = [slot EXCEPT ![s] = r]
  BY <1>2
<1> HIDE DEF r
<1>5. /\ slot' \in [Slot -> Socket] /\ slot'[s] = r
      /\ \A t \in Slot : t # s => slot'[t] = slot[t]
  BY <1>1, <1>3, <1>4, OneSlot
<1>6. \A t \in Slot : Kept(t)
  BY <1>3, <1>5 DEF Kept, Excess
<1>7. \A t \in Slot : SlotOK(t)'
  <2> TAKE t \in Slot
  <2>1. SlotOK(t) /\ slot[t].fd \in Nat /\ alloc_id \in Nat
    BY SMTT(30), <1>1 DEF Shape, TypeOK, Socket, Id
  <2>2. slot'[t].type = IF t = s THEN type ELSE slot[t].type
    BY <1>3, <1>5
  <2> QED
    BY <1>6, <2>1, <2>2 DEF Kept, SlotOK, Grows
<1> QED
  BY <1>3, <1>5, <1>6, <1>7

(* A step of the thread that may change all of a slot but gives out no id  *)
LEMMA ThreadSlotShape ==
  ASSUME Shape, UNCHANGED <<alloc_id, calling, given, calls>>,
         ready \subseteq ready', ready' \subseteq given, open' \subseteq open \cup given,
         slot' \in [Slot -> Socket], \A s \in Slot : SlotOK(s)',
         pipe' = pipe \/ (pipe # <<>> /\ pipe' = Tail(pipe)),
         PollOK', poll' \in Work, ev' \in Seq(Event), Len(ev') <= MAX_EVENT,
         checkctrl' \in BOOLEAN, agains' \in 0..MaxAgain
  PROVE  Shape'
<1>1. Grows /\ alloc_id' \in Nat
  BY DEF Grows, Shape, TypeOK, Id
<1>2. CallingOK'
  BY <1>1, CallingKept
<1>3. PipeOK'
  BY <1>1, PipeKept, PipeTail
<1>4. KnownOK' /\ open' \subseteq Id
  BY DEF Shape, KnownOK, TypeOK
<1>5. TypeOK'
  BY <1>4 DEF Shape, TypeOK
<1> QED
  BY <1>2, <1>3, <1>4, <1>5 DEF Shape

LEMMA RetypeShape ==
  ASSUME Shape, NEW s \in Slot, NEW type \in Types, Retypes(s, type),
         type \notin {"INVALID", "RESERVE"} => slot[s].id # 0,
         UNCHANGED <<alloc_id, calling, given, calls, checkctrl, agains>>,
         ready \subseteq ready', ready' \subseteq given, open' \subseteq open,
         pipe' = pipe \/ (pipe # <<>> /\ pipe' = Tail(pipe)),
         poll'.pc \in Resting \cup {"reopen"}, poll'.pc = "reopen" => poll'.s \in Slot,
         poll' \in Work, ev' \in Seq(Event), Len(ev') <= MAX_EVENT
  PROVE  /\ Shape' /\ slot'[s].type = type
         /\ \A t \in Slot : Kept(t) /\ (t # s => slot'[t].type = slot[t].type)
<1>1. Grows /\ alloc_id' \in Nat
  BY DEF Grows, Shape, TypeOK, Id
<1>2. /\ slot' \in [Slot -> Socket] /\ slot'[s].type = type
      /\ \A t \in Slot : /\ Kept(t) /\ SlotOK(t)'
                         /\ t # s => slot'[t].type = slot[t].type
  BY <1>1, RetypesKeep
<1>3. PollOK'
  BY DEF PollOK, Resting
<1>4. checkctrl' \in BOOLEAN /\ agains' \in 0..MaxAgain
  BY DEF Shape, TypeOK
<1>5. Shape'
  BY <1>2, <1>3, <1>4, ThreadSlotShape
<1> QED
  BY <1>2, <1>5

(* The type alone is written.                                              *)
LEMMA TypeRetypes ==
  ASSUME Shape, NEW s \in Slot, NEW type \in Types, slot' = [slot EXCEPT ![s].type = type]
  PROVE  Retypes(s, type)
<1>1. slot[s] \in Socket /\ slot \in [Slot -> Socket]
  BY DEF Shape, TypeOK
<1>2. Retype(slot[s], type, slot[s].dw, slot[s].dw_lock, slot[s].watch)
        = [slot[s] EXCEPT !.type = type]
  BY <1>1 DEF Retype, Socket
<1>3. /\ slot[s].dw \in Buffer \cup {None} /\ slot[s].dw_lock \in BOOLEAN
      /\ slot[s].watch \in SUBSET {"read", "write"}
  BY <1>1 DEF Socket
<1>4. slot' = [slot EXCEPT ![s] = Retype(slot[s], type, slot[s].dw, slot[s].dw_lock, slot[s].watch)]
  BY <1>1, <1>2
<1> QED
  BY <1>3, <1>4 DEF Retypes

(* open_socket makes a slot free once more.                                *)
LEMMA OpenFailedShape ==
  ASSUME Shape, OpenFailed
  PROVE  /\ Shape' /\ poll.s \in Slot
         /\ \A t \in Slot : Kept(t) /\ (t # poll.s => slot'[t].type = slot[t].type)
<1> DEFINE s == poll.s
           by == ""
<1>1. /\ UNCHANGED <<alloc_id, pipe, calling, open, given, ready, calls, checkctrl, agains, ev>>
      /\ slot' = [slot EXCEPT ![s].type = "INVALID"]
      /\ poll' = In("clear", None, poll.id, by)
  BY Zenon DEF OpenFailed, kernel, services
<1>2. s \in Slot /\ slot[s] \in Socket /\ slot \in [Slot -> Socket] /\ poll.id \in {0} \cup Id
  BY Zenon DEF OpenFailed, Shape, PollOK, TypeOK, Work
<1>3. PICK type \in Types : type = "INVALID"
  BY DEF Types
<1>4. Retypes(s, type)
  BY Zenon, <1>1, <1>2, <1>3, TypeRetypes
<1>5. poll' \in Work /\ poll'.pc \in Resting /\ poll'.pc # "reopen"
  BY Zenon, <1>1, <1>2 DEF In, Work, Resting
<1>6. ev' \in Seq(Event) /\ Len(ev') <= MAX_EVENT /\ ready' \subseteq given
  BY Zenon, <1>1 DEF Shape, TypeOK
<1> QED
  BY Zenon, <1>1, <1>2, <1>3, <1>4, <1>5, <1>6, RetypeShape

(* close_socket closes, or leaves the socket half closed.                  *)
LEMMA CloseBegins ==
  ASSUME Shape, NEW s \in Slot, slot[s].type # "INVALID", NEW pc \in {"close", "closeHeld"},
         NEW id \in {0} \cup Id, NEW by \in {"event", "close", "shutdown", "start"},
         BeginClose(pc, s, id, by),
         UNCHANGED <<alloc_id, calling, open, given, ready, calls, checkctrl, agains>>,
         pipe' = pipe \/ (pipe # <<>> /\ pipe' = Tail(pipe)),
         ev' \in Seq(Event), Len(ev') <= MAX_EVENT
  PROVE  /\ Shape' /\ AllSame
         /\ poll'.pc \in {"abort", "close", "closeHeld"}
         /\ \A t \in Slot : /\ slot'[t].sending = slot[t].sending
                            /\ \/ Excess(t)' = Excess(t)
                               \/ poll'.pc \in {"close", "closeHeld"} /\ poll'.s = t
<1>1. /\ AllSame /\ slot' \in [Slot -> Socket] /\ poll' \in Work /\ PollOK'
      /\ poll'.pc \in {"abort", "close", "closeHeld"}
      /\ \A t \in Slot : /\ slot'[t].sending = slot[t].sending
                         /\ \/ Excess(t)' = Excess(t)
                            \/ poll'.pc \in {"close", "closeHeld"} /\ poll'.s = t
  BY BeginCloseKeeps
<1>2. PipeOK'
  BY PipeKept, PipeTail DEF Grows, Shape, TypeOK, Id
<1>3. checkctrl' \in BOOLEAN /\ agains' \in 0..MaxAgain
  BY DEF Shape, TypeOK
<1> QED
  BY <1>1, <1>2, <1>3, ThreadShape

(* What a step leaves of every slot: the socket it is of and what is       *)
(* counted, unless the socket is being closed; who has reserved it.        *)
Serving ==
    \A t \in Slot : /\ slot'[t].id = slot[t].id /\ slot'[t].fd = slot[t].fd
                    /\ slot'[t].tcp = slot[t].tcp /\ slot'[t].sending = slot[t].sending
                    /\ \/ Excess(t)' = Excess(t)
                       \/ poll'.pc \in {"close", "closeHeld"} /\ poll'.s = t
Reserving == \A t \in Slot : slot[t].type = "RESERVE" => slot'[t].type = "RESERVE"

LEMMA DecideShape ==
  ASSUME Shape, Decide
  PROVE  /\ Shape'
         /\ poll.s \in Slot /\ poll'.pc \in {"ctrl", "abort", "close", "closeHeld"}
         /\ \/ lost' /\ slot[poll.s].type = "RESERVE"
            \/ Reserving
         /\ Serving /\ (lost => lost')
<1> DEFINE s == poll.s
<1>1. UNCHANGED <<alloc_id, pipe, calling, open, given, ready, calls, checkctrl, agains, ev>>
  BY DEF Decide, kernel, services
<1>2. /\ s \in Slot /\ slot[s].type # "INVALID" /\ poll.by \in {"close", "shutdown"}
      /\ poll.id \in {0} \cup Id /\ slot[s] \in Socket /\ slot \in [Slot -> Socket]
      /\ slot[s].id \in given /\ given \subseteq Id
  BY Zenon DEF Decide, Shape, PollOK, TypeOK, Work
<1>3. ev' \in Seq(Event) /\ Len(ev') <= MAX_EVENT
  BY <1>1 DEF Shape, TypeOK
<1>4. CASE BeginClose("close", s, poll.id, poll.by) /\ lost' = lost
  <2>1. PICK pc \in {"close", "closeHeld"} : pc = "close"
    OBVIOUS
  <2>2. PICK id \in {0} \cup Id : id = poll.id
    BY <1>2
  <2>3. PICK by \in {"event", "close", "shutdown", "start"} : by = poll.by
    BY <1>2
  <2>4. BeginClose(pc, s, id, by)
    BY <1>4, <2>1, <2>2, <2>3
  <2>5. /\ Shape' /\ AllSame
        /\ poll'.pc \in {"abort", "close", "closeHeld"}
        /\ \A t \in Slot : /\ slot'[t].sending = slot[t].sending
                           /\ \/ Excess(t)' = Excess(t)
                              \/ poll'.pc \in {"close", "closeHeld"} /\ poll'.s = t
    BY <1>1, <1>2, <1>3, <2>4, CloseBegins
  <2> QED
    BY <1>2, <1>4, <2>5 DEF AllSame, Same, Serving, Reserving
<1>5. CASE /\ slot' = [slot EXCEPT ![s].type = "HALFCLOSE"]
           /\ lost' = Taken(s) /\ poll' = At("ctrl")
  <2>1. PICK type \in Types : type = "HALFCLOSE"
    BY DEF Types
  <2>2. Retypes(s, type)
    BY <1>2, <1>5, <2>1, TypeRetypes
  <2>3. slot[s].id # 0
    BY <1>2 DEF Id
  <2>4. poll' \in Work /\ poll'.pc = "ctrl"
    BY Zenon, <1>5 DEF At, Work
  <2>5. /\ Shape' /\ slot'[s].type = type
        /\ \A t \in Slot : Kept(t) /\ (t # s => slot'[t].type = slot[t].type)
    BY <1>1, <1>2, <1>3, <2>2, <2>3, <2>4, RetypeShape DEF Resting, Shape, TypeOK
  <2>6. lost' = (lost \/ slot[s].type = "RESERVE")
    BY <1>5 DEF Taken
  <2> QED
    BY <1>2, <2>4, <2>5, <2>6 DEF Kept, Serving, Reserving
<1> QED
  BY <1>4, <1>5 DEF Decide

(* force_close frees a slot that is in use and closes its descriptor.      *)
LEMMA EndCloseShape ==
  ASSUME Shape, EndClose
  PROVE  /\ Shape' /\ poll.s \in Slot /\ slot[poll.s].type # "RESERVE"
         /\ poll'.pc \in Resting /\ open' = open \ {slot[poll.s].fd}
         /\ \A t \in Slot : Kept(t) /\ (t # poll.s => slot'[t].type = slot[t].type)
<1> DEFINE s == poll.s
<1>1. /\ UNCHANGED <<alloc_id, pipe, calling, given, ready, calls, checkctrl, agains>>
      /\ slot' = [slot EXCEPT ![s].type = "INVALID", ![s].dw = None, ![s].dw_lock = FALSE]
      /\ open' = open \ {slot[s].fd}
  BY DEF EndClose, services
<1>2. /\ s \in Slot /\ slot[s] \in Socket /\ slot \in [Slot -> Socket] /\ poll \in Work
      /\ slot[s].type # "RESERVE" /\ poll.pc \in {"close", "closeHeld"}
  BY DEF EndClose, Shape, PollOK, TypeOK
<1>3. PICK type \in Types : type = "INVALID"
  BY DEF Types
<1>4. Retypes(s, type)
  <2>1. PICK d \in Buffer \cup {None} : d = None
    OBVIOUS
  <2>2. PICK k \in BOOLEAN : k = FALSE
    OBVIOUS
  <2>3. PICK w \in SUBSET {"read", "write"} : w = slot[s].watch
    BY <1>2 DEF Socket
  <2>4. Retype(slot[s], type, d, k, w) = [slot[s] EXCEPT !.type = type, !.dw = d, !.dw_lock = k]
    BY <1>2, <2>3 DEF Retype, Socket
  <2>5. slot' = [slot EXCEPT ![s] = [slot[s] EXCEPT !.type = type, !.dw = d, !.dw_lock = k]]
    BY <1>1, <1>2, <1>3, <2>1, <2>2
  <2>6. slot' = [slot EXCEPT ![s] = Retype(slot[s], type, d, k, w)]
    BY <2>4, <2>5
  <2> QED
    BY <2>6 DEF Retypes
<1>5. /\ poll' \in Work /\ poll'.pc \in Resting
      /\ ev' \in Seq(Event) /\ Len(ev') <= MAX_EVENT
  <2>1. ev \in Seq(Event) /\ Len(ev) <= MAX_EVENT /\ checkctrl \in BOOLEAN
    BY DEF Shape, TypeOK
  <2>2. CASE poll.by = "event"
    BY <2>1, <2>2, NextEventRests DEF EndClose
  <2>3. CASE poll.by # "event"
    <3>1. poll' = [poll EXCEPT !.pc = "clear"] /\ ev' = ev
      BY <2>3 DEF EndClose
    <3> QED
      BY Zenon, <1>2, <2>1, <3>1 DEF Work, Resting
  <2> QED
    BY <2>2, <2>3
<1>6. open' \subseteq open /\ ready' \subseteq given
  BY <1>1 DEF Shape, TypeOK
<1>7. poll'.pc # "reopen"
  BY <1>5 DEF Resting
<1> QED
  BY <1>1, <1>2, <1>3, <1>4, <1>5, <1>6, <1>7, RetypeShape

(* start_socket                                                            *)
LEMMA StartShape ==
  ASSUME Shape, Start
  PROVE  /\ Shape' /\ Serving /\ Reserving
         /\ poll'.pc \in {"ctrl", "clear", "abort", "close", "closeHeld"}
<1> DEFINE id == Head(pipe).id
           s == HASH_ID(id)
           none == ""
<1>1. /\ UNCHANGED <<alloc_id, calling, open, given, ready, calls, checkctrl, agains, ev>>
      /\ pipe # <<>> /\ pipe' = Tail(pipe)
  BY Zenon DEF Start, Command, kernel
<1>2. /\ s \in Slot /\ slot[s] \in Socket /\ slot \in [Slot -> Socket] /\ id \in Id
      /\ id \in {0} \cup Id
  BY <1>1, HeadOfPipe DEF Shape, TypeOK
<1>3. ev' \in Seq(Event) /\ Len(ev') <= MAX_EVENT /\ agains' \in 0..MaxAgain
      /\ ready' \subseteq given /\ checkctrl' \in BOOLEAN
  BY <1>1 DEF Shape, TypeOK
<1> HIDE DEF id
<1>4. CASE slot' = slot /\ (poll' = At("ctrl") \/ poll' = In("clear", None, id, none))
  <2>1. poll' \in Work /\ poll'.pc \in {"ctrl", "clear"}
    <3>1. CASE poll' = At("ctrl")
      BY Zenon, <3>1 DEF At, Work
    <3>2. CASE poll' = In("clear", None, id, none)
      BY Zenon, <1>2, <3>2 DEF In, Work
    <3> QED
      BY Zenon, <1>4, <3>1, <3>2
  <2>2. PollOK'
    BY <2>1, AtRest DEF Resting
  <2>3. AllSame /\ slot' \in [Slot -> Socket] /\ Serving /\ Reserving
    BY Zenon, <1>2, <1>4 DEF AllSame, Same, Serving, Reserving, Excess
  <2>4. PipeOK'
    BY <1>1, PipeTail DEF Grows, Shape, TypeOK, Id
  <2> QED
    BY <1>1, <1>3, <2>1, <2>2, <2>3, <2>4, ThreadShape
<1>5. CASE Matches(id) /\ BeginClose("close", s, id, "start")
  <2>1. PICK pc \in {"close", "closeHeld"} : pc = "close"
    OBVIOUS
  <2>2. PICK by \in {"event", "close", "shutdown", "start"} : by = "start"
    OBVIOUS
  <2>3. BeginClose(pc, s, id, by) /\ slot[s].type # "INVALID"
    BY <1>5, <2>1, <2>2 DEF Matches
  <2>4. /\ Shape' /\ AllSame /\ poll'.pc \in {"abort", "close", "closeHeld"}
        /\ \A t \in Slot : /\ slot'[t].sending = slot[t].sending
                           /\ \/ Excess(t)' = Excess(t)
                              \/ poll'.pc \in {"close", "closeHeld"} /\ poll'.s = t
    BY <1>1, <1>2, <1>3, <2>3, CloseBegins
  <2> QED
    BY <2>4 DEF AllSame, Same, Serving, Reserving
<1>6. CASE /\ Matches(id) /\ slot[s].type \in {"PACCEPT", "PLISTEN"}
           /\ slot' = [slot EXCEPT ![s].watch = Watch(FALSE),
                            ![s].type = IF @ = "PACCEPT" THEN "CONNECTED" ELSE "LISTEN"]
           /\ poll' = At("ctrl")
  <2>1. PICK type \in Types : type = IF slot[s].type = "PACCEPT" THEN "CONNECTED" ELSE "LISTEN"
    BY DEF Types
  <2>2. Retypes(s, type)
    <3>1. PICK w \in SUBSET {"read", "write"} : w = Watch(FALSE)
      BY DEF Watch
    <3>2. Retype(slot[s], type, slot[s].dw, slot[s].dw_lock, w)
            = [slot[s] EXCEPT !.watch = w, !.type = type]
      BY <1>2 DEF Retype, Socket
    <3>3. slot[s].dw \in Buffer \cup {None} /\ slot[s].dw_lock \in BOOLEAN
      BY <1>2 DEF Socket
    <3>4. slot' = [slot EXCEPT ![s] = [slot[s] EXCEPT !.watch = w, !.type = type]]
      BY <1>2, <1>6, <2>1, <3>1 DEF Socket
    <3>5. slot' = [slot EXCEPT ![s] = Retype(slot[s], type, slot[s].dw, slot[s].dw_lock, w)]
      BY <3>2, <3>4
    <3> QED
      BY <3>3, <3>5 DEF Retypes
  <2>3. slot[s].id # 0
    BY <1>2, <1>6 DEF Matches, Id
  <2>4. poll' \in Work /\ poll'.pc = "ctrl"
    BY Zenon, <1>6 DEF At, Work
  <2>5. /\ Shape' /\ slot'[s].type = type
        /\ \A t \in Slot : Kept(t) /\ (t # s => slot'[t].type = slot[t].type)
    BY <1>1, <1>2, <1>3, <2>2, <2>3, <2>4, RetypeShape DEF Resting
  <2> QED
    BY <1>6, <2>4, <2>5 DEF Kept, Serving, Reserving
<1> QED
  BY Zenon, <1>4, <1>5, <1>6 DEF Start, id

(* A connection or its reading fails: the socket is closed.                *)
LEMMA CloseOnShape ==
  ASSUME Shape, Take, EventSlot # None, slot[EventSlot].type # "INVALID", CloseOn,
         UNCHANGED <<alloc_id, pipe, calling, open, given, ready, calls, checkctrl, agains>>
  PROVE  /\ Shape' /\ Serving /\ Reserving
         /\ poll'.pc \in {"abort", "close", "closeHeld"}
<1> DEFINE s == EventSlot
<1>1. /\ s \in Slot /\ slot[s] \in Socket /\ ev' \in Seq(Event) /\ Len(ev') <= MAX_EVENT
  BY EventsShrink DEF Take, CloseOn
<1>2. PICK pc \in {"close", "closeHeld"} : pc = "close"
  OBVIOUS
<1>3. PICK by \in {"event", "close", "shutdown", "start"} : by = "event"
  OBVIOUS
<1>4. PICK id \in {0} \cup Id : id = slot[s].id
  BY <1>1 DEF Socket
<1>5. BeginClose(pc, s, id, by)
  BY <1>2, <1>3, <1>4 DEF CloseOn
<1>6. /\ Shape' /\ AllSame /\ poll'.pc \in {"abort", "close", "closeHeld"}
      /\ \A t \in Slot : /\ slot'[t].sending = slot[t].sending
                         /\ \/ Excess(t)' = Excess(t)
                            \/ poll'.pc \in {"close", "closeHeld"} /\ poll'.s = t
  BY <1>1, <1>5, CloseBegins
<1> QED
  BY <1>6 DEF AllSame, Same, Serving, Reserving

LEMMA ReadShape ==
  ASSUME Shape, Read
  PROVE  /\ Shape' /\ Serving /\ Reserving
         /\ poll'.pc \in Resting \cup {"close", "closeHeld"}
<1>1. /\ UNCHANGED <<alloc_id, pipe, calling, open, given, ready, calls, checkctrl, agains>>
      /\ Take /\ EventSlot # None /\ slot[EventSlot].type # "INVALID"
  BY DEF Read, Established, kernel, services
<1>2. CASE CloseOn
  BY <1>1, <1>2, CloseOnShape DEF Resting
<1>3. ASSUME NEW rest, NextEvent(rest), slot' = slot,
             rest = Tail(ev) \/ rest = [ev EXCEPT ![1].read = FALSE]
      PROVE  /\ Shape' /\ Serving /\ Reserving /\ poll'.pc \in Resting
  <2>1. rest \in Seq(Event) /\ Len(rest) <= MAX_EVENT
    BY <1>1, <1>3, EventsShrink DEF Take
  <2>2. checkctrl \in BOOLEAN /\ checkctrl' \in BOOLEAN /\ agains' \in 0..MaxAgain
    BY <1>1 DEF Shape, TypeOK
  <2>3. ev' = rest /\ poll' \in Work /\ poll'.pc \in Resting /\ PollOK'
    BY <1>3, <2>2, NextEventRests
  <2>4. AllSame /\ slot' \in [Slot -> Socket] /\ Serving /\ Reserving
    BY <1>3 DEF Shape, TypeOK, AllSame, Same, Serving, Reserving, Excess
  <2>5. PipeOK'
    BY <1>1, PipeKept DEF Grows, Shape, TypeOK, Id
  <2> QED
    BY <1>1, <2>1, <2>2, <2>3, <2>4, <2>5, ThreadShape
<1>4. CloseOn \/ \E rest : /\ NextEvent(rest) /\ slot' = slot
                           /\ rest = Tail(ev) \/ rest = [ev EXCEPT ![1].read = FALSE]
  BY DEF Read
<1> QED
  BY <1>2, <1>3, <1>4

(* report_connect: the services are told that the socket is open.          *)
LEMMA ReportConnectShape ==
  ASSUME Shape, ReportConnect
  PROVE  /\ Shape' /\ Serving /\ Reserving
         /\ poll'.pc \in Resting \cup {"close", "closeHeld"}
         /\ \/ ready' = ready
            \/ /\ EventSlot \in Slot /\ slot[EventSlot].type = "CONNECTING"
               /\ ready' = ready \cup {slot[EventSlot].id}
               /\ HASH_ID(slot[EventSlot].id) = EventSlot
<1> DEFINE s == EventSlot
<1>1. /\ UNCHANGED <<alloc_id, pipe, calling, open, given, calls, checkctrl, agains>>
      /\ Take /\ s # None /\ slot[s].type = "CONNECTING"
  BY DEF ReportConnect, kernel
<1>2. /\ s \in Slot /\ slot[s] \in Socket /\ slot \in [Slot -> Socket]
      /\ Tail(ev) \in Seq(Event) /\ Len(Tail(ev)) <= MAX_EVENT
  BY <1>1, EventsShrink DEF Take, Shape, TypeOK
<1>3. slot[s].id # 0 /\ slot[s].id \in given /\ HASH_ID(slot[s].id) = s
  BY <1>1, <1>2 DEF Shape, SlotOK
<1>4. CASE CloseOn /\ ready' = ready
  BY <1>1, <1>4, CloseOnShape DEF Resting
<1>5. CASE /\ slot' = [slot EXCEPT ![s].type = "CONNECTED",
                                  ![s].watch = IF nomore_sending_data(s)
                                                 THEN Watch(FALSE) ELSE @]
           /\ ready' = ready \cup {slot[s].id} /\ NextEvent(Tail(ev))
  <2>1. PICK type \in Types : type = "CONNECTED"
    BY DEF Types
  <2>2. Retypes(s, type)
    <3>1. PICK w \in SUBSET {"read", "write"} :
             w = IF nomore_sending_data(s) THEN Watch(FALSE) ELSE slot[s].watch
      BY <1>2 DEF Watch, Socket
    <3>2. Retype(slot[s], type, slot[s].dw, slot[s].dw_lock, w)
            = [slot[s] EXCEPT !.type = type, !.watch = w]
      BY <1>2 DEF Retype, Socket
    <3>3. slot[s].dw \in Buffer \cup {None} /\ slot[s].dw_lock \in BOOLEAN
      BY <1>2 DEF Socket
    <3>4. slot' = [slot EXCEPT ![s] = [slot[s] EXCEPT !.type = type, !.watch = w]]
      BY <1>2, <1>5, <2>1, <3>1 DEF Socket
    <3>5. slot' = [slot EXCEPT ![s] = Retype(slot[s], type, slot[s].dw, slot[s].dw_lock, w)]
      BY <3>2, <3>4
    <3> QED
      BY <3>3, <3>5 DEF Retypes
  <2>3. /\ ev' = Tail(ev) /\ poll' \in Work /\ poll'.pc \in Resting
        /\ poll'.pc # "reopen"
    <3>1. checkctrl \in BOOLEAN
      BY DEF Shape, TypeOK
    <3>2. ev' = Tail(ev) /\ poll' \in Work /\ poll'.pc \in Resting
      BY <1>5, <3>1, NextEventRests
    <3> QED
      BY <3>2 DEF Resting
  <2>4. ready \subseteq ready' /\ ready' \subseteq given
    BY <1>3, <1>5 DEF Shape, TypeOK
  <2>5. /\ Shape' /\ slot'[s].type = type
        /\ \A t \in Slot : Kept(t) /\ (t # s => slot'[t].type = slot[t].type)
    BY <1>1, <1>2, <1>3, <2>2, <2>3, <2>4, RetypeShape
  <2> QED
    BY <1>1, <1>2, <1>3, <1>5, <2>3, <2>5 DEF Kept, Serving, Reserving
<1> QED
  BY <1>4, <1>5 DEF ReportConnect

LEMMA WritableShape ==
  ASSUME Shape, Writable
  PROVE  /\ Shape' /\ EventSlot \in Slot /\ Updates(EventSlot)
         /\ poll'.pc \in Resting \cup {"lists"}
<1> DEFINE s == EventSlot
<1>1. /\ UNCHANGED <<alloc_id, pipe, calling, open, given, ready, calls, checkctrl, agains>>
      /\ Take /\ s # None /\ slot[s].type # "INVALID"
  BY DEF Writable, Established, kernel, services
<1>2. /\ s \in Slot /\ slot[s] \in Socket /\ slot \in [Slot -> Socket]
      /\ Tail(ev) \in Seq(Event) /\ Len(Tail(ev)) <= MAX_EVENT
  BY <1>1, EventsShrink DEF Take, Shape, TypeOK
<1>3. agains' \in 0..MaxAgain /\ checkctrl \in BOOLEAN
  BY <1>1 DEF Shape, TypeOK
<1>4. CASE /\ slot' = [slot EXCEPT ![s] = TakeDirect(s)]
           /\ poll' = In("lists", s, slot[s].id, "event") /\ ev' = Tail(ev)
  <2>1. Updates(s)
    BY <1>2, <1>4, TakeDirectUpdates
  <2>2. AllSame
    BY <1>2, <2>1, UpdatesKeep
  <2>3. slot[s].id \in {0} \cup Id
    BY <1>2 DEF Socket
  <2>4. poll' \in Work /\ poll'.pc = "lists" /\ poll'.s = s /\ poll'.by = "event"
    BY <1>2, <1>4, <2>3 DEF In, Work
  <2>5. PollOK'
    BY <1>1, <1>2, <2>2, <2>4 DEF PollOK, AllSame, Same
  <2> QED
    BY <1>1, <1>2, <1>3, <1>4, <2>1, <2>4, <2>5, UpdateShape
<1>5. CASE slot' = [slot EXCEPT ![s].dw_lock = TRUE] /\ NextEvent(Tail(ev))
  <2>1. Updates(s)
    <3>1. PICK k \in BOOLEAN : k = TRUE
      OBVIOUS
    <3>2. PICK w \in SUBSET {"read", "write"} : w = slot[s].watch
      BY <1>2 DEF Socket
    <3>3. slot' = [slot EXCEPT ![s].dw_lock = k, ![s].watch = w]
      BY <1>2, <1>5, <3>1, <3>2 DEF Socket
    <3> QED
      BY Zenon, <1>2, <3>3, LockUpdates
  <2>2. ev' = Tail(ev) /\ poll' \in Work /\ poll'.pc \in Resting /\ PollOK'
    BY <1>3, <1>5, NextEventRests
  <2> QED
    BY <1>1, <1>2, <1>3, <2>1, <2>2, UpdateShape
<1> QED
  BY <1>4, <1>5 DEF Writable
-----------------------------------------------------------------------------
(* The steps that make a descriptor                                        *)

(* A slot with empty lists has its new socket, and the others theirs.      *)
Makes(s, id) ==
    /\ s \in Slot /\ id \in Id /\ s = HASH_ID(id) /\ Empty(s)
    /\ open' \subseteq open \cup {id}
    /\ slot'[s].id = id /\ slot'[s].fd = id /\ slot'[s].tcp /\ slot'[s].sending = 0
    /\ Excess(s)' = 0
    /\ \A t \in Slot : t # s => slot'[t] = slot[t]

LEMMA NewFdMakes ==
  ASSUME Shape, NEW id \in Id, NEW type \in Types, NEW watch \in SUBSET {"read", "write"},
         NEW s \in Slot, s = HASH_ID(id), Empty(s), open' \subseteq open \cup {id},
         slot' = [slot EXCEPT ![s] = NewFd(s, id, type, watch)],
         Grows, alloc_id' \in Nat, id \in given', id <= alloc_id'
  PROVE  /\ slot' \in [Slot -> Socket] /\ Makes(s, id)
         /\ \A t \in Slot : SlotOK(t)'
<1> DEFINE r == NewFd(s, id, type, watch)
<1>1. slot[s] \in Socket /\ slot \in [Slot -> Socket]
  BY DEF Shape, TypeOK
<1>3. r = NewFd(s, id, type, watch) /\ slot' = [slot EXCEPT ![s] = r]
  OBVIOUS
<1> HIDE DEF r
<1>2. /\ r \in Socket /\ r.type = type /\ r.id = id /\ r.fd = id /\ r.tcp
      /\ r.tag = ID_TAG16(id) /\ r.sending = 0 /\ r.wb_size = 0
      /\ r.high = slot[s].high /\ r.low = slot[s].low
  BY <1>1, <1>3, NewFdIsSocket
<1>4. /\ slot' \in [Slot -> Socket] /\ slot'[s] = r
      /\ \A t \in Slot : t # s => slot'[t] = slot[t]
  BY <1>1, <1>2, <1>3, OneSlot
<1>5. Excess(s)' = 0
  <2>1. /\ slot'[s].high = <<>> /\ slot'[s].low = <<>> /\ slot'[s].wb_size = 0
    BY <1>2, <1>4 DEF Empty
  <2>2. Excess(s)' = 0 - (Total(<<>>) + Total(<<>>))
    BY <2>1 DEF Excess
  <2> QED
    BY <2>2, TotalOfNone
<1>6. \A t \in Slot : SlotOK(t)'
  <2> TAKE t \in Slot
  <2>1. CASE t = s
    <3>1. id # 0
      BY DEF Id
    <3> QED
      BY <1>2, <1>4, <2>1, <3>1 DEF SlotOK
  <2>2. CASE t # s
    BY <1>4, <2>2, SlotsKept DEF Same
  <2> QED
    BY <2>1, <2>2
<1>7. slot'[s].id = id /\ slot'[s].fd = id /\ slot'[s].tcp /\ slot'[s].sending = 0
  BY <1>2, <1>4
<1> QED
  BY <1>1, <1>4, <1>5, <1>6, <1>7 DEF Makes

(* An assertion of the socket thread fails.                                *)
LEMMA AbortShape ==
  ASSUME Shape, poll' = At("abort"),
         UNCHANGED <<slot, calling, given, ready, open, calls, ev, checkctrl, agains>>,
         alloc_id' \in {0} \cup Id, alloc_id' >= alloc_id,
         pipe' = pipe \/ (pipe # <<>> /\ pipe' = Tail(pipe))
  PROVE  Shape' /\ poll'.pc = "abort"
<1>1. Grows /\ alloc_id' \in Nat /\ alloc_id \in Nat
  BY DEF Grows, Shape, TypeOK, Id
<1>2. poll' \in Work /\ poll'.pc = "abort"
  BY Zenon DEF At, Work
<1>3. PollOK'
  BY <1>2, AtRest DEF Resting
<1>4. CallingOK' /\ PipeOK'
  BY <1>1, CallingKept, PipeKept, PipeTail
<1>5. \A t \in Slot : SlotOK(t)'
  BY <1>1, SlotsKept DEF Same
<1>6. KnownOK'
  <2>1. \A i \in given \cup open : i <= alloc_id /\ i \in Nat
    BY DEF Shape, KnownOK, TypeOK, Id
  <2> QED
    BY <1>1, <2>1 DEF KnownOK
<1>7. TypeOK'
  BY <1>2 DEF Shape, TypeOK
<1> QED
  BY <1>2, <1>3, <1>4, <1>5, <1>6, <1>7 DEF Shape

(* open_socket                                                             *)
LEMMA OpenShape ==
  ASSUME Shape, Open
  PROVE  /\ Shape' /\ poll'.pc \in Resting \cup {"reopen"}
         /\ \/ poll'.pc = "abort" /\ UNCHANGED <<slot, open>>
            \/ /\ UNCHANGED <<open, ready>>
               /\ \A t \in Slot : /\ Kept(t)
                                  /\ t # HASH_ID(Head(pipe).id) => slot'[t].type = slot[t].type
            \/ /\ Makes(HASH_ID(Head(pipe).id), Head(pipe).id)
               /\ ready' \in {ready, ready \cup {Head(pipe).id}}
<1> DEFINE id == Head(pipe).id
           s == HASH_ID(id)
           none == ""
<1>1. /\ UNCHANGED <<alloc_id, calling, given, calls, checkctrl, agains, ev>>
      /\ pipe # <<>> /\ pipe' = Tail(pipe)
  BY Zenon DEF Open, Command
<1>2. /\ s \in Slot /\ slot[s] \in Socket /\ slot \in [Slot -> Socket] /\ id \in Id
      /\ id \in {0} \cup Id /\ id \in given
  BY <1>1, HeadOfPipe DEF Shape, TypeOK
<1>3. ev' \in Seq(Event) /\ Len(ev') <= MAX_EVENT /\ agains' \in 0..MaxAgain
      /\ ready \subseteq given /\ checkctrl' \in BOOLEAN /\ alloc_id' \in {0} \cup Id
      /\ alloc_id \in Nat
  BY <1>1 DEF Shape, TypeOK, Id
<1> HIDE DEF id
<1>4. CASE /\ slot' = [slot EXCEPT ![s].type = "INVALID"] /\ UNCHANGED <<open, ready>>
           /\ poll' = In("clear", None, id, none) \/ poll' = In("reopen", s, id, none)
  <2>1. PICK type \in Types : type = "INVALID"
    BY DEF Types
  <2>2. Retypes(s, type)
    BY Zenon, <1>2, <1>4, <2>1, TypeRetypes
  <2>3. poll' \in Work /\ poll'.pc \in {"clear", "reopen"} /\ (poll'.pc = "reopen" => poll'.s = s)
    <3>1. CASE poll' = In("clear", None, id, none)
      BY Zenon, <1>2, <3>1 DEF In, Work
    <3>2. CASE poll' = In("reopen", s, id, none)
      BY Zenon, <1>2, <3>2 DEF In, Work
    <3> QED
      BY Zenon, <1>4, <3>1, <3>2
  <2>4. /\ Shape' /\ slot'[s].type = type
        /\ \A t \in Slot : Kept(t) /\ (t # s => slot'[t].type = slot[t].type)
    BY Zenon, <1>1, <1>2, <1>3, <1>4, <2>1, <2>2, <2>3, RetypeShape DEF Resting
  <2> QED
    BY Zenon, <1>4, <2>3, <2>4 DEF Resting, id
<1>5. CASE poll' = At("abort") /\ UNCHANGED <<slot, open, ready>>
  BY <1>1, <1>3, <1>5, AbortShape DEF Resting
<1>6. ASSUME NEW type \in Types, NEW watch \in SUBSET {"read", "write"},
             FreshSlot(s), slot' = [slot EXCEPT ![s] = NewFd(s, id, type, watch)],
             open' = open \cup {id}, ready' \in {ready, ready \cup {id}}, poll' = At("ctrl")
      PROVE  Shape' /\ Makes(s, id) /\ poll'.pc \in Resting
  <2>1. Grows /\ alloc_id' \in Nat /\ id \in given' /\ id <= alloc_id'
    BY <1>1, <1>2, <1>3, <1>6 DEF Grows, Shape, KnownOK
  <2>2. /\ slot' \in [Slot -> Socket] /\ Makes(s, id) /\ \A t \in Slot : SlotOK(t)'
    <3> HIDE DEF s
    <3> QED
      BY <1>2, <1>6, <2>1, NewFdMakes DEF FreshSlot, s
  <2>3. poll' \in Work /\ poll'.pc = "ctrl"
    BY Zenon, <1>6 DEF At, Work
  <2>4. PollOK'
    BY <2>3, AtRest DEF Resting
  <2>5. ready \subseteq ready' /\ ready' \subseteq given /\ open' \subseteq open \cup given
    BY <1>2, <1>3, <1>6
  <2> QED
    BY <1>1, <1>3, <2>2, <2>3, <2>4, <2>5, ThreadSlotShape DEF Resting
<1>7. \/ /\ slot' = [slot EXCEPT ![s].type = "INVALID"] /\ UNCHANGED <<open, ready>>
         /\ poll' = In("clear", None, id, none) \/ poll' = In("reopen", s, id, none)
      \/ poll' = At("abort") /\ UNCHANGED <<slot, open, ready>>
      \/ \E type \in Types, watch \in SUBSET {"read", "write"} :
            /\ FreshSlot(s) /\ slot' = [slot EXCEPT ![s] = NewFd(s, id, type, watch)]
            /\ open' = open \cup {id} /\ ready' \in {ready, ready \cup {id}}
            /\ poll' = At("ctrl")
  <2>1. Watch(TRUE) \in SUBSET {"read", "write"} /\ Watch(FALSE) \in SUBSET {"read", "write"}
        /\ "CONNECTED" \in Types /\ "CONNECTING" \in Types
    BY DEF Watch, Types
  <2> QED
    BY Zenon, <2>1 DEF Open, id
<1> QED
  BY Zenon, <1>4, <1>5, <1>6, <1>7 DEF id

LEMMA ListenShape ==
  ASSUME Shape, Listen
  PROVE  /\ Shape' /\ poll'.pc \in Resting
         /\ \/ poll'.pc = "abort" /\ UNCHANGED <<slot, open>>
            \/ Makes(HASH_ID(Head(pipe).id), Head(pipe).id)
<1> DEFINE id == Head(pipe).id
           s == HASH_ID(id)
<1>1. /\ UNCHANGED <<alloc_id, calling, open, given, ready, calls, checkctrl, agains, ev>>
      /\ pipe # <<>> /\ pipe' = Tail(pipe)
  BY DEF Listen, Command, kernel, services
<1>2. /\ s \in Slot /\ slot[s] \in Socket /\ slot \in [Slot -> Socket] /\ id \in Id
      /\ id \in given
  BY <1>1, HeadOfPipe DEF Shape, TypeOK
<1>3. ev' \in Seq(Event) /\ Len(ev') <= MAX_EVENT /\ agains' \in 0..MaxAgain
      /\ ready' \subseteq given /\ checkctrl' \in BOOLEAN /\ alloc_id' \in {0} \cup Id
      /\ alloc_id \in Nat
  BY <1>1 DEF Shape, TypeOK, Id
<1> HIDE DEF id
<1>4. CASE poll' = At("abort") /\ slot' = slot
  BY <1>1, <1>3, <1>4, AbortShape DEF Resting
<1>5. ASSUME FreshSlot(s), slot' = [slot EXCEPT ![s] = NewFd(s, id, "PLISTEN", {})],
             poll' = At("ctrl")
      PROVE  Shape' /\ Makes(s, id) /\ poll'.pc \in Resting
  <2>1. PICK type \in Types : type = "PLISTEN"
    BY DEF Types
  <2>2. PICK watch \in SUBSET {"read", "write"} : watch = {}
    OBVIOUS
  <2>3. slot' = [slot EXCEPT ![s] = NewFd(s, id, type, watch)]
    BY <1>5, <2>1, <2>2
  <2>4. Grows /\ alloc_id' \in Nat /\ id \in given' /\ id <= alloc_id'
        /\ open' \subseteq open \cup {id}
    BY <1>1, <1>2, <1>3 DEF Grows, Shape, KnownOK
  <2>5. /\ slot' \in [Slot -> Socket] /\ Makes(s, id) /\ \A t \in Slot : SlotOK(t)'
    <3> HIDE DEF s
    <3> QED
      BY <1>2, <1>5, <2>3, <2>4, NewFdMakes DEF FreshSlot, s
  <2>6. poll' \in Work /\ poll'.pc = "ctrl"
    BY Zenon, <1>5 DEF At, Work
  <2>7. PollOK'
    BY <2>6, AtRest DEF Resting
  <2> QED
    BY <1>1, <1>3, <2>5, <2>6, <2>7, ThreadSlotShape DEF Resting
<1> QED
  BY <1>4, <1>5 DEF Listen, id

(* report_accept gives out a new id.                                       *)
LEMMA ReportAcceptShape ==
  ASSUME Shape, ReportAccept
  PROVE  /\ Shape' /\ poll'.pc \in Resting
         /\ \/ UNCHANGED <<slot, open, given, ready>>
            \/ /\ poll'.pc # "abort" /\ Makes(HASH_ID(Reservable), Reservable)
               /\ Reservable > alloc_id
               /\ slot[HASH_ID(Reservable)].type = "INVALID"
               /\ given' = given \cup {Reservable} /\ ready' = ready \cup {Reservable}
<1> DEFINE id == Reservable
           s == HASH_ID(id)
<1>1. UNCHANGED <<pipe, calling, calls, checkctrl, agains>> /\ Take
  BY DEF ReportAccept
<1>2. Tail(ev) \in Seq(Event) /\ Len(Tail(ev)) <= MAX_EVENT
  BY <1>1, EventsShrink DEF Take
<1>3. agains' \in 0..MaxAgain /\ checkctrl \in BOOLEAN /\ checkctrl' \in BOOLEAN
      /\ alloc_id \in Nat /\ ready \subseteq given /\ given \subseteq Id /\ open \subseteq Id
      /\ slot \in [Slot -> Socket] /\ calls' \in 0..MaxCall
  BY <1>1 DEF Shape, TypeOK, Id
<1>4. ASSUME NextEvent(Tail(ev)), UNCHANGED <<slot, alloc_id, open, given, ready>>
      PROVE  Shape' /\ poll'.pc \in Resting
  <2>1. ev' = Tail(ev) /\ poll' \in Work /\ poll'.pc \in Resting /\ PollOK'
    BY <1>3, <1>4, NextEventRests
  <2>2. AllSame /\ slot' \in [Slot -> Socket]
    BY <1>3, <1>4 DEF AllSame, Same
  <2>3. PipeOK'
    BY <1>1, <1>4, PipeKept DEF Grows, Shape, TypeOK, Id
  <2> QED
    BY <1>1, <1>2, <1>3, <1>4, <2>1, <2>2, <2>3, ThreadShape
<1>5. ASSUME id \in Id, alloc_id' = id
      PROVE  /\ id > alloc_id /\ s \in Slot /\ slot[s].type = "INVALID"
             /\ alloc_id' \in Nat /\ id <= alloc_id' /\ alloc_id' \in {0} \cup Id
             /\ alloc_id' >= alloc_id
  <2>1. id > alloc_id /\ s \in Slot /\ slot[s].type = "INVALID" /\ id \in Nat
    BY <1>5, ReservableIsNew DEF Shape, Id
  <2> QED
    BY <1>3, <1>5, <2>1
<1> HIDE DEF id
<1>6. ASSUME id \in Id, alloc_id' = id, poll' = At("abort"),
             UNCHANGED <<slot, ev, open, given, ready>>
      PROVE  Shape' /\ poll'.pc \in Resting
  BY <1>1, <1>5, <1>6, AbortShape DEF Resting
<1>7. ASSUME id \in Id, alloc_id' = id, Empty(s), NextEvent(Tail(ev)),
             slot' = [slot EXCEPT ![s] = NewFd(s, id, "PACCEPT", {})],
             open' = open \cup {id}, given' = given \cup {id}, ready' = ready \cup {id}
      PROVE  Shape' /\ Makes(s, id) /\ poll'.pc \in Resting /\ poll'.pc # "abort"
  <2>1. PICK type \in Types : type = "PACCEPT"
    BY DEF Types
  <2>2. PICK watch \in SUBSET {"read", "write"} : watch = {}
    OBVIOUS
  <2>3. slot' = [slot EXCEPT ![s] = NewFd(s, id, type, watch)]
    BY <1>7, <2>1, <2>2
  <2>4. Grows /\ alloc_id' \in Nat /\ id \in given' /\ id <= alloc_id'
        /\ open' \subseteq open \cup {id} /\ s \in Slot
    BY <1>3, <1>5, <1>7 DEF Grows
  <2>5. /\ slot' \in [Slot -> Socket] /\ Makes(s, id) /\ \A t \in Slot : SlotOK(t)'
    <3> HIDE DEF s
    <3> QED
      BY <1>7, <2>3, <2>4, NewFdMakes DEF s
  <2>6. ev' = Tail(ev) /\ poll' \in Work /\ poll'.pc \in Resting /\ PollOK'
    BY <1>3, <1>7, NextEventRests
  <2>7. poll'.pc # "abort"
    BY Zenon, <1>7 DEF NextEvent, At
  <2>8. CallingOK' /\ PipeOK'
    BY <1>1, <2>4, CallingKept, PipeKept
  <2>9. KnownOK'
    <3>1. \A i \in given \cup open : i <= alloc_id /\ i \in Nat
      BY <1>3 DEF Shape, KnownOK, Id
    <3> QED
      BY <1>3, <1>5, <1>7, <3>1 DEF KnownOK, Id
  <2>10. TypeOK'
    BY <1>1, <1>2, <1>3, <1>5, <1>7, <2>5, <2>6 DEF Shape, TypeOK
  <2> QED
    BY <2>5, <2>6, <2>7, <2>8, <2>9, <2>10 DEF Shape
<1>8. \/ NextEvent(Tail(ev)) /\ UNCHANGED <<slot, alloc_id, open, given, ready>>
      \/ /\ id \in Id /\ alloc_id' = id /\ poll' = At("abort")
         /\ UNCHANGED <<slot, ev, open, given, ready>>
      \/ /\ id \in Id /\ alloc_id' = id /\ Empty(s) /\ NextEvent(Tail(ev))
         /\ slot' = [slot EXCEPT ![s] = NewFd(s, id, "PACCEPT", {})]
         /\ open' = open \cup {id} /\ given' = given \cup {id} /\ ready' = ready \cup {id}
  BY DEF ReportAccept, id
<1> QED
  BY <1>4, <1>5, <1>6, <1>7, <1>8 DEF id
-----------------------------------------------------------------------------
(* The types                                                               *)

LEMMA InitShape == Init => Shape
<1> SUFFICES ASSUME Init PROVE Shape
  OBVIOUS
<1> DEFINE r == [type |-> "INVALID", id |-> 0, fd |-> 0, tcp |-> FALSE, tag |-> 0,
                 sending |-> 0, high |-> <<>>, low |-> <<>>, wb_size |-> 0,
                 dw |-> None, dw_lock |-> FALSE, watch |-> {}]
<1>1. r \in Socket /\ r.id = 0 /\ r.fd = 0 /\ ~r.tcp /\ r.type = "INVALID"
  BY DEF Socket, Types
<1>2. slot = [s \in Slot |-> r]
  BY DEF Init
<1> HIDE DEF r
<1>3. slot \in [Slot -> Socket] /\ \A s \in Slot : SlotOK(s)
  BY <1>1, <1>2 DEF SlotOK
<1>4. poll \in Work /\ poll.pc = "ctrl"
  BY Zenon DEF Init, At, Work
<1>5. CallingOK
  BY DEF Init, CallingOK, Calling, Idle
<1>6. \A c \in Caller : calling[c].pc \in
           {"idle", "reserved", "look", "try", "recheck", "write", "store", "inc", "push"}
  BY <1>5 DEF CallingOK, Calling, Idle
<1>7. TypeOK
  <2>1. ev \in Seq(Event) /\ Len(ev) <= MAX_EVENT
    BY SocketAssumption DEF Init
  <2>2. /\ alloc_id \in {0} \cup Id /\ checkctrl \in BOOLEAN
        /\ open \subseteq Id /\ given \subseteq Id /\ ready \subseteq given
        /\ calls \in 0..MaxCall /\ agains \in 0..MaxAgain
    BY SocketAssumption DEF Init
  <2> QED
    BY <1>3, <1>4, <1>6, <2>1, <2>2 DEF TypeOK
<1>8. PipeOK /\ KnownOK
  BY DEF Init, PipeOK, KnownOK
<1>9. PollOK
  BY <1>4 DEF PollOK
<1> QED
  BY <1>3, <1>5, <1>7, <1>8, <1>9 DEF Shape

(* A caller's step, and the thread's                                       *)
Calls ==
    \E c \in Caller :
        \/ \E kind \in {"connect", "listen"} : Reserve(c, kind)
        \/ Reserved(c)
        \/ \E kind \in {"close", "shutdown", "start"}, id \in given : Request(c, kind, id)
        \/ \E id \in ready, low \in BOOLEAN : Send(c, id, low)
        \/ Look(c) \/ Try(c) \/ Recheck(c) \/ DirectWrite(c) \/ Store(c)
        \/ Inc(c) \/ Push(c)

Polls ==
    \/ NoCommand \/ Open \/ OpenFailed \/ Listen \/ Start
    \/ Close("close") \/ Close("shutdown") \/ Decide
    \/ SendSocket \/ Dec
    \/ SendBuffer \/ SendList \/ AllSent
    \/ EndClose \/ ClearClosed
    \/ Wait
    \/ Skip \/ ReportConnect \/ ReportAccept \/ Read \/ Writable

LEMMA StepIs == Next <=> Calls \/ Polls
  BY DEF Next, Calls, Polls

LEMMA StepShape ==
  ASSUME Shape, [Next]_vars
  PROVE  Shape'
<1>1. CASE Calls
  <2>1. PICK c \in Caller :
        \/ \E kind \in {"connect", "listen"} : Reserve(c, kind)
        \/ Reserved(c)
        \/ \E kind \in {"close", "shutdown", "start"}, id \in given : Request(c, kind, id)
        \/ \E id \in ready, low \in BOOLEAN : Send(c, id, low)
        \/ Look(c) \/ Try(c) \/ Recheck(c) \/ DirectWrite(c) \/ Store(c)
        \/ Inc(c) \/ Push(c)
    BY <1>1 DEF Calls
  <2> QED
    BY <2>1, ReserveShape, ReservedShape, RequestShape, SendShape, LookShape,
       DirectWriteShape, StoreShape, IncShape, PushShape
<1>2. CASE Polls
  <2>1. ASSUME Open \/ Listen \/ Start \/ OpenFailed \/ Decide \/ SendSocket \/ Dec PROVE Shape'
    BY <2>1, OpenShape, ListenShape, StartShape, OpenFailedShape, DecideShape,
       SendSocketShape, DecShape
  <2>2. ASSUME SendBuffer \/ SendList \/ AllSent \/ EndClose PROVE Shape'
    BY <2>2, SendBufferShape, SendListShape, AllSentShape, EndCloseShape
  <2>3. ASSUME NoCommand \/ ClearClosed \/ Wait \/ Skip PROVE Shape'
    BY <2>3, IdleShape
  <2>4. ASSUME Close("close") \/ Close("shutdown") PROVE Shape'
    <3>1. PICK kind \in {"close", "shutdown"} : Close(kind)
      BY <2>4
    <3> QED
      BY <3>1, CloseShape
  <2>5. ASSUME ReportConnect \/ ReportAccept \/ Read \/ Writable PROVE Shape'
    BY <2>5, ReportConnectShape, ReportAcceptShape, ReadShape, WritableShape
  <2> QED
    BY <1>2, <2>1, <2>2, <2>3, <2>4, <2>5 DEF Polls
<1>3. CASE UNCHANGED vars
  BY <1>3 DEF vars, Shape, TypeOK, PipeOK, CallingOK, PollOK, KnownOK, SlotOK
<1> QED
  BY <1>1, <1>2, <1>3, StepIs

(* The slots, requests, events and callers have their types, requests are  *)
(* about ids that a service has, and the slot that the socket thread has   *)
(* in hand is not freed under it, in the order of socket_server_poll.      *)
THEOREM ShapeHolds == Spec => []Shape
<1>1. Init => Shape
  BY InitShape
<1>2. Shape /\ [Next]_vars => Shape'
  BY StepShape
<1> QED
  BY <1>1, <1>2, PTL DEF Spec

-----------------------------------------------------------------------------
(* The backlog                                                             *)

(* What is open stays or is closed, and what is counted of it stays.       *)
Weighing ==
    \A t \in Slot : /\ slot'[t].fd = slot[t].fd
                    /\ \/ Excess(t)' = Excess(t)
                       \/ poll'.pc \in {"close", "closeHeld"} /\ poll'.s = t

LEMMA ExcessOfNone ==
  ASSUME NEW r \in Socket
  PROVE  /\ r.fd \in {0} \cup Id
         /\ r.wb_size = Total(r.high) + Total(r.low)
            <=> r.wb_size - (Total(r.high) + Total(r.low)) = 0
<1>1. /\ r.high \in Seq(Buffer) /\ r.low \in Seq(Buffer) /\ r.wb_size \in Int
      /\ r.fd \in {0} \cup Id
  BY DEF Socket
<1>2. Total(r.high) \in Nat /\ Total(r.low) \in Nat
  BY <1>1, TotalIsNat
<1> DEFINE x == Total(r.high) + Total(r.low)
           y == r.wb_size
<1>3. x \in Int /\ y \in Int
  BY <1>1, <1>2
<1> HIDE DEF x, y
<1>4. y = x <=> y - x = 0
  BY <1>3
<1> QED
  BY <1>1, <1>4 DEF x, y

(* No work of force_close ends in a step of this kind.                     *)
Closing == poll.pc \in {"close", "closeHeld"}

LEMMA BacklogKept ==
  ASSUME Shape, BInv, Shape', Weighing, open' \subseteq open, poll' = poll \/ ~Closing
  PROVE  BInv'
<1> SUFFICES ASSUME NEW s \in Slot, slot'[s].fd \in open',
                    ~(poll'.pc \in {"close", "closeHeld"} /\ poll'.s = s)
             PROVE  slot'[s].wb_size = Total(slot'[s].high) + Total(slot'[s].low)
  BY DEF BInv, BacklogOK
<1>1. slot[s] \in Socket /\ slot'[s] \in Socket
  BY DEF Shape, TypeOK
<1>2. slot[s].fd \in open /\ Excess(s)' = Excess(s)
  BY DEF Weighing
<1>3. slot[s].wb_size = Total(slot[s].high) + Total(slot[s].low)
  BY <1>2 DEF BInv, BacklogOK, Closing
<1>4. Excess(s) = 0
  BY <1>1, <1>3, ExcessOfNone DEF Excess
<1> QED
  BY <1>1, <1>2, <1>4, ExcessOfNone DEF Excess

(* A new descriptor has nothing waiting.                                   *)
LEMMA BacklogOfNew ==
  ASSUME Shape, BInv, Shape', NEW id, NEW s, Makes(s, id), ~Closing
  PROVE  BInv'
<1> SUFFICES ASSUME NEW t \in Slot, slot'[t].fd \in open'
             PROVE  slot'[t].wb_size = Total(slot'[t].high) + Total(slot'[t].low)
  BY DEF BInv, BacklogOK
<1>1. slot[t] \in Socket /\ slot'[t] \in Socket
  BY DEF Shape, TypeOK
<1>2. CASE t = s
  BY <1>1, <1>2, ExcessOfNone DEF Makes, Excess
<1>3. CASE t # s
  <2>1. slot'[t] = slot[t]
    BY <1>3 DEF Makes
  <2>2. slot[t].fd \in open
    <3>1. slot[t].fd # 0 => HASH_ID(slot[t].fd) = t
      BY DEF Shape, SlotOK
    <3>2. id # 0 /\ s = HASH_ID(id) /\ open' \subseteq open \cup {id}
      BY DEF Makes, Id
    <3> QED
      BY <1>3, <2>1, <3>1, <3>2
  <2> QED
    BY <2>1, <2>2 DEF BInv, BacklogOK, Closing
<1> QED
  BY <1>2, <1>3

(* Callers that look, write directly and store what is left write of a     *)
(* slot no more than the lock, dw_buffer and what is watched.              *)
LEMMA QuietCalls ==
  ASSUME Shape, NEW c \in Caller,
         Look(c) \/ Try(c) \/ Recheck(c) \/ DirectWrite(c) \/ Store(c)
  PROVE  slot' = slot \/ \E s \in Slot : Retypes(s, slot[s].type)
<1> DEFINE s == HASH_ID(calling[c].id)
<1>1. s \in Slot /\ (calling[c].pc = "store" => calling[c].rest \in Buffer)
  BY Zenon, CallerAt DEF Look, Try, Recheck, DirectWrite, Store
<1>2. slot[s] \in Socket /\ slot \in [Slot -> Socket]
  BY <1>1 DEF Shape, TypeOK
<1>3. /\ slot[s].dw \in Buffer \cup {None} /\ slot[s].dw_lock \in BOOLEAN
      /\ slot[s].watch \in SUBSET {"read", "write"}
  BY <1>2 DEF Socket
<1>4. CASE Store(c)
  <2>1. PICK d \in Buffer \cup {None} : d = calling[c].rest
    BY <1>1, <1>4 DEF Store
  <2>2. PICK k \in BOOLEAN : k = FALSE
    OBVIOUS
  <2>3. PICK w \in SUBSET {"read", "write"} :
           w = IF slot[s].watch = {} THEN {} ELSE Watch(TRUE)
    BY DEF Watch
  <2>4. slot' = [slot EXCEPT ![s].dw = d, ![s].dw_lock = k, ![s].watch = w]
    BY <1>1, <1>2, <1>4, <2>1, <2>2, <2>3 DEF Store, Socket
  <2>5. Retype(slot[s], slot[s].type, d, k, w)
          = [slot[s] EXCEPT !.dw = d, !.dw_lock = k, !.watch = w]
    BY <1>2 DEF Retype, Socket
  <2>6. slot' = [slot EXCEPT ![s] = [slot[s] EXCEPT !.dw = d, !.dw_lock = k, !.watch = w]]
    BY <1>1, <1>2, <2>4
  <2>7. slot' = [slot EXCEPT ![s] = Retype(slot[s], slot[s].type, d, k, w)]
    BY <2>5, <2>6
  <2> QED
    BY <1>1, <2>7 DEF Retypes
<1>5. CASE \E held \in BOOLEAN : slot' = [slot EXCEPT ![s].dw_lock = held]
  <2>1. PICK k \in BOOLEAN : slot' = [slot EXCEPT ![s].dw_lock = k]
    BY <1>5
  <2>2. Retype(slot[s], slot[s].type, slot[s].dw, k, slot[s].watch)
          = [slot[s] EXCEPT !.dw_lock = k]
    BY Zenon, <1>2 DEF Retype, Socket
  <2>3. slot' = [slot EXCEPT ![s] = Retype(slot[s], slot[s].type, slot[s].dw, k, slot[s].watch)]
    BY <1>1, <1>2, <2>1, <2>2
  <2> QED
    BY <1>1, <1>3, <2>3 DEF Retypes
<1>6. slot' = slot \/ Store(c) \/ \E held \in BOOLEAN : slot' = [slot EXCEPT ![s].dw_lock = held]
  BY Zenon DEF Look, Try, Recheck, DirectWrite
<1> QED
  BY Zenon, <1>4, <1>5, <1>6

(* What every step of callers but for reserving leaves of the slots        *)
LEMMA CallsLeave ==
  ASSUME Shape, NEW c \in Caller,
         \/ \E kind \in {"close", "shutdown", "start"}, id \in given : Request(c, kind, id)
         \/ \E id \in ready, low \in BOOLEAN : Send(c, id, low)
         \/ Look(c) \/ Try(c) \/ Recheck(c) \/ DirectWrite(c) \/ Store(c) \/ Push(c)
  PROVE  /\ UNCHANGED <<alloc_id, poll, open, given, ready, lost>>
         /\ \A t \in Slot : Kept(t) /\ slot'[t].type = slot[t].type
<1>1. UNCHANGED <<alloc_id, poll, open, given, ready, lost>>
  BY Zenon DEF Request, Send, Look, Try, Recheck, DirectWrite, Store, Push, thread, kernel, services
<1>2. CASE slot' = slot
  BY <1>1, <1>2 DEF Kept, Excess
<1>3. CASE \E s \in Slot : Retypes(s, slot[s].type)
  <2>1. PICK s \in Slot : Retypes(s, slot[s].type)
    BY <1>3
  <2>2. slot[s].type \in Types
    BY DEF Shape, TypeOK, Socket
  <2>3. slot[s].type \notin {"INVALID", "RESERVE"} => slot[s].id # 0
    BY DEF Shape, SlotOK
  <2>4. Grows /\ alloc_id' \in Nat
    BY <1>1 DEF Grows, Shape, TypeOK, Id
  <2>5. /\ slot'[s].type = slot[s].type
        /\ \A t \in Slot : Kept(t) /\ (t # s => slot'[t].type = slot[t].type)
    BY <2>1, <2>2, <2>3, <2>4, RetypesKeep
  <2> QED
    BY <1>1, <2>5
<1>4. slot' = slot \/ \E s \in Slot : Retypes(s, slot[s].type)
  <2>1. CASE Look(c) \/ Try(c) \/ Recheck(c) \/ DirectWrite(c) \/ Store(c)
    BY <2>1, QuietCalls
  <2>2. CASE ~(Look(c) \/ Try(c) \/ Recheck(c) \/ DirectWrite(c) \/ Store(c))
    BY <2>2 DEF Request, Send, Push
  <2> QED
    BY <2>1, <2>2
<1> QED
  BY <1>2, <1>3, <1>4

(* inc_sending_ref changes a count.                                        *)
LEMMA IncLeaves ==
  ASSUME Shape, NEW c \in Caller, Inc(c)
  PROVE  /\ UNCHANGED <<alloc_id, poll, open, given, ready, lost, pipe>>
         /\ calling[c].id \in Id /\ HASH_ID(calling[c].id) \in Slot
         /\ AllSame /\ \A t \in Slot : Excess(t)' = Excess(t)
         /\ \A t \in Slot : slot'[t].sending =
                IF /\ t = HASH_ID(calling[c].id) /\ slot[t].tcp
                   /\ slot[t].tag = ID_TAG16(calling[c].id)
                THEN slot[t].sending + 1 ELSE slot[t].sending
<1> DEFINE s == HASH_ID(calling[c].id)
           n == slot[s].sending + 1
           r == [slot[s] EXCEPT !.sending = n]
           tagged == slot[s].tcp /\ slot[s].tag = ID_TAG16(calling[c].id)
<1>1. UNCHANGED <<alloc_id, poll, open, given, ready, lost, pipe>>
  BY DEF Inc, thread, kernel, services
<1>2. s \in Slot /\ calling[c].id \in Id
  BY CallerAt DEF Inc
<1>3. slot \in [Slot -> Socket] /\ slot[s] \in Socket
  BY <1>2 DEF Shape, TypeOK
<1>4. slot' = IF tagged THEN [slot EXCEPT ![s] = r] ELSE slot
  BY DEF Inc
<1>5. /\ r \in Socket /\ r.sending = n /\ r.type = slot[s].type /\ r.id = slot[s].id
      /\ r.fd = slot[s].fd /\ r.tcp = slot[s].tcp /\ r.tag = slot[s].tag
      /\ r.high = slot[s].high /\ r.low = slot[s].low /\ r.wb_size = slot[s].wb_size
  <2>1. n \in Nat
    BY <1>3 DEF Socket
  <2> HIDE DEF n
  <2> QED
    BY <1>3, <2>1, SendingField
<1> HIDE DEF r
<1>6. CASE ~tagged
  BY <1>1, <1>2, <1>4, <1>6 DEF AllSame, Same, Excess
<1>7. CASE tagged
  <2>1. /\ slot'[s] = r /\ \A t \in Slot : t # s => slot'[t] = slot[t]
    BY <1>2, <1>3, <1>4, <1>5, <1>7, OneSlot
  <2> QED
    BY <1>1, <1>2, <1>5, <1>7, <2>1 DEF AllSame, Same, Excess
<1> QED
  BY <1>6, <1>7

(* A slot is reserved, for an id larger than all before.                   *)
LEMMA ReserveLeaves ==
  ASSUME Shape, NEW c \in Caller, NEW kind \in {"connect", "listen"}, Reserve(c, kind)
  PROVE  LET id == Reservable
         IN  /\ id \in Id /\ id > alloc_id /\ HASH_ID(id) \in Slot
             /\ slot[HASH_ID(id)].type = "INVALID" /\ slot'[HASH_ID(id)].type = "RESERVE"
             /\ open' \subseteq open \cup {id} /\ alloc_id' = id
             /\ UNCHANGED <<poll, given, ready, lost, pipe>>
             /\ \A t \in Slot : Kept(t) /\ (t # HASH_ID(id) => slot'[t].type = slot[t].type)
<1> DEFINE id == Reservable
           s == HASH_ID(id)
<1>1. /\ open' \subseteq open \cup {id} /\ alloc_id' = id /\ id \in Id
      /\ UNCHANGED <<poll, given, ready, lost, pipe>>
      /\ slot' = [slot EXCEPT ![s].type = "RESERVE"]
  BY DEF Reserve, thread
<1>2. id > alloc_id /\ s \in Slot /\ slot[s].type = "INVALID"
  BY <1>1, ReservableIsNew DEF Shape
<1>3. PICK type \in Types : type = "RESERVE"
  BY DEF Types
<1>4. Retypes(s, type)
  <2> HIDE DEF s
  <2> QED
    BY <1>1, <1>2, <1>3, TypeRetypes
<1>5. Grows /\ alloc_id' \in Nat
  BY <1>1, <1>2 DEF Grows, Shape, TypeOK, Id
<1>6. /\ slot'[s].type = type
      /\ \A t \in Slot : Kept(t) /\ (t # s => slot'[t].type = slot[t].type)
  <2> HIDE DEF s
  <2> QED
    BY <1>2, <1>3, <1>4, <1>5, RetypesKeep
<1> QED
  BY <1>1, <1>2, <1>3, <1>6

(* ... and is then the new id's, with no descriptor yet.                   *)
LEMMA ReservedLeaves ==
  ASSUME Shape, NEW c \in Caller, Reserved(c)
  PROVE  LET id == calling[c].id
         IN  /\ id \in Id /\ HASH_ID(id) \in Slot
             /\ UNCHANGED <<poll, open, ready, lost, alloc_id>> /\ given' = given \cup {id}
             /\ pipe' = Append(pipe, [kind |-> calling[c].kind, id |-> id])
             /\ calling[c].kind \in {"connect", "listen"}
             /\ slot'[HASH_ID(id)].fd = 0 /\ ~slot'[HASH_ID(id)].tcp
             /\ slot'[HASH_ID(id)].type = slot[HASH_ID(id)].type
             /\ \A t \in Slot : t # HASH_ID(id) => slot'[t] = slot[t]
<1> DEFINE id == calling[c].id
           s == HASH_ID(id)
           r == [slot[s] EXCEPT !.id = id, !.tcp = FALSE, !.fd = 0]
<1>1. /\ id \in Id /\ s \in Slot /\ calling[c].kind \in {"connect", "listen"}
      /\ slot \in [Slot -> Socket] /\ slot[s] \in Socket
  BY CallerAt DEF Reserved, Shape, TypeOK
<1>2. /\ UNCHANGED <<poll, open, ready, lost, alloc_id>> /\ given' = given \cup {id}
      /\ pipe' = Append(pipe, [kind |-> calling[c].kind, id |-> id])
      /\ slot' = [slot EXCEPT ![s] = r]
  BY DEF Reserved, thread, kernel
<1>3. r \in Socket /\ r.type = slot[s].type /\ r.fd = 0 /\ ~r.tcp
  BY <1>1 DEF Socket
<1> HIDE DEF r
<1>4. slot'[s] = r /\ \A t \in Slot : t # s => slot'[t] = slot[t]
  BY <1>1, <1>2, <1>3, OneSlot
<1> QED
  BY <1>1, <1>2, <1>3, <1>4

(* What the socket thread leaves of the slots when it opens and frees none *)
LEMMA ThreadServes ==
  ASSUME Shape,
         \/ NoCommand \/ Start \/ Close("close") \/ Close("shutdown") \/ Decide
         \/ SendSocket \/ SendBuffer \/ SendList \/ AllSent \/ ClearClosed
         \/ Wait \/ Skip \/ ReportConnect \/ Read \/ Writable
  PROVE  /\ Serving /\ open' = open /\ given' = given /\ calling' = calling /\ ~Closing
         /\ Reserving \/ (Decide /\ lost' /\ slot[poll.s].type = "RESERVE")
<1>1. open' = open /\ given' = given /\ calling' = calling
  BY Zenon DEF NoCommand, Start, Close, Decide, SendSocket, SendBuffer, SendList, AllSent,
         ClearClosed, Wait, Skip, ReportConnect, Read, Writable, kernel, services
<1>2. ~Closing
  BY Zenon DEF NoCommand, Start, Close, Decide, SendSocket, SendBuffer, SendList, AllSent,
         ClearClosed, Wait, Skip, ReportConnect, Read, Writable, Closing, Command, Take,
         Established
<1>3. CASE \/ NoCommand \/ Close("close") \/ Close("shutdown") \/ ClearClosed
           \/ Wait \/ Skip
  <2>1. slot' = slot
    BY Zenon, <1>3 DEF NoCommand, Close, ClearClosed, Wait, Skip
  <2> QED
    BY <1>1, <1>2, <2>1 DEF Serving, Reserving, Excess
<1>4. CASE SendSocket \/ SendBuffer \/ SendList \/ Writable
  <2>1. slot' = slot \/ \E s \in Slot : Updates(s)
    <3>1. SendBuffer \/ SendList => poll.s \in Slot
      BY Zenon DEF SendBuffer, SendList, Shape, PollOK
    <3> QED
      BY <1>4, <3>1, SendSocketUpdates, SendBufferShape, SendListShape, WritableShape
  <2>2. CASE slot' = slot
    BY <1>1, <1>2, <2>2 DEF Serving, Reserving, Excess
  <2>3. CASE \E s \in Slot : Updates(s)
    <3>1. /\ AllSame
          /\ \A t \in Slot : slot'[t].sending = slot[t].sending /\ Excess(t)' = Excess(t)
      BY <2>3, UpdatesKeep
    <3> QED
      BY <1>1, <1>2, <3>1 DEF Serving, Reserving, AllSame, Same
  <2> QED
    BY <2>1, <2>2, <2>3
<1>5. CASE AllSent
  <2>1. /\ AllSame
        /\ \A t \in Slot : /\ slot'[t].sending = slot[t].sending
                           /\ \/ Excess(t)' = Excess(t)
                              \/ poll'.pc \in {"close", "closeHeld"} /\ poll'.s = t
    BY <1>5, AllSentShape
  <2> QED
    BY <1>1, <1>2, <2>1 DEF Serving, Reserving, AllSame, Same
<1>6. CASE Start \/ Decide \/ ReportConnect \/ Read
  BY <1>1, <1>2, <1>6, StartShape, DecideShape, ReportConnectShape, ReadShape
<1> QED
  BY <1>3, <1>4, <1>5, <1>6

LEMMA BacklogStep ==
  ASSUME Shape, BInv, [Next]_vars
  PROVE  BInv'
<1> USE StepShape
<1>1. CASE Calls
  <2>1. PICK c \in Caller :
        \/ \E kind \in {"connect", "listen"} : Reserve(c, kind)
        \/ Reserved(c)
        \/ \E kind \in {"close", "shutdown", "start"}, id \in given : Request(c, kind, id)
        \/ \E id \in ready, low \in BOOLEAN : Send(c, id, low)
        \/ Look(c) \/ Try(c) \/ Recheck(c) \/ DirectWrite(c) \/ Store(c)
        \/ Inc(c) \/ Push(c)
    BY <1>1 DEF Calls
  <2>2. CASE \E kind \in {"connect", "listen"} : Reserve(c, kind)
    <3>1. /\ Reservable > alloc_id /\ poll' = poll /\ open' \subseteq open \cup {Reservable}
          /\ \A t \in Slot : Kept(t)
      BY <2>2, ReserveLeaves
    <3>2. \A t \in Slot : slot[t].fd # Reservable
      <4>1. \A t \in Slot : slot[t].fd # 0 => slot[t].fd <= alloc_id
        BY DEF Shape, SlotOK
      <4>2. \A t \in Slot : slot[t].fd \in Nat
        <5>1. \A t \in Slot : slot[t] \in Socket
          BY DEF Shape, TypeOK
        <5>2. \A r \in Socket : r.fd \in Nat
          BY DEF Socket, Id
        <5> QED
          BY <5>1, <5>2
      <4>3. alloc_id \in Nat /\ Reservable \in Nat
        BY <2>2 DEF Shape, TypeOK, Reserve, Id
      <4> QED
        BY <3>1, <4>1, <4>2, <4>3
    <3>3. \A t \in Slot : slot'[t].fd \in open' => slot[t].fd \in open
      BY <3>1, <3>2 DEF Kept
    <3> SUFFICES ASSUME NEW s \in Slot, slot'[s].fd \in open',
                        ~(poll'.pc \in {"close", "closeHeld"} /\ poll'.s = s)
                 PROVE  slot'[s].wb_size = Total(slot'[s].high) + Total(slot'[s].low)
      BY DEF BInv, BacklogOK
    <3>4. slot[s] \in Socket /\ slot'[s] \in Socket
      BY DEF Shape, TypeOK
    <3>5. Excess(s) = 0
      BY <3>1, <3>3, <3>4, ExcessOfNone DEF BInv, BacklogOK, Excess
    <3> QED
      BY <3>1, <3>4, <3>5, ExcessOfNone DEF Kept, Excess
  <2>3. CASE Reserved(c)
    <3> DEFINE s == HASH_ID(calling[c].id)
    <3>1. /\ poll' = poll /\ open' = open /\ slot'[s].fd = 0
          /\ \A t \in Slot : t # s => slot'[t] = slot[t]
      BY <2>3, ReservedLeaves
    <3>2. 0 \notin open
      BY DEF Shape, TypeOK, Id
    <3> QED
      BY <3>1, <3>2 DEF BInv, BacklogOK
  <2>4. CASE \/ \E kind \in {"close", "shutdown", "start"}, id \in given : Request(c, kind, id)
             \/ \E id \in ready, low \in BOOLEAN : Send(c, id, low)
             \/ Look(c) \/ Try(c) \/ Recheck(c) \/ DirectWrite(c) \/ Store(c) \/ Push(c)
    <3>1. poll' = poll /\ open' = open /\ \A t \in Slot : Kept(t)
      BY <2>4, CallsLeave
    <3> QED
      BY <3>1, BacklogKept DEF Weighing, Kept
  <2>5. CASE Inc(c)
    <3>1. poll' = poll /\ open' = open /\ AllSame /\ \A t \in Slot : Excess(t)' = Excess(t)
      BY <2>5, IncLeaves
    <3> QED
      BY <3>1, BacklogKept DEF Weighing, AllSame, Same
  <2> QED
    BY <2>1, <2>2, <2>3, <2>4, <2>5
<1>2. CASE \/ NoCommand \/ Start \/ Close("close") \/ Close("shutdown") \/ Decide
           \/ SendSocket \/ SendBuffer \/ SendList \/ AllSent \/ ClearClosed
           \/ Wait \/ Skip \/ ReportConnect \/ Read \/ Writable
  <2>1. Serving /\ open' = open /\ ~Closing
    BY <1>2, ThreadServes
  <2> QED
    BY <2>1, BacklogKept DEF Weighing, Serving
<1>3. CASE OpenFailed \/ Dec
  <2>1. ~Closing /\ open' = open
    BY Zenon, <1>3 DEF OpenFailed, Dec, Closing, kernel
  <2>2. \A t \in Slot : slot'[t].fd = slot[t].fd /\ Excess(t)' = Excess(t)
    BY <1>3, OpenFailedShape, DecShape DEF Kept, AllSame, Same
  <2> QED
    BY <2>1, <2>2, BacklogKept DEF Weighing
<1>4. CASE EndClose
  <2>1. /\ poll.s \in Slot /\ open' = open \ {slot[poll.s].fd} /\ poll'.pc \in Resting
        /\ \A t \in Slot : Kept(t)
    BY <1>4, EndCloseShape
  <2> SUFFICES ASSUME NEW s \in Slot, slot'[s].fd \in open'
               PROVE  slot'[s].wb_size = Total(slot'[s].high) + Total(slot'[s].low)
    BY DEF BInv, BacklogOK
  <2>2. slot[s] \in Socket /\ slot'[s] \in Socket
    BY DEF Shape, TypeOK
  <2>3. poll.s # s /\ slot[s].fd \in open
    BY <2>1 DEF Kept
  <2>4. Excess(s) = 0
    BY <2>2, <2>3, ExcessOfNone DEF BInv, BacklogOK, Excess
  <2> QED
    BY <2>1, <2>2, <2>4, ExcessOfNone DEF Kept, Excess
<1>5. CASE Open \/ Listen \/ ReportAccept
  <2>1. ~Closing
    BY Zenon, <1>5 DEF Open, Listen, ReportAccept, Command, Take, Closing
  <2>2. \/ UNCHANGED <<slot, open>>
        \/ open' = open /\ \A t \in Slot : Kept(t)
        \/ \E id, s : Makes(s, id)
    BY <1>5, OpenShape, ListenShape, ReportAcceptShape
  <2>3. CASE UNCHANGED <<slot, open>>
    BY <2>1, <2>3, BacklogKept DEF Weighing, Excess
  <2>4. CASE open' = open /\ \A t \in Slot : Kept(t)
    BY <2>1, <2>4, BacklogKept DEF Weighing, Kept
  <2>5. CASE \E id, s : Makes(s, id)
    BY <2>1, <2>5, BacklogOfNew
  <2> QED
    BY <2>2, <2>3, <2>4, <2>5
<1>6. CASE UNCHANGED vars
  BY <1>6 DEF vars, BInv, BacklogOK
<1> QED
  BY <1>1, <1>2, <1>3, <1>4, <1>5, <1>6, StepIs DEF Polls

(* wb_size is what waits in both lists of a socket that is open and not    *)
(* being closed, whatever mixture of direct writes, partial and failed     *)
(* ones filled them: the assertion of send_buffer_'s step 4 holds.         *)
THEOREM BacklogIsCounted == Spec => []BacklogCounted
<1>1. Init => BInv
  BY DEF Init, BInv, BacklogOK
<1>2. Shape /\ BInv /\ [Next]_vars => BInv'
  BY BacklogStep
<1>3. BInv => BacklogCounted
  BY DEF BInv, BacklogOK, BacklogCounted, Live
<1> QED
  BY <1>1, <1>2, <1>3, ShapeHolds, PTL DEF Spec
-----------------------------------------------------------------------------
(* Requests and callers that are about to make one                         *)

LEMMA RequestsFinite ==
  ASSUME Shape, NEW id
  PROVE  /\ IsFiniteSet(Requests(id)) /\ Cardinality(Requests(id)) \in Nat
         /\ IsFiniteSet(Pushing(id)) /\ Cardinality(Pushing(id)) \in Nat
<1>1. DOMAIN pipe = 1..Len(pipe) /\ Len(pipe) \in Int
  BY DEF Shape, PipeOK
<1>2. IsFiniteSet(DOMAIN pipe)
  BY <1>1, FS_Interval
<1>3. IsFiniteSet(Requests(id))
  BY <1>2, FS_Subset DEF Requests
<1>4. IsFiniteSet(Pushing(id))
  BY SocketAssumption, FS_Subset DEF Pushing
<1> QED
  BY <1>3, <1>4, FS_CardinalityType

(* One request more                                                        *)
LEMMA RequestsAppend ==
  ASSUME Shape, NEW r, pipe' = Append(pipe, r), NEW id
  PROVE  Cardinality(Requests(id)') = Cardinality(Requests(id))
                                      + (IF r.kind = "send" /\ r.id = id THEN 1 ELSE 0)
<1> DEFINE n == Len(pipe) + 1
<1>1. pipe \in Seq(Plain \cup ToSend)
  BY DEF Shape, PipeOK
<1>2. /\ DOMAIN pipe' = DOMAIN pipe \cup {n} /\ n \notin DOMAIN pipe
      /\ pipe'[n] = r /\ \A k \in DOMAIN pipe : pipe'[k] = pipe[k]
  BY <1>1
<1>3. IsFiniteSet(Requests(id)) /\ Cardinality(Requests(id)) \in Nat /\ n \notin Requests(id)
  BY <1>2, RequestsFinite DEF Requests
<1> HIDE DEF n
<1>4. CASE r.kind = "send" /\ r.id = id
  <2>1. Requests(id)' = Requests(id) \cup {n}
    BY <1>2, <1>4 DEF Requests
  <2> QED
    BY <1>3, <1>4, <2>1, FS_AddElement
<1>5. CASE ~(r.kind = "send" /\ r.id = id)
  <2>1. Requests(id)' = Requests(id)
    BY <1>2, <1>5 DEF Requests
  <2> QED
    BY <1>3, <1>5, <2>1
<1> QED
  BY <1>4, <1>5

(* The first request is taken.                                             *)
LEMMA RequestsTail ==
  ASSUME Shape, pipe # <<>>, pipe' = Tail(pipe), NEW id
  PROVE  /\ Cardinality(Requests(id)') \in Nat
         /\ Cardinality(Requests(id)) = Cardinality(Requests(id)')
                 + (IF Head(pipe).kind = "send" /\ Head(pipe).id = id THEN 1 ELSE 0)
<1> DEFINE R == Requests(id) \ {1}
           f == [k \in R |-> k - 1]
<1>1. pipe \in Seq(Plain \cup ToSend)
  BY DEF Shape, PipeOK
<1>2. /\ \A k \in DOMAIN pipe' : k + 1 \in DOMAIN pipe /\ pipe'[k] = pipe[k+1] /\ k \in Nat
      /\ \A k \in DOMAIN pipe : k \in Nat /\ (k # 1 => k - 1 \in DOMAIN pipe')
      /\ \A k \in DOMAIN pipe : k # 1 => pipe[k] = pipe'[k-1]
      /\ 1 \in DOMAIN pipe /\ Head(pipe) = pipe[1] /\ 0 \notin DOMAIN pipe'
  BY <1>1
<1>3. /\ IsFiniteSet(Requests(id)) /\ Cardinality(Requests(id)) \in Nat
      /\ IsFiniteSet(R)
      /\ Cardinality(R) = IF 1 \in Requests(id) THEN Cardinality(Requests(id)) - 1
                          ELSE Cardinality(Requests(id))
  BY RequestsFinite, FS_RemoveElement
<1>4. f \in Bijection(R, Requests(id)')
  <2>1. f \in [R -> Requests(id)']
    BY <1>2 DEF Requests
  <2>2. \A k, l \in R : f[k] = f[l] => k = l
    BY <1>2 DEF Requests
  <2>3. \A j \in Requests(id)' : \E k \in R : f[k] = j
    <3> TAKE j \in Requests(id)'
    <3>1. j \in DOMAIN pipe' /\ pipe'[j].kind = "send" /\ pipe'[j].id = id
      BY DEF Requests
    <3>2. j + 1 \in R /\ (j + 1) - 1 = j
      BY <1>2, <3>1 DEF Requests
    <3> QED
      BY <3>2
  <2> QED
    BY <2>1, <2>2, <2>3 DEF Bijection, Injection, IsInjective, Surjection
<1>5. Cardinality(Requests(id)') = Cardinality(R)
  BY <1>3, <1>4, FS_Bijection DEF ExistsBijection
<1>6. 1 \in Requests(id) <=> Head(pipe).kind = "send" /\ Head(pipe).id = id
  BY <1>2 DEF Requests
<1>7. Cardinality(R) \in Nat
  BY <1>3, FS_CardinalityType
<1> HIDE DEF R
<1> QED
  BY <1>3, <1>5, <1>6, <1>7

(* One caller moves.                                                       *)
LEMMA PushingMoves ==
  ASSUME Shape, NEW c \in Caller, NEW q, calling' = [calling EXCEPT ![c] = q], NEW id
  PROVE  Pushing(id)' = IF q.pc = "push" /\ q.id = id THEN Pushing(id) \cup {c}
                        ELSE Pushing(id) \ {c}
<1>1. calling \in [Caller -> Calling]
  BY DEF Shape, CallingOK
<1>2. \A d \in Caller : calling'[d] = IF d = c THEN q ELSE calling[d]
  BY <1>1
<1> QED
  BY <1>2 DEF Pushing

(* A caller that neither has reserved nor comes to push, nor pushes        *)
LEMMA QuietCallers ==
  ASSUME Shape, NEW c \in Caller,
         \/ \E kind \in {"close", "shutdown", "start"}, id \in given : Request(c, kind, id)
         \/ \E id \in ready, low \in BOOLEAN : Send(c, id, low)
         \/ Look(c) \/ Try(c) \/ Recheck(c) \/ DirectWrite(c) \/ Store(c)
  PROVE  /\ \A d \in Caller : Reserves(d)' => Reserves(d) /\ calling'[d].id = calling[d].id
         /\ \A id : Pushing(id)' = Pushing(id)
<1>1. calling \in [Caller -> Calling]
  BY DEF Shape, CallingOK
<1>2. CASE calling' = calling
  BY <1>2 DEF Reserves, Pushing
<1>3. ASSUME NEW q, calling' = [calling EXCEPT ![c] = q], q.pc \notin {"reserved", "push"},
             calling[c].pc # "push"
      PROVE  /\ \A d \in Caller : Reserves(d)' => Reserves(d) /\ calling'[d].id = calling[d].id
             /\ \A id : Pushing(id)' = Pushing(id)
  <2>1. \A d \in Caller : calling'[d] = IF d = c THEN q ELSE calling[d]
    BY <1>1, <1>3
  <2> QED
    BY <1>3, <2>1 DEF Reserves, Pushing
<1>4. CASE Look(c) \/ Try(c) \/ Recheck(c)
  <2>1. calling[c].pc \in {"look", "try", "recheck"}
    BY <1>4 DEF Look, Try, Recheck
  <2>2. calling[c] = [pc |-> calling[c].pc, id |-> calling[c].id, msg |-> calling[c].msg]
    BY <2>1, CallerAt
  <2>3. PICK pc \in {"try", "inc", "recheck", "write"} : Goto(c, pc)
    BY <1>4 DEF Look, Try, Recheck
  <2> DEFINE q == [calling[c] EXCEPT !.pc = pc]
  <2>4. calling' = [calling EXCEPT ![c] = q]
    BY <2>3 DEF Goto
  <2>5. q.pc = pc
    BY <2>2
  <2> HIDE DEF q
  <2> QED
    BY <1>3, <2>1, <2>3, <2>4, <2>5
<1>5. CASE DirectWrite(c)
  <2>1. calling[c].pc = "write"
    BY Zenon, <1>5 DEF DirectWrite
  <2>2. \/ calling' = [calling EXCEPT ![c] = Idle]
        \/ \E b : calling' = [calling EXCEPT ![c] =
                        [pc |-> "store", id |-> calling[c].id, rest |-> b]]
    BY Zenon, <1>1, <1>5 DEF DirectWrite
  <2>3. CASE calling' = [calling EXCEPT ![c] = Idle]
    <3>1. Idle.pc = "idle"
      BY DEF Idle
    <3> QED
      BY <1>3, <2>1, <2>3, <3>1
  <2>4. ASSUME NEW b, calling' = [calling EXCEPT ![c] =
                          [pc |-> "store", id |-> calling[c].id, rest |-> b]]
        PROVE  /\ \A d \in Caller : Reserves(d)' => Reserves(d) /\ calling'[d].id = calling[d].id
               /\ \A id : Pushing(id)' = Pushing(id)
    <3> DEFINE q == [pc |-> "store", id |-> calling[c].id, rest |-> b]
    <3>1. q.pc = "store" /\ calling' = [calling EXCEPT ![c] = q]
      BY <2>4
    <3> HIDE DEF q
    <3> QED
      BY <1>3, <2>1, <3>1
  <2> QED
    BY <2>2, <2>3, <2>4
<1>6. CASE Store(c)
  <2>1. calling' = [calling EXCEPT ![c] = Idle] /\ calling[c].pc = "store" /\ Idle.pc = "idle"
    BY <1>6 DEF Store, Idle
  <2> QED
    BY <1>3, <2>1
<1>7. CASE \E id \in ready, low \in BOOLEAN : Send(c, id, low)
  <2>1. PICK id \in ready, low \in BOOLEAN : Send(c, id, low)
    BY <1>7
  <2> DEFINE msg == [n |-> calls', by |-> c, low |-> low]
  <2>2. calling[c].pc = "idle"
    BY <2>1 DEF Send, Call
  <2>3. \/ calling' = [calling EXCEPT ![c] = Idle]
        \/ \E pc \in {"look", "inc"} :
              calling' = [calling EXCEPT ![c] = [pc |-> pc, id |-> id, msg |-> msg]]
    BY <2>1 DEF Send
  <2>4. CASE calling' = [calling EXCEPT ![c] = Idle]
    <3>1. Idle.pc = "idle"
      BY DEF Idle
    <3> QED
      BY <1>3, <2>2, <2>4, <3>1
  <2>5. ASSUME NEW pc \in {"look", "inc"},
               calling' = [calling EXCEPT ![c] = [pc |-> pc, id |-> id, msg |-> msg]]
        PROVE  /\ \A d \in Caller : Reserves(d)' => Reserves(d) /\ calling'[d].id = calling[d].id
               /\ \A i : Pushing(i)' = Pushing(i)
    <3> DEFINE q == [pc |-> pc, id |-> id, msg |-> msg]
    <3>1. q.pc = pc /\ calling' = [calling EXCEPT ![c] = q]
      BY <2>5
    <3> HIDE DEF q
    <3> QED
      BY <1>3, <2>2, <3>1
  <2> QED
    BY <2>3, <2>4, <2>5
<1>8. CASE \E kind \in {"close", "shutdown", "start"}, id \in given : Request(c, kind, id)
  BY <1>2, <1>8 DEF Request
<1> QED
  BY <1>4, <1>5, <1>6, <1>7, <1>8
-----------------------------------------------------------------------------
(* Fresh ids                                                               *)

(* The requests that open sockets were there before, in their order.       *)
Inherits ==
    \E off \in {0, 1} : \A k \in DOMAIN pipe' :
        /\ k \in Nat
        /\ Opens(pipe'[k]) => k + off \in DOMAIN pipe /\ pipe[k + off] = pipe'[k]

LEMMA PipeInherits ==
  ASSUME Shape,
         \/ pipe' = pipe
         \/ pipe # <<>> /\ pipe' = Tail(pipe)
         \/ \E r : pipe' = Append(pipe, r) /\ ~Opens(r)
  PROVE  Inherits
<1>1. pipe \in Seq(Plain \cup ToSend)
  BY DEF Shape, PipeOK
<1>2. CASE pipe' = pipe
  <2>1. \A k \in DOMAIN pipe' : k \in Nat /\ k + 0 \in DOMAIN pipe /\ pipe[k + 0] = pipe'[k]
    BY <1>1, <1>2
  <2> QED
    BY <2>1 DEF Inherits
<1>3. CASE pipe # <<>> /\ pipe' = Tail(pipe)
  <2>1. \A k \in DOMAIN pipe' : k \in Nat /\ k + 1 \in DOMAIN pipe /\ pipe[k + 1] = pipe'[k]
    BY <1>1, <1>3
  <2> QED
    BY <2>1 DEF Inherits
<1>4. CASE \E r : pipe' = Append(pipe, r) /\ ~Opens(r)
  <2>1. PICK r : pipe' = Append(pipe, r) /\ ~Opens(r)
    BY <1>4
  <2>2. \A k \in DOMAIN pipe' : k \in Nat /\ (pipe'[k] = r
                                           \/ (k + 0 \in DOMAIN pipe /\ pipe[k + 0] = pipe'[k]))
    BY <1>1, <2>1
  <2> QED
    BY <2>1, <2>2 DEF Inherits
<1> QED
  BY <1>2, <1>3, <1>4

(* No id is reserved and none is asked for anew: what has to be shown then *)
(* is that the slots stay reserved and nobody is told of the ids.          *)
LEMMA FreshKept ==
  ASSUME FreshOK, Inherits,
         \A c \in Caller : Reserves(c)' =>
             /\ Reserves(c) /\ calling'[c].id = calling[c].id
             /\ slot'[HASH_ID(calling'[c].id)].type = "RESERVE" /\ calling'[c].id \notin given',
         \A k \in DOMAIN pipe' : Opens(pipe'[k]) =>
             slot'[HASH_ID(pipe'[k].id)].type = "RESERVE" /\ pipe'[k].id \notin ready'
  PROVE  FreshOK'
<1>1. PICK off \in {0, 1} : \A k \in DOMAIN pipe' :
        /\ k \in Nat
        /\ Opens(pipe'[k]) => k + off \in DOMAIN pipe /\ pipe[k + off] = pipe'[k]
  BY DEF Inherits
<1>2. /\ \A c \in Caller : Reserves(c)' =>
             slot'[HASH_ID(calling'[c].id)].type = "RESERVE" /\ calling'[c].id \notin given'
      /\ \A k \in DOMAIN pipe' : Opens(pipe'[k]) =>
             slot'[HASH_ID(pipe'[k].id)].type = "RESERVE" /\ pipe'[k].id \notin ready'
  OBVIOUS
<1>3. \A c, d \in Caller : Reserves(c)' /\ Reserves(d)'
        /\ HASH_ID(calling'[c].id) = HASH_ID(calling'[d].id) => c = d
  BY DEF FreshOK
<1>4. \A k, l \in DOMAIN pipe' : Opens(pipe'[k]) /\ Opens(pipe'[l])
        /\ HASH_ID(pipe'[k].id) = HASH_ID(pipe'[l].id) => k = l
  <2> SUFFICES ASSUME NEW k \in DOMAIN pipe', NEW l \in DOMAIN pipe',
                      Opens(pipe'[k]), Opens(pipe'[l]),
                      HASH_ID(pipe'[k].id) = HASH_ID(pipe'[l].id)
               PROVE  k = l
    OBVIOUS
  <2>1. k + off \in DOMAIN pipe /\ l + off \in DOMAIN pipe /\ k \in Nat /\ l \in Nat
        /\ pipe[k + off] = pipe'[k] /\ pipe[l + off] = pipe'[l]
    BY <1>1
  <2> DEFINE i == k + off
             j == l + off
  <2>2. i \in DOMAIN pipe /\ j \in DOMAIN pipe /\ pipe[i] = pipe'[k] /\ pipe[j] = pipe'[l]
    BY <2>1
  <2> HIDE DEF i, j
  <2>3. i = j
    BY <2>2 DEF FreshOK
  <2> QED
    BY <2>1, <2>3 DEF i, j
<1>5. \A c \in Caller, k \in DOMAIN pipe' : Reserves(c)' /\ Opens(pipe'[k]) =>
        HASH_ID(calling'[c].id) # HASH_ID(pipe'[k].id)
  <2> TAKE c \in Caller, k \in DOMAIN pipe'
  <2> HAVE Reserves(c)' /\ Opens(pipe'[k])
  <2>1. \E i \in DOMAIN pipe : pipe[i] = pipe'[k]
    BY <1>1
  <2> QED
    BY <2>1 DEF FreshOK
<1> QED
  BY <1>2, <1>3, <1>4, <1>5 DEF FreshOK

(* ... so it is when no slot is taken and nobody told anything.            *)
LEMMA FreshStays ==
  ASSUME FreshOK, Inherits, Reserving, Shape, UNCHANGED <<given, ready>>,
         \A c \in Caller : Reserves(c)' => Reserves(c) /\ calling'[c].id = calling[c].id
  PROVE  FreshOK'
<1>1. \A c \in Caller : Reserves(c)' =>
             /\ Reserves(c) /\ calling'[c].id = calling[c].id
             /\ slot'[HASH_ID(calling'[c].id)].type = "RESERVE" /\ calling'[c].id \notin given'
  <2> TAKE c \in Caller
  <2> HAVE Reserves(c)'
  <2>1. Reserves(c) /\ calling'[c].id = calling[c].id /\ HASH_ID(calling[c].id) \in Slot
    BY CallerAt DEF Reserves
  <2> QED
    BY <2>1 DEF FreshOK, Reserving
<1>2. \A k \in DOMAIN pipe' : Opens(pipe'[k]) =>
             slot'[HASH_ID(pipe'[k].id)].type = "RESERVE" /\ pipe'[k].id \notin ready'
  <2> TAKE k \in DOMAIN pipe'
  <2> HAVE Opens(pipe'[k])
  <2>1. PICK i \in DOMAIN pipe : pipe[i] = pipe'[k]
    BY DEF Inherits
  <2>2. HASH_ID(pipe[i].id) \in Slot
    BY HashInSlot DEF Shape, PipeOK, TypeOK
  <2> QED
    BY <2>1, <2>2 DEF FreshOK, Reserving
<1> QED
  BY <1>1, <1>2, FreshKept

(* reserve_id takes a slot that is free, under an id that is new.          *)
LEMMA FreshReserve ==
  ASSUME Shape, FreshOK, NEW c \in Caller, NEW kind \in {"connect", "listen"}, Reserve(c, kind)
  PROVE  FreshOK' /\ \A id : Pushing(id)' = Pushing(id)
<1> DEFINE new == Reservable
           q == [pc |-> "reserved", kind |-> kind, id |-> new]
<1>1. /\ new \in Id /\ new > alloc_id /\ HASH_ID(new) \in Slot
      /\ slot[HASH_ID(new)].type = "INVALID" /\ slot'[HASH_ID(new)].type = "RESERVE"
      /\ UNCHANGED <<given, ready, pipe>>
      /\ \A t \in Slot : t # HASH_ID(new) => slot'[t].type = slot[t].type
  BY ReserveLeaves
<1>2. calling[c].pc = "idle" /\ calling' = [calling EXCEPT ![c] = q]
  BY DEF Reserve, Call
<1>3. q.pc = "reserved" /\ q.id = new
  OBVIOUS
<1> HIDE DEF q, new
<1>4. \A d \in Caller : calling'[d] = IF d = c THEN q ELSE calling[d]
  BY <1>2 DEF Shape, CallingOK
<1>5. new \notin given
  <2>1. \A id \in given : id <= alloc_id
    BY DEF Shape, KnownOK
  <2>2. new \in Nat /\ alloc_id \in Nat
    BY <1>1 DEF Shape, TypeOK, Id
  <2> QED
    BY <1>1, <2>1, <2>2
<1>6. \A d \in Caller : Reserves(d) =>
        /\ d # c /\ HASH_ID(calling[d].id) # HASH_ID(new)
        /\ slot'[HASH_ID(calling[d].id)].type = "RESERVE"
  <2> TAKE d \in Caller
  <2> HAVE Reserves(d)
  <2>1. HASH_ID(calling[d].id) \in Slot
    BY CallerAt DEF Reserves
  <2> QED
    BY <1>1, <1>2, <2>1 DEF FreshOK, Reserves
<1>7. \A k \in DOMAIN pipe : Opens(pipe[k]) =>
        /\ HASH_ID(pipe[k].id) # HASH_ID(new)
        /\ slot'[HASH_ID(pipe[k].id)].type = "RESERVE"
  <2> TAKE k \in DOMAIN pipe
  <2> HAVE Opens(pipe[k])
  <2>1. HASH_ID(pipe[k].id) \in Slot
    BY HashInSlot DEF Shape, PipeOK, TypeOK
  <2> QED
    BY <1>1, <2>1 DEF FreshOK
<1>8. \A d \in Caller : Reserves(d)' =>
        \/ d = c /\ calling'[d].id = new
        \/ d # c /\ Reserves(d) /\ calling'[d].id = calling[d].id
  BY <1>3, <1>4 DEF Reserves
<1>9. FreshOK'
  <2>1. \A d \in Caller : Reserves(d)' =>
          slot'[HASH_ID(calling'[d].id)].type = "RESERVE" /\ calling'[d].id \notin given'
    BY <1>1, <1>5, <1>6, <1>8 DEF FreshOK
  <2>2. \A k \in DOMAIN pipe' : Opens(pipe'[k]) =>
          slot'[HASH_ID(pipe'[k].id)].type = "RESERVE" /\ pipe'[k].id \notin ready'
    BY <1>1, <1>7 DEF FreshOK
  <2>3. \A d, e \in Caller : Reserves(d)' /\ Reserves(e)'
          /\ HASH_ID(calling'[d].id) = HASH_ID(calling'[e].id) => d = e
    BY <1>6, <1>8 DEF FreshOK
  <2>4. \A k, l \in DOMAIN pipe' : Opens(pipe'[k]) /\ Opens(pipe'[l])
          /\ HASH_ID(pipe'[k].id) = HASH_ID(pipe'[l].id) => k = l
    BY <1>1 DEF FreshOK
  <2>5. \A d \in Caller, k \in DOMAIN pipe' : Reserves(d)' /\ Opens(pipe'[k]) =>
          HASH_ID(calling'[d].id) # HASH_ID(pipe'[k].id)
    BY <1>1, <1>6, <1>7, <1>8 DEF FreshOK
  <2> QED
    BY <2>1, <2>2, <2>3, <2>4, <2>5 DEF FreshOK
<1>10. \A id : Pushing(id)' = Pushing(id)
  BY <1>2, <1>3, <1>4 DEF Pushing
<1> QED
  BY <1>9, <1>10

(* The request takes the slot over from the caller.                        *)
LEMMA FreshReserved ==
  ASSUME Shape, FreshOK, NEW c \in Caller, Reserved(c)
  PROVE  FreshOK' /\ \A id : Pushing(id)' = Pushing(id)
<1> DEFINE new == calling[c].id
           r == [kind |-> calling[c].kind, id |-> new]
           n == Len(pipe) + 1
<1>1. /\ new \in Id /\ HASH_ID(new) \in Slot /\ ready' = ready
      /\ given' = given \cup {new} /\ pipe' = Append(pipe, r)
      /\ slot'[HASH_ID(new)].type = slot[HASH_ID(new)].type
      /\ \A t \in Slot : t # HASH_ID(new) => slot'[t] = slot[t]
  BY ReservedLeaves
<1>2. Reserves(c) /\ calling' = [calling EXCEPT ![c] = Idle] /\ Idle.pc = "idle"
  BY DEF Reserved, Reserves, Idle
<1>3. r.id = new
  OBVIOUS
<1>4. \A d \in Caller : calling'[d] = IF d = c THEN Idle ELSE calling[d]
  BY <1>2 DEF Shape, CallingOK
<1>5. /\ DOMAIN pipe' = DOMAIN pipe \cup {n} /\ pipe'[n] = r
      /\ \A k \in DOMAIN pipe : pipe'[k] = pipe[k]
  <2>1. pipe \in Seq(Plain \cup ToSend)
    BY DEF Shape, PipeOK
  <2> HIDE DEF r
  <2> QED
    BY <1>1, <2>1
<1>6. new \notin ready
  BY <1>2 DEF FreshOK, Shape, TypeOK
<1> HIDE DEF r, n
<1>7. \A d \in Caller : Reserves(d)' =>
        /\ Reserves(d) /\ d # c /\ calling'[d].id = calling[d].id
        /\ HASH_ID(calling[d].id) # HASH_ID(new) /\ HASH_ID(calling[d].id) \in Slot
  <2> TAKE d \in Caller
  <2> HAVE Reserves(d)'
  <2>1. d # c /\ Reserves(d) /\ calling'[d].id = calling[d].id
    BY <1>2, <1>4 DEF Reserves
  <2>2. HASH_ID(calling[d].id) \in Slot
    BY <2>1, CallerAt DEF Reserves
  <2>3. HASH_ID(calling[d].id) # HASH_ID(new)
    BY <1>2, <2>1 DEF FreshOK
  <2> QED
    BY <2>1, <2>2, <2>3
<1>8. \A k \in DOMAIN pipe : Opens(pipe[k]) =>
        HASH_ID(pipe[k].id) # HASH_ID(new) /\ HASH_ID(pipe[k].id) \in Slot
  <2> TAKE k \in DOMAIN pipe
  <2> HAVE Opens(pipe[k])
  <2>1. HASH_ID(pipe[k].id) \in Slot
    BY HashInSlot DEF Shape, PipeOK, TypeOK
  <2> QED
    BY <1>2, <2>1 DEF FreshOK
<1>9. FreshOK'
  <2>1. \A d \in Caller : Reserves(d)' =>
          slot'[HASH_ID(calling'[d].id)].type = "RESERVE" /\ calling'[d].id \notin given'
    BY <1>1, <1>7 DEF FreshOK
  <2>2. \A k \in DOMAIN pipe' : Opens(pipe'[k]) =>
          slot'[HASH_ID(pipe'[k].id)].type = "RESERVE" /\ pipe'[k].id \notin ready'
    BY <1>1, <1>2, <1>3, <1>5, <1>6, <1>8 DEF FreshOK
  <2>3. \A d, e \in Caller : Reserves(d)' /\ Reserves(e)'
          /\ HASH_ID(calling'[d].id) = HASH_ID(calling'[e].id) => d = e
    BY <1>7 DEF FreshOK
  <2>4. \A k, l \in DOMAIN pipe' : Opens(pipe'[k]) /\ Opens(pipe'[l])
          /\ HASH_ID(pipe'[k].id) = HASH_ID(pipe'[l].id) => k = l
    BY <1>3, <1>5, <1>8 DEF FreshOK
  <2>5. \A d \in Caller, k \in DOMAIN pipe' : Reserves(d)' /\ Opens(pipe'[k]) =>
          HASH_ID(calling'[d].id) # HASH_ID(pipe'[k].id)
    BY <1>3, <1>5, <1>7 DEF FreshOK
  <2> QED
    BY <2>1, <2>2, <2>3, <2>4, <2>5 DEF FreshOK
<1>10. \A id : Pushing(id)' = Pushing(id)
  BY <1>2, <1>4 DEF Pushing, Reserves
<1> QED
  BY <1>9, <1>10

(* The callers' other steps                                                *)
LEMMA FreshCalls ==
  ASSUME Shape, FreshOK, NEW c \in Caller,
         \/ \E kind \in {"close", "shutdown", "start"}, id \in given : Request(c, kind, id)
         \/ \E id \in ready, low \in BOOLEAN : Send(c, id, low)
         \/ Look(c) \/ Try(c) \/ Recheck(c) \/ DirectWrite(c) \/ Store(c)
         \/ Inc(c) \/ Push(c)
  PROVE  FreshOK'
<1>1. UNCHANGED <<given, ready>> /\ Reserving
  <2>1. CASE Inc(c)
    BY <2>1, IncLeaves DEF AllSame, Same, Reserving
  <2>2. CASE ~Inc(c)
    BY <2>2, CallsLeave DEF Reserving
  <2> QED
    BY <2>1, <2>2
<1>2. Inherits
  <2>1. CASE pipe' = pipe
    BY <2>1, PipeInherits
  <2>2. CASE \E kind \in {"close", "shutdown", "start"}, id \in given : Request(c, kind, id)
    <3>1. PICK kind \in {"close", "shutdown", "start"}, id \in given : Request(c, kind, id)
      BY <2>2
    <3> DEFINE r == [kind |-> kind, id |-> id]
    <3>2. pipe' = Append(pipe, r) /\ ~Opens(r)
      BY <3>1 DEF Request, Opens
    <3> HIDE DEF r
    <3> QED
      BY <3>2, PipeInherits
  <2>3. CASE Push(c)
    <3> DEFINE r == [kind |-> "send", id |-> calling[c].id, msg |-> calling[c].msg]
    <3>1. pipe' = Append(pipe, r) /\ ~Opens(r)
      BY <2>3 DEF Push, Opens
    <3> HIDE DEF r
    <3> QED
      BY <3>1, PipeInherits
  <2> QED
    BY Zenon, <2>1, <2>2, <2>3 DEF Send, Look, Try, Recheck, DirectWrite, Store, Inc
<1>3. \A d \in Caller : Reserves(d)' => Reserves(d) /\ calling'[d].id = calling[d].id
  <2>1. CASE Inc(c) \/ Push(c)
    <3>1. calling \in [Caller -> Calling]
      BY DEF Shape, CallingOK
    <3>2. calling[c] = [pc |-> calling[c].pc, id |-> calling[c].id, msg |-> calling[c].msg]
      BY <2>1, CallerAt DEF Inc, Push
    <3>3. \A d \in Caller : d # c => calling'[d] = calling[d]
      BY <2>1, <3>1 DEF Inc, Push, Goto
    <3>4. calling'[c].pc \in {"push", "idle"}
      BY <2>1, <3>1, <3>2 DEF Inc, Push, Goto, Idle
    <3> QED
      BY <3>3, <3>4 DEF Reserves
  <2>2. CASE ~(Inc(c) \/ Push(c))
    BY <2>2, QuietCallers
  <2> QED
    BY <2>1, <2>2
<1> QED
  BY <1>1, <1>2, <1>3, FreshStays

(* The steps of the thread that open nothing; one that takes a reserved    *)
(* slot makes the state lost.                                              *)
LEMMA FreshThread ==
  ASSUME Shape, FreshOK, ~lost',
         \/ NoCommand \/ Start \/ Close("close") \/ Close("shutdown") \/ Decide
         \/ SendSocket \/ SendBuffer \/ SendList \/ AllSent \/ ClearClosed
         \/ Wait \/ Skip \/ ReportConnect \/ Read \/ Writable
         \/ OpenFailed \/ Dec \/ EndClose
  PROVE  FreshOK'
<1>1. calling' = calling /\ given' = given /\ Reserving
  <2>1. CASE OpenFailed
    <3>1. /\ calling' = calling /\ given' = given /\ slot[poll.s].type # "RESERVE"
      BY Zenon, <2>1 DEF OpenFailed, services, Taken
    <3>2. \A t \in Slot : t # poll.s => slot'[t].type = slot[t].type
      BY <2>1, OpenFailedShape
    <3> QED
      BY <3>1, <3>2 DEF Reserving
  <2>2. CASE Dec
    <3>1. AllSame
      BY <2>2, DecShape
    <3> QED
      BY <2>2, <3>1 DEF Dec, services, Reserving, AllSame, Same
  <2>3. CASE EndClose
    <3>1. /\ slot[poll.s].type # "RESERVE"
          /\ \A t \in Slot : t # poll.s => slot'[t].type = slot[t].type
      BY <2>3, EndCloseShape
    <3> QED
      BY <2>3, <3>1 DEF EndClose, services, Reserving
  <2>4. CASE ~(OpenFailed \/ Dec \/ EndClose)
    BY <2>4, ThreadServes
  <2> QED
    BY <2>1, <2>2, <2>3, <2>4
<1>2. Inherits
  <2>1. pipe' = pipe \/ (pipe # <<>> /\ pipe' = Tail(pipe))
    BY Zenon DEF NoCommand, Start, Close, Decide, SendSocket, SendBuffer, SendList, AllSent,
           ClearClosed, Wait, Skip, ReportConnect, Read, Writable, OpenFailed, Dec, EndClose,
           Command
  <2> QED
    BY <2>1, PipeInherits
<1>3. \A c \in Caller : Reserves(c)' => Reserves(c) /\ calling'[c].id = calling[c].id
  BY <1>1 DEF Reserves
<1>4. CASE ready' = ready
  BY <1>1, <1>2, <1>3, <1>4, FreshStays
<1>5. CASE ReportConnect /\ ready' # ready
  <2> DEFINE s == EventSlot
  <2>1. /\ ready' = ready \cup {slot[s].id} /\ slot[s].type = "CONNECTING" /\ s \in Slot
        /\ pipe' = pipe
    <3>1. s \in Slot
      BY <1>5, EventsShrink DEF ReportConnect, Take
    <3> QED
      BY <1>5, <3>1 DEF ReportConnect
  <2>2. HASH_ID(slot[s].id) = s
    BY <2>1 DEF Shape, SlotOK
  <2>3. \A k \in DOMAIN pipe : Opens(pipe[k]) => pipe[k].id # slot[s].id
    BY <2>1, <2>2 DEF FreshOK
  <2>4. \A c \in Caller : Reserves(c)' =>
               /\ Reserves(c) /\ calling'[c].id = calling[c].id
               /\ slot'[HASH_ID(calling'[c].id)].type = "RESERVE" /\ calling'[c].id \notin given'
    <3> TAKE c \in Caller
    <3> HAVE Reserves(c)'
    <3>1. Reserves(c) /\ calling'[c].id = calling[c].id /\ HASH_ID(calling[c].id) \in Slot
      BY <1>3, CallerAt DEF Reserves
    <3> QED
      BY <1>1, <3>1 DEF FreshOK, Reserving
  <2>5. \A k \in DOMAIN pipe' : Opens(pipe'[k]) =>
               slot'[HASH_ID(pipe'[k].id)].type = "RESERVE" /\ pipe'[k].id \notin ready'
    <3> TAKE k \in DOMAIN pipe'
    <3> HAVE Opens(pipe'[k])
    <3>1. HASH_ID(pipe[k].id) \in Slot
      BY <2>1, HashInSlot DEF Shape, PipeOK, TypeOK
    <3> QED
      BY <1>1, <2>1, <2>3, <3>1 DEF FreshOK, Reserving
  <2> QED
    BY <1>2, <2>4, <2>5, FreshKept
<1>6. ready' = ready \/ ReportConnect
  BY Zenon DEF NoCommand, Start, Close, Decide, SendSocket, SendBuffer, SendList, AllSent,
         ClearClosed, Wait, Skip, Read, Writable, OpenFailed, Dec, EndClose, services
<1> QED
  BY <1>4, <1>5, <1>6

(* The first request gets its socket, or its slot is made free.            *)
LEMMA FreshOpens ==
  ASSUME Shape, FreshOK, Open \/ Listen
  PROVE  FreshOK'
<1> DEFINE id == Head(pipe).id
<1>1. /\ pipe # <<>> /\ pipe' = Tail(pipe) /\ Opens(Head(pipe))
      /\ calling' = calling /\ given' = given
  BY Zenon DEF Open, Listen, Command, Opens, services
<1>2. ready' \subseteq ready \cup {id}
  BY Zenon DEF Open, Listen, services
<1>3. id \in Id /\ HASH_ID(id) \in Slot /\ 1 \in DOMAIN pipe /\ Head(pipe) = pipe[1]
  BY <1>1, HeadOfPipe
<1>4. \A t \in Slot : t # HASH_ID(id) => slot'[t].type = slot[t].type
  BY OpenShape, ListenShape DEF Makes
<1>5. Inherits
  BY <1>1, PipeInherits
<1>6. \A k \in DOMAIN pipe' : \E i \in DOMAIN pipe : i # 1 /\ pipe'[k] = pipe[i]
  <2>1. pipe \in Seq(Plain \cup ToSend)
    BY DEF Shape, PipeOK
  <2>2. \A k \in DOMAIN pipe' : k + 1 \in DOMAIN pipe /\ k + 1 # 1 /\ pipe'[k] = pipe[k + 1]
    BY <1>1, <2>1
  <2> QED
    BY <2>2
<1> HIDE DEF id
<1>7. \A c \in Caller : Reserves(c)' =>
             /\ Reserves(c) /\ calling'[c].id = calling[c].id
             /\ slot'[HASH_ID(calling'[c].id)].type = "RESERVE" /\ calling'[c].id \notin given'
  <2> TAKE c \in Caller
  <2> HAVE Reserves(c)'
  <2>1. Reserves(c) /\ calling'[c].id = calling[c].id /\ HASH_ID(calling[c].id) \in Slot
    BY <1>1, CallerAt DEF Reserves
  <2>2. HASH_ID(calling[c].id) # HASH_ID(id)
    BY <1>1, <1>3, <2>1 DEF FreshOK, id
  <2> QED
    BY <1>1, <1>4, <2>1, <2>2 DEF FreshOK
<1>8. \A k \in DOMAIN pipe' : Opens(pipe'[k]) =>
             slot'[HASH_ID(pipe'[k].id)].type = "RESERVE" /\ pipe'[k].id \notin ready'
  <2> TAKE k \in DOMAIN pipe'
  <2> HAVE Opens(pipe'[k])
  <2>1. PICK i \in DOMAIN pipe : i # 1 /\ pipe'[k] = pipe[i]
    BY <1>6
  <2>2. HASH_ID(pipe[i].id) # HASH_ID(id)
    BY <1>1, <1>3, <2>1 DEF FreshOK, id
  <2>3. HASH_ID(pipe[i].id) \in Slot
    BY HashInSlot DEF Shape, PipeOK, TypeOK
  <2> QED
    BY <1>2, <1>4, <2>1, <2>2, <2>3 DEF FreshOK
<1> QED
  BY <1>5, <1>7, <1>8, FreshKept

(* report_accept takes a slot that is free.                                *)
LEMMA FreshAccept ==
  ASSUME Shape, FreshOK, ReportAccept
  PROVE  FreshOK'
<1> DEFINE new == Reservable
<1>1. calling' = calling /\ pipe' = pipe
  BY DEF ReportAccept
<1>2. Inherits
  BY <1>1, PipeInherits
<1>3. CASE UNCHANGED <<slot, given, ready>>
  BY <1>1, <1>2, <1>3, FreshStays DEF Reserving, Reserves
<1>4. CASE /\ Makes(HASH_ID(new), new) /\ slot[HASH_ID(new)].type = "INVALID"
           /\ given' = given \cup {new} /\ ready' = ready \cup {new}
  <2>1. \A t \in Slot : t # HASH_ID(new) => slot'[t] = slot[t]
    BY <1>4 DEF Makes
  <2>2. \A c \in Caller : Reserves(c)' =>
               /\ Reserves(c) /\ calling'[c].id = calling[c].id
               /\ slot'[HASH_ID(calling'[c].id)].type = "RESERVE" /\ calling'[c].id \notin given'
    <3> TAKE c \in Caller
    <3> HAVE Reserves(c)'
    <3>1. Reserves(c) /\ calling'[c].id = calling[c].id /\ HASH_ID(calling[c].id) \in Slot
      BY <1>1, CallerAt DEF Reserves
    <3>2. slot[HASH_ID(calling[c].id)].type = "RESERVE" /\ calling[c].id \notin given
      BY <3>1 DEF FreshOK
    <3>3. HASH_ID(calling[c].id) # HASH_ID(new)
      BY <1>4, <3>2
    <3> HIDE DEF new
    <3> QED
      BY <1>4, <2>1, <3>1, <3>2, <3>3
  <2>3. \A k \in DOMAIN pipe' : Opens(pipe'[k]) =>
               slot'[HASH_ID(pipe'[k].id)].type = "RESERVE" /\ pipe'[k].id \notin ready'
    <3> TAKE k \in DOMAIN pipe'
    <3> HAVE Opens(pipe'[k])
    <3>1. HASH_ID(pipe[k].id) \in Slot
      BY <1>1, HashInSlot DEF Shape, PipeOK, TypeOK
    <3>2. slot[HASH_ID(pipe[k].id)].type = "RESERVE" /\ pipe[k].id \notin ready
      BY <1>1 DEF FreshOK
    <3>3. HASH_ID(pipe[k].id) # HASH_ID(new)
      BY <1>4, <3>2
    <3> HIDE DEF new
    <3> QED
      BY <1>1, <1>4, <2>1, <3>1, <3>2, <3>3
  <2> QED
    BY <1>2, <2>2, <2>3, FreshKept
<1> QED
  BY <1>3, <1>4, ReportAcceptShape

LEMMA FreshStep ==
  ASSUME Shape, FreshOK, [Next]_vars, ~lost'
  PROVE  FreshOK'
<1>1. CASE Calls
  <2>1. PICK c \in Caller :
        \/ \E kind \in {"connect", "listen"} : Reserve(c, kind)
        \/ Reserved(c)
        \/ \E kind \in {"close", "shutdown", "start"}, id \in given : Request(c, kind, id)
        \/ \E id \in ready, low \in BOOLEAN : Send(c, id, low)
        \/ Look(c) \/ Try(c) \/ Recheck(c) \/ DirectWrite(c) \/ Store(c)
        \/ Inc(c) \/ Push(c)
    BY <1>1 DEF Calls
  <2> QED
    BY <2>1, FreshReserve, FreshReserved, FreshCalls
<1>2. CASE Polls
  BY <1>2, FreshThread, FreshOpens, FreshAccept DEF Polls
<1>3. CASE UNCHANGED vars
  <2>1. UNCHANGED <<slot, calling, pipe, given, ready>>
    BY <1>3 DEF vars
  <2> QED
    BY <2>1 DEF FreshOK, Reserves
<1> QED
  BY <1>1, <1>2, <1>3, StepIs
-----------------------------------------------------------------------------
(* What is on its way                                                      *)

LEMMA CountKept ==
  ASSUME \A s \in Slot : CountOK(s), \A id : OnItsWay(id)' = OnItsWay(id),
         \A s \in Slot : /\ slot'[s].id = slot[s].id /\ slot'[s].tcp = slot[s].tcp
                        /\ slot'[s].sending = slot[s].sending
  PROVE  \A s \in Slot : CountOK(s)'
<1> TAKE s \in Slot
<1>1. PICK id : id = slot[s].id
  OBVIOUS
<1>2. slot'[s].id = id /\ slot'[s].tcp = slot[s].tcp /\ slot'[s].sending = slot[s].sending
  BY <1>1
<1>3. OnItsWay(id)' = OnItsWay(id)
  OBVIOUS
<1>4. slot[s].tcp => slot[s].sending = OnItsWay(id)
  BY <1>1 DEF CountOK
<1>5. slot'[s].tcp => slot'[s].sending = OnItsWay(id)'
  BY <1>2, <1>3, <1>4
<1> QED
  BY <1>2, <1>5 DEF CountOK, OnItsWay, Requests, Pushing

(* No request to send is made, and nobody comes to make one or stops.      *)
LEMMA WayKept ==
  ASSUME Shape, \A id : Pushing(id)' = Pushing(id), poll' = poll,
         pipe' = pipe \/ \E r : pipe' = Append(pipe, r) /\ r.kind # "send"
  PROVE  \A id : OnItsWay(id)' = OnItsWay(id)
<1> TAKE id
<1>1. Cardinality(Requests(id)') = Cardinality(Requests(id))
  <2>1. CASE pipe' = pipe
    BY <2>1 DEF Requests
  <2>2. CASE \E r : pipe' = Append(pipe, r) /\ r.kind # "send"
    <3>1. PICK r : pipe' = Append(pipe, r) /\ r.kind # "send"
      BY <2>2
    <3>2. Cardinality(Requests(id)') = Cardinality(Requests(id))
                                       + (IF r.kind = "send" /\ r.id = id THEN 1 ELSE 0)
      BY <3>1, RequestsAppend
    <3> QED
      BY <3>1, <3>2, RequestsFinite
  <2> QED
    BY <2>1, <2>2
<1>2. Pushing(id)' = Pushing(id)
  OBVIOUS
<1> QED
  BY <1>1, <1>2 DEF OnItsWay

(* A caller raises the count of the socket that its message goes to, if it *)
(* has its descriptor still, and is then about to push.                    *)
LEMMA CountInc ==
  ASSUME Shape, \A s \in Slot : CountOK(s), NEW c \in Caller, Inc(c)
  PROVE  \A s \in Slot : CountOK(s)'
<1> DEFINE to == calling[c].id
           q == [pc |-> "push", id |-> to, msg |-> calling[c].msg]
<1>1. /\ poll' = poll /\ pipe' = pipe /\ to \in Id /\ AllSame
      /\ \A t \in Slot : slot'[t].sending =
              IF t = HASH_ID(to) /\ slot[t].tcp /\ slot[t].tag = ID_TAG16(to)
              THEN slot[t].sending + 1 ELSE slot[t].sending
  BY IncLeaves
<1>2. calling' = [calling EXCEPT ![c] = q] /\ calling[c].pc = "inc"
  <2>1. calling[c].pc = "inc" /\ calling' = [calling EXCEPT ![c].pc = "push"]
    BY DEF Inc, Goto
  <2>2. calling[c] = [pc |-> calling[c].pc, id |-> calling[c].id, msg |-> calling[c].msg]
    BY <2>1, CallerAt
  <2>3. [calling[c] EXCEPT !.pc = "push"] = q
    BY <2>2
  <2> QED
    BY <2>1, <2>3
<1>3. q.pc = "push" /\ q.id = to
  OBVIOUS
<1> HIDE DEF to, q
<1> TAKE s \in Slot
<1>4. PICK id : id = slot[s].id
  OBVIOUS
<1>5. slot'[s].id = id /\ slot'[s].tcp = slot[s].tcp
  BY <1>1, <1>4 DEF AllSame, Same
<1>6. Requests(id)' = Requests(id)
  BY <1>1 DEF Requests
<1>7. Cardinality(Pushing(id)') = Cardinality(Pushing(id)) + (IF to = id THEN 1 ELSE 0)
  <2>1. Pushing(id)' = IF to = id THEN Pushing(id) \cup {c} ELSE Pushing(id) \ {c}
    BY <1>2, <1>3, PushingMoves
  <2>2. c \notin Pushing(id) /\ IsFiniteSet(Pushing(id)) /\ Cardinality(Pushing(id)) \in Nat
    BY <1>2, RequestsFinite DEF Pushing
  <2>3. CASE to = id
    BY <2>1, <2>2, <2>3, FS_AddElement
  <2>4. CASE to # id
    <3>1. Pushing(id)' = Pushing(id)
      BY <2>1, <2>2, <2>4
    <3> QED
      BY <2>2, <2>4, <3>1
  <2> QED
    BY <2>3, <2>4
<1>8. ASSUME slot[s].tcp
      PROVE  slot'[s].sending = slot[s].sending + (IF to = id THEN 1 ELSE 0)
  <2>1. /\ id # 0 /\ HASH_ID(id) = s /\ slot[s].tag = ID_TAG16(id)
        /\ slot[s].sending \in Nat /\ id \in Id
    BY <1>4, <1>8 DEF Shape, SlotOK, TypeOK, Socket
  <2>2. to = id <=> s = HASH_ID(to) /\ slot[s].tag = ID_TAG16(to)
    BY <1>1, <2>1, HashAndTag
  <2> QED
    BY <1>1, <1>8, <2>1, <2>2
<1>9. Cardinality(Requests(id)) \in Nat /\ Cardinality(Pushing(id)) \in Nat
  BY RequestsFinite
<1> DEFINE a == Cardinality(Requests(id))
           b == Cardinality(Pushing(id))
           d == IF poll.pc = "count" /\ poll.id = id THEN 1 ELSE 0
           e == IF to = id THEN 1 ELSE 0
<1>10. slot[s].tcp => slot[s].sending = a + b + d
  BY <1>4 DEF CountOK, OnItsWay
<1>11. a \in Nat /\ b \in Nat /\ d \in Nat /\ e \in Nat
  BY <1>9
<1>12. OnItsWay(id)' = a + (b + e) + d
  BY <1>1, <1>6, <1>7 DEF OnItsWay
<1> HIDE DEF a, b, d
<1>13. slot[s].tcp => slot'[s].sending = a + b + d + e
  BY <1>8, <1>10
<1> HIDE DEF e
<1>14. slot[s].tcp => slot'[s].sending = OnItsWay(id)'
  BY <1>11, <1>12, <1>13
<1> QED
  BY <1>5, <1>14 DEF CountOK, OnItsWay, Requests, Pushing

(* The caller's message is now a request.                                  *)
LEMMA CountPush ==
  ASSUME Shape, \A s \in Slot : CountOK(s), NEW c \in Caller, Push(c)
  PROVE  \A s \in Slot : CountOK(s)'
<1> DEFINE to == calling[c].id
           r == [kind |-> "send", id |-> to, msg |-> calling[c].msg]
<1>1. poll' = poll /\ \A t \in Slot : Kept(t)
  BY CallsLeave
<1>2. /\ calling' = [calling EXCEPT ![c] = Idle] /\ calling[c].pc = "push"
      /\ pipe' = Append(pipe, r) /\ Idle.pc = "idle"
  BY DEF Push, Idle
<1>3. r.kind = "send" /\ r.id = to
  OBVIOUS
<1> HIDE DEF r
<1>4. \A id : OnItsWay(id)' = OnItsWay(id)
  <2> TAKE id
  <2> DEFINE e == IF to = id THEN 1 ELSE 0
             a == Cardinality(Requests(id))
             b == Cardinality(Pushing(id))
             d == IF poll.pc = "count" /\ poll.id = id THEN 1 ELSE 0
             b1 == Cardinality(Pushing(id)')
  <2>1. Cardinality(Requests(id)') = a + e
    BY <1>2, <1>3, RequestsAppend
  <2>2. /\ IsFiniteSet(Pushing(id)) /\ a \in Nat /\ b \in Nat
        /\ (to = id <=> c \in Pushing(id))
    BY <1>2, RequestsFinite DEF Pushing
  <2>3. Pushing(id)' = Pushing(id) \ {c}
    BY <1>2, PushingMoves
  <2>4. b1 = b - e
    <3>1. b1 = IF c \in Pushing(id) THEN b - 1 ELSE b
      BY <2>2, <2>3, FS_RemoveElement
    <3> QED
      BY <2>2, <3>1
  <2>5. OnItsWay(id)' = (a + e) + b1 + d /\ OnItsWay(id) = a + b + d
    BY <1>1, <2>1 DEF OnItsWay
  <2>6. e \in Nat /\ d \in Nat
    OBVIOUS
  <2> HIDE DEF a, b, b1, d, e
  <2> QED
    BY <2>2, <2>4, <2>5, <2>6
<1> QED
  BY <1>1, <1>4, CountKept DEF Kept

(* The socket thread neither is counting nor begins to, and takes no       *)
(* request to send.                                                        *)
LEMMA ThreadWay ==
  ASSUME Shape, poll.pc # "count", poll'.pc # "count", calling' = calling,
         \/ pipe' = pipe
         \/ pipe # <<>> /\ pipe' = Tail(pipe) /\ Head(pipe).kind # "send"
  PROVE  \A id : OnItsWay(id)' = OnItsWay(id)
<1> TAKE id
<1>1. Pushing(id)' = Pushing(id)
  BY DEF Pushing
<1>2. Cardinality(Requests(id)') = Cardinality(Requests(id))
  <2>1. CASE pipe' = pipe
    BY <2>1 DEF Requests
  <2>2. CASE pipe # <<>> /\ pipe' = Tail(pipe) /\ Head(pipe).kind # "send"
    BY <2>2, RequestsTail
  <2> QED
    BY <2>1, <2>2
<1> QED
  BY <1>1, <1>2 DEF OnItsWay

LEMMA NoCounting ==
  ASSUME Shape,
         \/ NoCommand \/ Start \/ Close("close") \/ Close("shutdown") \/ Decide
         \/ SendBuffer \/ SendList \/ AllSent \/ ClearClosed
         \/ Wait \/ Skip \/ ReportConnect \/ Read \/ Writable
         \/ OpenFailed \/ EndClose \/ Open \/ Listen \/ ReportAccept
  PROVE  /\ poll.pc # "count" /\ poll'.pc # "count" /\ calling' = calling
         /\ \/ pipe' = pipe
            \/ pipe # <<>> /\ pipe' = Tail(pipe) /\ Head(pipe).kind # "send"
<1>1. calling' = calling
  BY Zenon DEF NoCommand, Start, Close, Decide, SendBuffer, SendList, AllSent, ClearClosed, Wait,
         Skip, ReportConnect, Read, Writable, OpenFailed, EndClose, Open, Listen, ReportAccept
<1>2. poll.pc # "count"
  BY Zenon DEF NoCommand, Start, Close, Decide, SendBuffer, SendList, AllSent, ClearClosed, Wait,
         Skip, ReportConnect, Read, Writable, OpenFailed, EndClose, Open, Listen, ReportAccept,
         Command, Take, Established
<1>3. \/ pipe' = pipe
      \/ pipe # <<>> /\ pipe' = Tail(pipe) /\ Head(pipe).kind # "send"
  BY Zenon DEF NoCommand, Start, Close, Decide, SendBuffer, SendList, AllSent, ClearClosed, Wait,
         Skip, ReportConnect, Read, Writable, OpenFailed, EndClose, Open, Listen, ReportAccept,
         Command
<1>4. poll'.pc # "count"
  <2>1. \A pc : At(pc).pc = pc /\ \A s, id, by : In(pc, s, id, by).pc = pc
    BY DEF At, In
  <2>2. \A rest : NextEvent(rest) => poll'.pc # "count"
    BY <2>1 DEF NextEvent
  <2>3. \A pc \in {"close", "closeHeld"} : \A s, id, by :
          BeginClose(pc, s, id, by) => poll'.pc # "count"
    BY <2>1 DEF BeginClose
  <2>4. \A pc : [poll EXCEPT !.pc = pc].pc = pc
    BY Zenon DEF Shape, TypeOK, Work
  <2>5. \A sl : Sent(sl) => poll'.pc # "count"
    BY Zenon, <2>2, <2>4 DEF Sent
  <2>6. CASE NoCommand \/ OpenFailed \/ ClearClosed \/ Wait
    <3>1. \/ poll' = At("wait") \/ poll' = At("event") \/ poll' = At("ctrl")
          \/ poll' = In("clear", None, poll.id, "")
      BY Zenon, <2>6 DEF NoCommand, OpenFailed, ClearClosed, Wait
    <3>2. /\ At("wait").pc # "count" /\ At("event").pc # "count" /\ At("ctrl").pc # "count"
          /\ In("clear", None, poll.id, "").pc # "count"
      BY DEF At, In
    <3> QED
      BY Zenon, <3>1, <3>2
  <2>7. CASE Open \/ Listen \/ Decide \/ EndClose \/ ReportAccept
    BY <2>7, OpenShape, ListenShape, DecideShape, EndCloseShape, ReportAcceptShape DEF Resting
  <2>8. CASE Close("close") \/ Close("shutdown")
    <3>1. \E pc \in {"clear", "decide", "sendbuf"} : \E s, id, by : poll' = In(pc, s, id, by)
      BY Zenon, <2>8 DEF Close
    <3> QED
      BY <2>1, <3>1
  <2>11. CASE SendBuffer
    BY Zenon, <2>11 DEF SendBuffer, Shape, TypeOK, Work
  <2>9. CASE SendList
    <3>1. poll' = poll \/ \E sl : Sent(sl)
      BY Zenon, <2>9 DEF SendList
    <3> QED
      BY <1>2, <2>5, <3>1
  <2>10. CASE AllSent
    BY <2>1, <2>3, <2>5, <2>10 DEF AllSent
  <2>12. CASE Start
    <3>1. \/ poll' = At("ctrl") \/ \E id : poll' = In("clear", None, id, "")
          \/ \E s, id, by : BeginClose("close", s, id, by)
      BY Zenon, <2>12 DEF Start
    <3>2. At("ctrl").pc # "count" /\ \A id : In("clear", None, id, "").pc # "count"
      BY DEF At, In
    <3> QED
      BY Zenon, <2>3, <3>1, <3>2
  <2>13. CASE Skip \/ ReportConnect \/ Read
    <3>1. (\E rest : NextEvent(rest)) \/ CloseOn
      BY <2>13 DEF Skip, ReportConnect, Read
    <3>2. CloseOn => poll'.pc # "count"
      BY <2>3 DEF CloseOn
    <3> QED
      BY <2>2, <3>1, <3>2
  <2>14. CASE Writable
    <3>1. (\E rest : NextEvent(rest)) \/ \E s, id : poll' = In("lists", s, id, "event")
      BY <2>14 DEF Writable
    <3> QED
      BY <2>2, <3>1 DEF In
  <2> QED
    BY <2>6, <2>7, <2>8, <2>9, <2>10, <2>11, <2>12, <2>13, <2>14
<1> QED
  BY <1>1, <1>2, <1>3, <1>4

(* send_socket takes a request, which dec_sending_ref then counts.         *)
LEMMA CountSendSocket ==
  ASSUME Shape, \A s \in Slot : CountOK(s), SendSocket
  PROVE  \A s \in Slot : CountOK(s)'
<1> DEFINE to == Head(pipe).id
<1>1. /\ pipe # <<>> /\ pipe' = Tail(pipe) /\ Head(pipe).kind = "send"
      /\ calling' = calling /\ poll.pc = "ctrl"
  BY Zenon DEF SendSocket, Command
<1>2. poll'.pc = "count" /\ poll'.id = to
  BY Zenon DEF SendSocket, In
<1>3. Serving
  BY ThreadServes
<1> HIDE DEF to
<1>4. \A id : OnItsWay(id)' = OnItsWay(id)
  <2> TAKE id
  <2> DEFINE e == IF to = id THEN 1 ELSE 0
             a == Cardinality(Requests(id))
             a1 == Cardinality(Requests(id)')
             b == Cardinality(Pushing(id))
  <2>1. a1 \in Nat /\ a = a1 + e
    BY <1>1, RequestsTail DEF to
  <2>2. Pushing(id)' = Pushing(id)
    BY <1>1 DEF Pushing
  <2>3. b \in Nat /\ e \in Nat
    BY RequestsFinite
  <2>4. OnItsWay(id)' = a1 + b + e /\ OnItsWay(id) = a + b
    BY <1>1, <1>2, <2>1, <2>2, <2>3 DEF OnItsWay
  <2> HIDE DEF a, a1, b, e
  <2> QED
    BY <2>1, <2>3, <2>4
<1> QED
  BY <1>3, <1>4, CountKept DEF Serving

(* dec_sending_ref: what is counted is the request just taken, and its     *)
(* slot is of nobody else with the same id.                                *)
LEMMA CountDec ==
  ASSUME Shape, \A s \in Slot : CountOK(s), Dec, poll'.pc # "abort"
  PROVE  \A s \in Slot : CountOK(s)'
<1> DEFINE to == poll.id
<1>1. /\ pipe' = pipe /\ calling' = calling /\ poll.pc = "count" /\ poll.s = HASH_ID(to)
      /\ poll.s \in Slot /\ slot \in [Slot -> Socket]
  BY DEF Dec, Shape, PollOK, TypeOK
<1>2. poll'.pc = "ctrl"
  <2>1. At("abort").pc = "abort" /\ At("ctrl").pc = "ctrl"
    BY DEF At
  <2> QED
    BY <2>1 DEF Dec
<1>3. AllSame
  BY DecShape
<1>4. \A t \in Slot : slot'[t].sending =
          IF t = poll.s /\ slot[t].id = to /\ slot[t].tcp
          THEN slot[t].sending - 1 ELSE slot[t].sending
  <2>1. CASE slot[poll.s].id # to \/ ~slot[poll.s].tcp
    <3>1. slot' = slot
      BY <2>1 DEF Dec
    <3> QED
      BY <2>1, <3>1
  <2>2. CASE ~(slot[poll.s].id # to \/ ~slot[poll.s].tcp)
    <3>1. slot' = [slot EXCEPT ![poll.s].sending = @ - 1]
      <4>1. At("abort").pc = "abort"
        BY DEF At
      <4> QED
        BY <2>2, <4>1 DEF Dec
    <3>2. slot[poll.s] \in Socket
      BY <1>1
    <3>3. slot'[poll.s].sending = slot[poll.s].sending - 1
      BY <1>1, <3>1, <3>2 DEF Socket
    <3>4. \A t \in Slot : t # poll.s => slot'[t] = slot[t]
      BY <1>1, <3>1
    <3> QED
      BY <2>2, <3>3, <3>4
  <2> QED
    BY <2>1, <2>2
<1> HIDE DEF to
<1> TAKE s \in Slot
<1>5. PICK id : id = slot[s].id
  OBVIOUS
<1>6. slot'[s].id = id /\ slot'[s].tcp = slot[s].tcp
  BY <1>3, <1>5 DEF AllSame, Same
<1> DEFINE a == Cardinality(Requests(id))
           b == Cardinality(Pushing(id))
           e == IF to = id THEN 1 ELSE 0
<1>7. a \in Nat /\ b \in Nat /\ e \in Nat
  BY RequestsFinite
<1>8. Requests(id)' = Requests(id) /\ Pushing(id)' = Pushing(id)
  BY <1>1 DEF Requests, Pushing
<1>9. OnItsWay(id)' = a + b
  BY <1>2, <1>7, <1>8 DEF OnItsWay
<1>10. slot[s].tcp => slot[s].sending = a + b + e
  BY <1>1, <1>5 DEF CountOK, OnItsWay, to
<1>11. slot[s].tcp => slot'[s].sending = slot[s].sending - e
  <2> SUFFICES ASSUME slot[s].tcp PROVE slot'[s].sending = slot[s].sending - e
    OBVIOUS
  <2>1. HASH_ID(id) = s /\ slot[s].sending \in Nat
    BY <1>1, <1>5 DEF Shape, SlotOK, Socket
  <2>2. to = id => s = poll.s
    BY <1>1, <2>1
  <2> QED
    BY <1>4, <1>5, <2>1, <2>2
<1> HIDE DEF a, b, e
<1>12. slot[s].tcp => slot'[s].sending = OnItsWay(id)'
  BY <1>7, <1>9, <1>10, <1>11
<1> QED
  BY <1>6, <1>12 DEF CountOK, OnItsWay, Requests, Pushing

(* A new socket has no request on its way, as nobody could send to it.     *)
LEMMA CountMakes ==
  ASSUME Shape, \A s \in Slot : CountOK(s), NEW s \in Slot, NEW new, Makes(s, new),
         new \notin ready, \A id : OnItsWay(id)' = OnItsWay(id), poll.pc # "count"
  PROVE  \A t \in Slot : CountOK(t)'
<1>1. new \in Id /\ s = HASH_ID(new) /\ slot'[s].id = new /\ slot'[s].sending = 0
      /\ \A t \in Slot : t # s => slot'[t] = slot[t]
  BY DEF Makes
<1>2. OnItsWay(new) = 0
  <2>1. Requests(new) = {}
    BY DEF Requests, Shape, PipeOK
  <2>2. Pushing(new) = {}
    BY CallerAt DEF Pushing
  <2> QED
    BY <2>1, <2>2, FS_EmptySet DEF OnItsWay
<1>3. OnItsWay(new)' = 0
  BY <1>2
<1> TAKE t \in Slot
<1>4. CASE t = s
  <2>1. slot'[t].id = new /\ (slot'[t].tcp => slot'[t].sending = OnItsWay(new)')
    BY <1>1, <1>3, <1>4
  <2> QED
    BY <2>1 DEF CountOK, OnItsWay, Requests, Pushing
<1>5. CASE t # s
  <2>1. slot'[t] = slot[t]
    BY <1>1, <1>5
  <2>2. PICK id : id = slot[t].id
    OBVIOUS
  <2>3. slot[t].tcp => slot[t].sending = OnItsWay(id)
    BY <2>2 DEF CountOK
  <2>4. slot'[t].id = id /\ (slot'[t].tcp => slot'[t].sending = OnItsWay(id)')
    BY <2>1, <2>2, <2>3
  <2> QED
    BY <2>4 DEF CountOK, OnItsWay, Requests, Pushing
<1> QED
  BY <1>4, <1>5

LEMMA CountStep ==
  ASSUME Shape, FreshOK, \A s \in Slot : CountOK(s), [Next]_vars, poll'.pc # "abort"
  PROVE  \A s \in Slot : CountOK(s)'
<1>1. CASE Calls
  <2>1. PICK c \in Caller :
        \/ \E kind \in {"connect", "listen"} : Reserve(c, kind)
        \/ Reserved(c)
        \/ \E kind \in {"close", "shutdown", "start"}, id \in given : Request(c, kind, id)
        \/ \E id \in ready, low \in BOOLEAN : Send(c, id, low)
        \/ Look(c) \/ Try(c) \/ Recheck(c) \/ DirectWrite(c) \/ Store(c)
        \/ Inc(c) \/ Push(c)
    BY <1>1 DEF Calls
  <2>2. CASE \E kind \in {"connect", "listen"} : Reserve(c, kind)
    <3>1. /\ poll' = poll /\ pipe' = pipe /\ \A t \in Slot : Kept(t)
          /\ \A id : Pushing(id)' = Pushing(id)
      BY <2>2, ReserveLeaves, FreshReserve
    <3>2. \A id : OnItsWay(id)' = OnItsWay(id)
      BY <3>1, WayKept
    <3> QED
      BY <3>1, <3>2, CountKept DEF Kept
  <2>3. CASE Reserved(c)
    <3> DEFINE s == HASH_ID(calling[c].id)
               r == [kind |-> calling[c].kind, id |-> calling[c].id]
    <3>1. /\ poll' = poll /\ ~slot'[s].tcp /\ pipe' = Append(pipe, r)
          /\ calling[c].kind \in {"connect", "listen"}
          /\ \A t \in Slot : t # s => slot'[t] = slot[t]
      BY <2>3, ReservedLeaves
    <3>2. r.kind # "send"
      BY <3>1
    <3>3. \A id : Pushing(id)' = Pushing(id)
      BY <2>3, FreshReserved
    <3> HIDE DEF r, s
    <3>4. \A id : OnItsWay(id)' = OnItsWay(id)
      BY <3>1, <3>2, <3>3, WayKept
    <3> TAKE t \in Slot
    <3>5. CASE t = s
      BY <3>1, <3>5 DEF CountOK
    <3>6. CASE t # s
      <4>1. slot'[t] = slot[t]
        BY <3>1, <3>6
      <4>2. PICK id : id = slot[t].id
        OBVIOUS
      <4>3. slot[t].tcp => slot[t].sending = OnItsWay(id)
        BY <4>2 DEF CountOK
      <4>4. OnItsWay(id)' = OnItsWay(id)
        BY <3>4
      <4>5. slot'[t].id = id /\ (slot'[t].tcp => slot'[t].sending = OnItsWay(id)')
        BY <4>1, <4>2, <4>3, <4>4
      <4> QED
        BY <4>5 DEF CountOK, OnItsWay, Requests, Pushing
    <3> QED
      BY <3>5, <3>6
  <2>4. CASE \/ \E kind \in {"close", "shutdown", "start"}, id \in given : Request(c, kind, id)
             \/ \E id \in ready, low \in BOOLEAN : Send(c, id, low)
             \/ Look(c) \/ Try(c) \/ Recheck(c) \/ DirectWrite(c) \/ Store(c)
    <3>1. poll' = poll /\ \A t \in Slot : Kept(t)
      BY <2>4, CallsLeave
    <3>2. \A id : Pushing(id)' = Pushing(id)
      BY <2>4, QuietCallers
    <3>3. pipe' = pipe \/ \E r : pipe' = Append(pipe, r) /\ r.kind # "send"
      <4>1. CASE \E kind \in {"close", "shutdown", "start"}, id \in given : Request(c, kind, id)
        <5>1. PICK kind \in {"close", "shutdown", "start"}, id \in given : Request(c, kind, id)
          BY <4>1
        <5> DEFINE r == [kind |-> kind, id |-> id]
        <5>2. pipe' = Append(pipe, r) /\ r.kind # "send"
          BY <5>1 DEF Request
        <5> HIDE DEF r
        <5> QED
          BY <5>2
      <4> QED
        BY Zenon, <2>4, <4>1 DEF Send, Look, Try, Recheck, DirectWrite, Store
    <3>4. \A id : OnItsWay(id)' = OnItsWay(id)
      BY <3>1, <3>2, <3>3, WayKept
    <3> QED
      BY <3>1, <3>4, CountKept DEF Kept
  <2> QED
    BY <2>1, <2>2, <2>3, <2>4, CountInc, CountPush
<1>2. CASE SendSocket \/ Dec
  BY <1>2, CountSendSocket, CountDec
<1>3. CASE \/ NoCommand \/ Start \/ Close("close") \/ Close("shutdown") \/ Decide
           \/ SendBuffer \/ SendList \/ AllSent \/ ClearClosed
           \/ Wait \/ Skip \/ ReportConnect \/ Read \/ Writable
           \/ OpenFailed \/ EndClose
  <2>1. \A id : OnItsWay(id)' = OnItsWay(id)
    BY <1>3, NoCounting, ThreadWay
  <2>2. \A t \in Slot : /\ slot'[t].id = slot[t].id /\ slot'[t].tcp = slot[t].tcp
                       /\ slot'[t].sending = slot[t].sending
    <3>1. CASE OpenFailed \/ EndClose
      BY <3>1, OpenFailedShape, EndCloseShape DEF Kept
    <3>2. CASE ~(OpenFailed \/ EndClose)
      <4>1. Serving
        BY <1>3, <3>2, ThreadServes
      <4> QED
        BY <4>1 DEF Serving
    <3> QED
      BY <3>1, <3>2
  <2> QED
    BY <2>1, <2>2, CountKept
<1>4. CASE Open \/ Listen \/ ReportAccept
  <2>1. poll.pc # "count" /\ \A id : OnItsWay(id)' = OnItsWay(id)
    BY <1>4, NoCounting, ThreadWay
  <2>2. CASE \E new : Makes(HASH_ID(new), new) /\ new \notin ready
    <3>1. PICK new : Makes(HASH_ID(new), new) /\ new \notin ready
      BY <2>2
    <3>2. HASH_ID(new) \in Slot
      BY <3>1 DEF Makes
    <3> QED
      BY <2>1, <3>1, <3>2, CountMakes
  <2>3. CASE slot' = slot \/ \A t \in Slot : Kept(t)
    BY <2>1, <2>3, CountKept DEF Kept
  <2>4. CASE Open \/ Listen
    <3>1. Opens(Head(pipe)) /\ pipe # <<>>
      BY Zenon, <2>4 DEF Open, Listen, Command, Opens
    <3>2. Head(pipe).id \notin ready
      BY <3>1, HeadOfPipe DEF FreshOK
    <3> QED
      BY <2>2, <2>3, <2>4, <3>2, OpenShape, ListenShape
  <2>5. CASE ReportAccept
    <3>1. Reservable \in Id /\ Reservable > alloc_id => Reservable \notin ready
      <4>1. \A id \in ready : id <= alloc_id
        BY DEF Shape, KnownOK, TypeOK
      <4> QED
        BY <4>1 DEF Shape, TypeOK, Id
    <3>2. \/ slot' = slot
          \/ Makes(HASH_ID(Reservable), Reservable) /\ Reservable > alloc_id
      BY <2>5, ReportAcceptShape
    <3>3. Makes(HASH_ID(Reservable), Reservable) => Reservable \in Id
      BY DEF Makes
    <3> QED
      BY <2>2, <2>3, <3>1, <3>2, <3>3
  <2> QED
    BY <1>4, <2>4, <2>5
<1>5. CASE UNCHANGED vars
  <2>1. UNCHANGED <<slot, pipe, calling, poll>>
    BY <1>5 DEF vars
  <2> QED
    BY <2>1 DEF CountOK, OnItsWay, Requests, Pushing
<1> QED
  BY <1>1, <1>2, <1>3, <1>4, <1>5, StepIs DEF Polls

(* A slot once taken from who reserved it stays so.                         *)
LEMMA LostStays == Shape /\ [Next]_vars /\ lost => lost'
<1> SUFFICES ASSUME Shape, [Next]_vars PROVE lost => lost'
  OBVIOUS
<1>1. CASE Calls
  BY Zenon, <1>1 DEF Calls, Reserve, Reserved, Request, Send, Look, Try, Recheck, DirectWrite,
              Store, Inc, Push
<1>2. CASE Decide \/ OpenFailed
  BY Zenon, <1>2, DecideShape DEF OpenFailed, Taken
<1>3. CASE Polls /\ ~(Decide \/ OpenFailed)
  BY Zenon, <1>3 DEF Polls, NoCommand, Start, Close, SendSocket, Dec, SendBuffer, SendList, AllSent,
              ClearClosed, Wait, Skip, ReportConnect, Read, Writable, EndClose, Open, Listen,
              ReportAccept
<1>4. CASE UNCHANGED vars
  BY <1>4 DEF vars
<1> QED
  BY <1>1, <1>2, <1>3, <1>4, StepIs

(* What has gone wrong stays so: an abort ends the socket thread.          *)
LEMMA SoundBefore ==
  ASSUME Shape, [Next]_vars, Sound'
  PROVE  Sound
<1>1. lost => lost'
  BY LostStays
<1>2. poll.pc = "abort" => poll' = poll
  <2>1. CASE Calls
    BY Zenon, <2>1 DEF Calls, Reserve, Reserved, Request, Send, Look, Try, Recheck, DirectWrite,
                Store, Inc, Push, thread
  <2>2. CASE Polls
    BY <2>2 DEF Polls, NoCommand, Start, Close, Decide, SendSocket, Dec, SendBuffer, SendList,
                AllSent, ClearClosed, Wait, Skip, ReportConnect, Read, Writable, OpenFailed,
                EndClose, Open, Listen, ReportAccept, Command, Take, Established
  <2>3. CASE UNCHANGED vars
    BY <2>3 DEF vars
  <2> QED
    BY <2>1, <2>2, <2>3, StepIs
<1> QED
  BY <1>1, <1>2 DEF Sound

LEMMA SendingInit == Init => IInv
<1> SUFFICES ASSUME Init PROVE IInv
  OBVIOUS
<1>1. Shape
  BY InitShape
<1>2. FreshOK
  BY DEF Init, FreshOK, Reserves, Idle
<1>3. \A s \in Slot : CountOK(s)
  BY DEF Init, CountOK
<1> QED
  BY <1>1, <1>2, <1>3 DEF IInv

LEMMA SendingStep ==
  ASSUME IInv, [Next]_vars
  PROVE  IInv'
<1>1. Shape /\ Shape'
  BY StepShape DEF IInv
<1>2. ASSUME Sound' PROVE FreshOK' /\ \A s \in Slot : CountOK(s)'
  <2>1. Sound
    BY <1>1, <1>2, SoundBefore
  <2>2. FreshOK /\ \A s \in Slot : CountOK(s)
    BY <2>1 DEF IInv
  <2>3. poll'.pc # "abort" /\ ~lost'
    BY <1>2 DEF Sound
  <2> QED
    BY <1>1, <2>2, <2>3, FreshStep, CountStep
<1> QED
  BY <1>1, <1>2 DEF IInv

(* The count that dec_sending_ref asserts to be above zero is that of the  *)
(* requests to send on their way to the slot's present socket, from        *)
(* inc_sending_ref of any caller to the thread's own work, through closing *)
(* and reuse of the slot, while no slot has been taken from who reserved   *)
(* it.                                                                     *)
THEOREM SendingIsCounted == Spec => []SendingCounted
<1>1. Init => IInv
  BY SendingInit
<1>2. IInv /\ [Next]_vars => IInv'
  BY SendingStep
<1>3. IInv => SendingCounted
  BY DEF IInv, Shape, Sound, CountOK, OnItsWay, SendingCounted
<1> QED
  BY <1>1, <1>2, <1>3, PTL DEF Spec
-----------------------------------------------------------------------------
(* The order of one caller's messages                                      *)

(* Not later, if of one caller and neither of low priority                 *)
Before(m, q) == m.by = q.by /\ ~m.low /\ ~q.low => m.n <= q.n

OfList(list) == {list[i].msg : i \in DOMAIN list}
Sorted(list) == \A i, j \in DOMAIN list : i < j => Before(list[i].msg, list[j].msg)

(* The order of what is written (W), waits in the high list (h) and after  *)
(* a direct write (D), is asked for (P) and is being written by callers    *)
(* (H); while the lists are sent (L) nothing overtakes what waits.         *)
Ordered(W, h, D, P, H, L) ==
    /\ Sorted(h)
    /\ \A x \in W, y \in OfList(h) \cup D \cup P : Before(x, y)
    /\ \A x \in OfList(h), y \in P : Before(x, y)
    /\ \A x \in D, y \in OfList(h) \cup P : Before(x, y)
    /\ \A x \in H, y \in OfList(h) \cup D \cup P : Before(x, y)
    /\ L => \A x \in OfList(h), y \in D : Before(x, y)

(* Sequences of things that carry a message                                *)
Added(list, e) == Append(list, e)
Joined(list, more) == list \o more

(* No list has no message, and is sorted.                                  *)
LEMMA MessagesOfNone == OfList(<<>>) = {} /\ Sorted(<<>>)
  BY DEF OfList, Sorted

(* The messages of a list are those of its things.                         *)
LEMMA MessagesAre ==
  ASSUME NEW S, NEW list \in Seq(S)
  PROVE  \A m \in OfList(list) : \E e \in S : m = e.msg
<1>1. \A i \in DOMAIN list : list[i] \in S
  OBVIOUS
<1> QED
  BY <1>1 DEF OfList

(* ... of one with another at its end                                      *)
LEMMA MessagesOfAdded ==
  ASSUME NEW S, NEW list \in Seq(S), NEW e \in S
  PROVE  /\ OfList(Added(list, e)) = OfList(list) \cup {e.msg}
         /\ Sorted(list) /\ (\A x \in OfList(list) : Before(x, e.msg)) => Sorted(Added(list, e))
<1> DEFINE n == Len(list) + 1
           new == Added(list, e)
<1>1. /\ DOMAIN new = DOMAIN list \cup {n} /\ new[n] = e
      /\ \A i \in DOMAIN list : new[i] = list[i] /\ i < n /\ i \in Int
      /\ n \in Int
  BY DEF Added
<1> HIDE DEF n, new
<1>2. OfList(new) = OfList(list) \cup {e.msg}
  BY <1>1 DEF OfList
<1>3. ASSUME Sorted(list), \A x \in OfList(list) : Before(x, e.msg)
      PROVE  Sorted(new)
  BY <1>1, <1>3 DEF Sorted, OfList
<1> QED
  BY <1>2, <1>3 DEF new

(* ... of its tail                                                         *)
LEMMA MessagesOfTail ==
  ASSUME NEW S, NEW list \in Seq(S), list # <<>>
  PROVE  /\ OfList(list) = OfList(Tail(list)) \cup {Head(list).msg}
         /\ Sorted(list) => Sorted(Tail(list))
                            /\ \A y \in OfList(Tail(list)) : Before(Head(list).msg, y)
<1> DEFINE rest == Tail(list)
<1>1. /\ 1 \in DOMAIN list /\ Head(list) = list[1]
      /\ \A i \in DOMAIN rest : i + 1 \in DOMAIN list /\ rest[i] = list[i + 1] /\ i \in Nat \ {0}
      /\ \A i \in DOMAIN list : i \in Nat /\ (i # 1 => i - 1 \in DOMAIN rest /\ rest[i - 1] = list[i])
  OBVIOUS
<1> HIDE DEF rest
<1>2. OfList(list) \subseteq OfList(rest) \cup {Head(list).msg}
  BY <1>1 DEF OfList
<1>3. Head(list).msg \in OfList(list)
  BY <1>1 DEF OfList
<1>4. OfList(rest) \subseteq OfList(list)
  BY <1>1 DEF OfList
<1>5. ASSUME Sorted(list)
      PROVE  Sorted(rest) /\ \A y \in OfList(rest) : Before(Head(list).msg, y)
  <2>1. \A i \in DOMAIN rest : /\ i + 1 \in DOMAIN list /\ 1 < i + 1
                               /\ rest[i].msg = list[i + 1].msg
    BY <1>1
  <2>2. \A i, j \in DOMAIN rest : i < j => i + 1 < j + 1
    BY <1>1
  <2>3. \A i \in DOMAIN rest : Before(list[1].msg, list[i + 1].msg)
    BY <1>1, <1>5, <2>1 DEF Sorted
  <2>4. \A i, j \in DOMAIN rest : i < j => Before(list[i + 1].msg, list[j + 1].msg)
    BY <1>5, <2>1, <2>2 DEF Sorted
  <2>5. Sorted(rest)
    BY <2>1, <2>4 DEF Sorted
  <2>6. \A y \in OfList(rest) : Before(Head(list).msg, y)
    BY <1>1, <2>1, <2>3 DEF OfList
  <2> QED
    BY <2>5, <2>6
<1> QED
  BY <1>2, <1>3, <1>4, <1>5 DEF rest

(* ... of one with another at its head                                     *)
LEMMA MessagesOfCons ==
  ASSUME NEW S, NEW list \in Seq(S), NEW e \in S
  PROVE  /\ OfList(Joined(<<e>>, list)) = OfList(list) \cup {e.msg}
         /\ Sorted(list) /\ (\A y \in OfList(list) : Before(e.msg, y))
                => Sorted(Joined(<<e>>, list))
<1> DEFINE new == Joined(<<e>>, list)
<1>1. /\ 1 \in DOMAIN new /\ new[1] = e
      /\ \A i \in DOMAIN list : i + 1 \in DOMAIN new /\ new[i + 1] = list[i] /\ i \in Nat \ {0}
      /\ \A i \in DOMAIN new : i \in Nat \ {0} /\ (i # 1 => i - 1 \in DOMAIN list /\ new[i] = list[i - 1])
  BY DEF Joined
<1> HIDE DEF new
<1>2. OfList(new) \subseteq OfList(list) \cup {e.msg}
  BY <1>1 DEF OfList
<1>3. e.msg \in OfList(new)
  BY <1>1 DEF OfList
<1>4. OfList(list) \subseteq OfList(new)
  BY <1>1 DEF OfList
<1>5. ASSUME Sorted(list), \A y \in OfList(list) : Before(e.msg, y)
      PROVE  Sorted(new)
  <2> SUFFICES ASSUME NEW i \in DOMAIN new, NEW j \in DOMAIN new, i < j
               PROVE  Before(new[i].msg, new[j].msg)
    BY DEF Sorted
  <2>1. j # 1 /\ j - 1 \in DOMAIN list /\ new[j] = list[j - 1]
    BY <1>1
  <2>2. CASE i = 1
    <3>1. list[j - 1].msg \in OfList(list)
      BY <2>1 DEF OfList
    <3> QED
      BY <1>1, <1>5, <2>1, <2>2, <3>1
  <2>3. CASE i # 1
    <3>1. i - 1 \in DOMAIN list /\ new[i] = list[i - 1] /\ i - 1 < j - 1
      BY <1>1, <2>3
    <3> QED
      BY <1>5, <2>1, <3>1 DEF Sorted
  <2> QED
    BY <2>2, <2>3
<1> QED
  BY <1>2, <1>3, <1>4, <1>5 DEF new

(* What is in the list more than once is so as it is once.                 *)
LEMMA MessagesOfJoined ==
  ASSUME NEW S, NEW list \in Seq(S), NEW more \in Seq(S), NEW m, m.n \in Int,
         \A i \in DOMAIN more : more[i].msg = m
  PROVE  /\ OfList(Joined(list, more)) \subseteq OfList(list) \cup {m}
         /\ Sorted(list) /\ (\A x \in OfList(list) : Before(x, m)) => Sorted(Joined(list, more))
<1> DEFINE new == Joined(list, more)
           n == Len(list)
<1>1. /\ \A i \in DOMAIN list : i <= n /\ i \in Int
      /\ \A i \in DOMAIN new : i \in Int /\
            \/ i \in DOMAIN list /\ new[i] = list[i]
            \/ i > n /\ i - n \in DOMAIN more /\ new[i] = more[i - n]
      /\ n \in Int
  BY DEF Joined
<1> HIDE DEF new, n
<1>2. \A i \in DOMAIN new : \/ i \in DOMAIN list /\ new[i] = list[i]
                            \/ i > n /\ new[i].msg = m
  BY <1>1
<1>3. OfList(new) \subseteq OfList(list) \cup {m}
  BY <1>2 DEF OfList
<1>4. ASSUME Sorted(list), \A x \in OfList(list) : Before(x, m)
      PROVE  Sorted(new)
  <2> SUFFICES ASSUME NEW i \in DOMAIN new, NEW j \in DOMAIN new, i < j
               PROVE  Before(new[i].msg, new[j].msg)
    BY DEF Sorted
  <2>1. CASE j \in DOMAIN list /\ new[j] = list[j]
    <3>1. i \in DOMAIN list /\ new[i] = list[i]
      BY <1>1, <2>1
    <3> QED
      BY <1>4, <2>1, <3>1 DEF Sorted
  <2>2. CASE new[j].msg = m
    <3>1. CASE i \in DOMAIN list /\ new[i] = list[i]
      BY <1>4, <2>2, <3>1 DEF OfList
    <3>2. CASE new[i].msg = m
      BY <2>2, <3>2 DEF Before
    <3> QED
      BY <1>2, <3>1, <3>2
  <2> QED
    BY <1>2, <2>1, <2>2
<1> QED
  BY <1>3, <1>4 DEF new

(* Nothing waits: there is nothing that could be overtaken.                *)
LEMMA OrderOfNone == \A W, H, L : Ordered(W, <<>>, {}, {}, H, L)
  BY MessagesOfNone DEF Ordered

(* Things that wait are taken away.                                        *)
LEMMA OrderOfLess ==
  ASSUME NEW W, NEW h, NEW D, NEW P, NEW H, NEW L, Ordered(W, h, D, P, H, L),
         NEW h2 \in {h, <<>>}, NEW D2 \in SUBSET D, NEW P2 \in SUBSET P, NEW H2 \in SUBSET H,
         NEW L2, L2 => L \/ D2 = {}
  PROVE  Ordered(W, h2, D2, P2, H2, L2)
<1>1. CASE h2 = h
  BY <1>1 DEF Ordered
<1>2. CASE h2 = <<>>
  BY <1>2, MessagesOfNone DEF Ordered
<1> QED
  BY <1>1, <1>2

(* A message that a caller writes goes to the wire.                        *)
LEMMA OrderOfWrite ==
  ASSUME NEW W, NEW h, NEW D, NEW P, NEW H, NEW L, Ordered(W, h, D, P, H, L),
         NEW m \in H, NEW W2 \in SUBSET (W \cup {m}), NEW H2 \in SUBSET H
  PROVE  Ordered(W2, h, D, P, H2, L)
  BY DEF Ordered

(* The rest of a direct write is kept.                                     *)
LEMMA OrderOfStore ==
  ASSUME NEW W, NEW h, NEW D, NEW P, NEW H, NEW L, Ordered(W, h, D, P, H, L),
         NEW m \in H, NEW H2 \in SUBSET H,
         \A x \in W \cup OfList(h) \cup H2 : Before(x, m)
  PROVE  Ordered(W, h, {m}, P, H2, L)
  BY DEF Ordered

(* A request is made.                                                      *)
LEMMA OrderOfPush ==
  ASSUME NEW W, NEW h, NEW D, NEW P, NEW H, NEW L, Ordered(W, h, D, P, H, L), NEW m,
         \A x \in W \cup OfList(h) \cup D \cup H : Before(x, m)
  PROVE  Ordered(W, h, D, P \cup {m}, H, L)
  BY DEF Ordered

(* The first request is put at the end of the high list.                   *)
LEMMA OrderOfQueue ==
  ASSUME NEW W, NEW h \in Seq(Buffer), NEW D, NEW P, NEW H, NEW L, Ordered(W, h, D, P, H, L),
         NEW b \in Buffer, b.msg \in P, NEW P2 \in SUBSET P, \A y \in P2 : Before(b.msg, y)
  PROVE  Ordered(W, Added(h, b), D, P2, H, FALSE)
<1>1. OfList(Added(h, b)) = OfList(h) \cup {b.msg}
  BY MessagesOfAdded
<1>2. Sorted(Added(h, b))
  BY MessagesOfAdded DEF Ordered
<1> QED
  BY <1>1, <1>2 DEF Ordered

(* The rest of a direct write is put before the high list.                 *)
LEMMA OrderOfTake ==
  ASSUME NEW W, NEW h \in Seq(Buffer), NEW P, NEW H, NEW L, NEW b \in Buffer,
         Ordered(W, h, {b.msg}, P, H, L)
  PROVE  Ordered(W, Joined(<<b>>, h), {}, P, H, TRUE)
<1>1. OfList(Joined(<<b>>, h)) = OfList(h) \cup {b.msg}
  BY MessagesOfCons
<1>2. Sorted(Joined(<<b>>, h))
  BY MessagesOfCons DEF Ordered
<1> QED
  BY <1>1, <1>2 DEF Ordered

(* A message m comes to the wire; what has it goes, or b is left of it.    *)
Comes(m, W, W2) == W2 \subseteq W \cup {m}
Leaves(b, h, h2) == h2 \in {Tail(h), Joined(<<b>>, Tail(h))}
Rises(b, h2) == h2 \in {<<>>, <<b>>}

(* The head of the high list is written, all of it or a part.              *)
LEMMA OrderOfSend ==
  ASSUME NEW W, NEW h \in Seq(Buffer), h # <<>>, NEW D, NEW P, NEW H,
         Ordered(W, h, D, P, H, TRUE), Head(h).msg.n \in Int,
         NEW W2, Comes(Head(h).msg, W, W2),
         NEW b \in Buffer, b.msg = Head(h).msg, NEW h2, Leaves(b, h, h2)
  PROVE  Ordered(W2, h2, D, P, H, TRUE)
<1> DEFINE m == Head(h).msg
<1>1. OfList(h) = OfList(Tail(h)) \cup {m} /\ Tail(h) \in Seq(Buffer)
  BY MessagesOfTail
<1>2. Sorted(Tail(h)) /\ \A y \in OfList(Tail(h)) : Before(m, y)
  BY MessagesOfTail DEF Ordered
<1>3. OfList(h2) \subseteq OfList(h) /\ Sorted(h2)
  <2>1. /\ OfList(Joined(<<b>>, Tail(h))) = OfList(Tail(h)) \cup {m}
        /\ Sorted(Joined(<<b>>, Tail(h)))
    <3> DEFINE rest == Tail(h)
    <3>1. rest \in Seq(Buffer) /\ Sorted(rest) /\ \A y \in OfList(rest) : Before(b.msg, y)
      BY <1>1, <1>2
    <3> HIDE DEF rest
    <3>2. /\ OfList(Joined(<<b>>, rest)) = OfList(rest) \cup {b.msg}
          /\ Sorted(Joined(<<b>>, rest))
      BY <3>1, MessagesOfCons
    <3> QED
      BY <3>2 DEF rest
  <2> QED
    BY <1>1, <1>2, <2>1 DEF Leaves
<1>4. \A y \in OfList(h) : Before(m, y)
  BY <1>1, <1>2 DEF Before
<1> HIDE DEF m
<1>5. m \in OfList(h)
  BY <1>1
<1>6. W2 \subseteq W \cup {m}
  BY DEF m, Comes
<1> QED
  BY <1>3, <1>4, <1>5, <1>6 DEF Ordered

(* One of low priority is written, or goes on as a high one.               *)
LEMMA OrderOfLow ==
  ASSUME NEW W, NEW h, h = <<>>, NEW D, NEW P, NEW H, Ordered(W, h, D, P, H, TRUE),
         NEW b \in Buffer, b.msg.low, NEW W2, Comes(b.msg, W, W2), NEW h2, Rises(b, h2)
  PROVE  Ordered(W2, h2, D, P, H, TRUE)
<1> PICK m \in {b.msg} : m = b.msg
  OBVIOUS
<1>1. OfList(h2) \subseteq {m} /\ Sorted(h2)
  BY DEF OfList, Sorted, Rises
<1>2. \A x : Before(m, x) /\ Before(x, m)
  BY DEF Before
<1> QED
  BY <1>1, <1>2, MessagesOfNone DEF Ordered, Comes
-----------------------------------------------------------------------------
InHand(c) == calling[c].pc \notin {"idle", "reserved"}
Hand(c) == IF calling[c].pc = "store" THEN calling[c].rest.msg ELSE calling[c].msg

(* The messages of a socket's wire, of the requests to send to it and of   *)
(* what a slot keeps, and all of them                                      *)
OnWire(id) == OfList(wire[id])
Asked(id) == {pipe[k].msg : k \in Requests(id)}
Direct(s) == IF slot[s].dw = None THEN {} ELSE {slot[s].dw.msg}
Waiting(s) == OfList(slot[s].high) \cup OfList(slot[s].low) \cup Direct(s)

Placed ==
    (UNION {OnWire(id) : id \in Id}) \cup (UNION {Asked(id) : id \in Id})
    \cup (UNION {Waiting(s) : s \in Slot})

(* What a caller has in hand is its latest.                                *)
HandOK ==
    /\ \A m \in Placed : m.n <= calls
    /\ \A c \in Caller : InHand(c) =>
           /\ Hand(c).by = c /\ Hand(c).n <= calls
           /\ \A m \in Placed : Before(m, Hand(c))

WireOK == wire \in [Id -> Seq([msg : Message, unit : Int])]
LowOK == \A s \in Slot : \A m \in OfList(slot[s].low) : m.low

(* Callers that write to whatever descriptor the slot has                  *)
Writing(s) == {c \in Caller : calling[c].pc \in {"write", "store"} /\ HASH_ID(calling[c].id) = s}
Hands(s) == {Hand(c) : c \in Writing(s)}
Sending(s) == poll.pc = "lists" /\ poll.s = s

Line(s, id) == Ordered(OnWire(id), slot[s].high, Direct(s), Asked(id), Hands(s), Sending(s))
LineOK(s) == \A id \in Id : slot[s].fd = id /\ id \in open => Line(s, id)

(* Requests to send to one socket are in order.                            *)
PipeInOrder ==
    \A k, l \in DOMAIN pipe : pipe[k].kind = "send" /\ pipe[l].kind = "send"
        /\ pipe[k].id = pipe[l].id /\ k < l => Before(pipe[k].msg, pipe[l].msg)

(* A slot in use has the descriptor of its id; one that is not, none.      *)
DescriptorOK(s) ==
    /\ slot[s].type \notin {"INVALID", "RESERVE"} => slot[s].tcp /\ slot[s].fd = slot[s].id
    /\ slot[s].type \in {"INVALID", "RESERVE"} => slot[s].fd \notin open
    /\ poll.pc = "reopen" /\ poll.s = s => slot[s].type \in {"INVALID", "RESERVE"}

OInv ==
    /\ IInv /\ WireOK /\ HandOK /\ LowOK /\ OwnOrder
    /\ Sound => PipeInOrder /\ \A s \in Slot : DescriptorOK(s) /\ LineOK(s)
-----------------------------------------------------------------------------
(* Steps that move no message                                              *)

QuietSlots ==
    \A t \in Slot : /\ slot'[t].high \in {slot[t].high, <<>>}
                    /\ slot'[t].low \in {slot[t].low, <<>>}
                    /\ slot'[t].dw \in {slot[t].dw, None}

(* A step that gives one slot a record with no message more                *)
LEMMA QuietOne ==
  ASSUME Shape, NEW s \in Slot, NEW r, slot' = [slot EXCEPT ![s] = r],
         r.high \in {slot[s].high, <<>>}, r.low \in {slot[s].low, <<>>},
         r.dw \in {slot[s].dw, None}
  PROVE  QuietSlots
  BY DEF Shape, TypeOK, QuietSlots

(* Of the callers only Store adds to a slot.                               *)
LEMMA QuietCallsSlots ==
  ASSUME Shape, NEW c \in Caller,
         \/ \E kind \in {"connect", "listen"} : Reserve(c, kind)
         \/ Reserved(c)
         \/ \E kind \in {"close", "shutdown", "start"}, id \in given : Request(c, kind, id)
         \/ \E id \in ready, low \in BOOLEAN : Send(c, id, low)
         \/ Look(c) \/ Try(c) \/ Recheck(c) \/ DirectWrite(c) \/ Inc(c) \/ Push(c)
  PROVE  QuietSlots
<1> DEFINE s == HASH_ID(calling[c].id)
<1>1. slot \in [Slot -> Socket]
  BY DEF Shape, TypeOK
<1>2. CASE slot' = slot
  BY <1>2 DEF QuietSlots
<1>3. CASE \E kind \in {"connect", "listen"} : Reserve(c, kind)
  <2>1. HASH_ID(Reservable) \in Slot
    BY <1>3, ReservableIsNew DEF Reserve, Shape
  <2> DEFINE r == [slot[HASH_ID(Reservable)] EXCEPT !.type = "RESERVE"]
  <2>2. slot' = [slot EXCEPT ![HASH_ID(Reservable)] = r]
    BY <1>3 DEF Reserve
  <2>3. r.high = slot[HASH_ID(Reservable)].high /\ r.low = slot[HASH_ID(Reservable)].low
        /\ r.dw = slot[HASH_ID(Reservable)].dw
    BY <1>1, <2>1 DEF Socket
  <2> HIDE DEF r
  <2> QED
    BY <2>1, <2>2, <2>3, QuietOne
<1>4. CASE Reserved(c)
  <2>1. s \in Slot
    BY <1>4, CallerAt DEF Reserved
  <2>2. PICK r : /\ slot' = [slot EXCEPT ![s] = r]
                 /\ r = [slot[s] EXCEPT !.id = calling[c].id, !.tcp = FALSE, !.fd = 0]
    BY <1>4 DEF Reserved
  <2>3. r.high = slot[s].high /\ r.low = slot[s].low /\ r.dw = slot[s].dw
    BY <1>1, <2>1, <2>2 DEF Socket
  <2> QED
    BY <2>1, <2>2, <2>3, QuietOne
<1>5. ASSUME s \in Slot, NEW k, slot' = [slot EXCEPT ![s].dw_lock = k] PROVE QuietSlots
  <2>1. PICK r : slot' = [slot EXCEPT ![s] = r] /\ r = [slot[s] EXCEPT !.dw_lock = k]
    BY <1>5
  <2>2. r.high = slot[s].high /\ r.low = slot[s].low /\ r.dw = slot[s].dw
    BY <1>1, <1>5, <2>1 DEF Socket
  <2> QED
    BY <1>5, <2>1, <2>2, QuietOne
<1>6. CASE Try(c) \/ Recheck(c) \/ DirectWrite(c)
  <2>1. s \in Slot
    BY Zenon, <1>6, CallerAt DEF Try, Recheck, DirectWrite
  <2>2. slot' = slot \/ \E k \in BOOLEAN : slot' = [slot EXCEPT ![s].dw_lock = k]
    BY Zenon, <1>6 DEF Try, Recheck, DirectWrite
  <2> QED
    BY Zenon, <1>2, <1>5, <2>1, <2>2
<1>7. CASE Inc(c)
  <2>1. s \in Slot
    BY <1>7, CallerAt DEF Inc
  <2>2. slot' = slot \/ slot' = [slot EXCEPT ![s].sending = @ + 1]
    BY <1>7 DEF Inc
  <2>3. CASE slot' = [slot EXCEPT ![s].sending = @ + 1]
    <3>1. PICK r : /\ slot' = [slot EXCEPT ![s] = r]
                   /\ r = [slot[s] EXCEPT !.sending = slot[s].sending + 1]
      BY <2>3
    <3>2. r.high = slot[s].high /\ r.low = slot[s].low /\ r.dw = slot[s].dw
      BY <1>1, <2>1, <3>1 DEF Socket
    <3> QED
      BY <2>1, <3>1, <3>2, QuietOne
  <2> QED
    BY <1>2, <2>2, <2>3
<1>8. slot' = slot \/ (\E kind \in {"connect", "listen"} : Reserve(c, kind)) \/ Reserved(c)
      \/ Try(c) \/ Recheck(c) \/ DirectWrite(c) \/ Inc(c)
  BY DEF Request, Send, Look, Push
<1> QED
  BY <1>2, <1>3, <1>4, <1>6, <1>7, <1>8

(* The steps of the thread that send nothing                               *)
LEMMA QuietPolls ==
  ASSUME Shape,
         \/ NoCommand \/ Open \/ OpenFailed \/ Listen \/ Start
         \/ Close("close") \/ Close("shutdown") \/ Decide \/ Dec
         \/ AllSent \/ EndClose \/ ClearClosed \/ Wait
         \/ Skip \/ ReportConnect \/ ReportAccept \/ Read
  PROVE  QuietSlots
<1>1. slot \in [Slot -> Socket]
  BY DEF Shape, TypeOK
<1>2. CASE slot' = slot
  BY <1>2 DEF QuietSlots
<1>3. ASSUME NEW s \in Slot, NEW id \in Id, NEW type, NEW w,
             slot' = [slot EXCEPT ![s] = NewFd(s, id, type, w)]
      PROVE  QuietSlots
  <2>1. PICK r : slot' = [slot EXCEPT ![s] = r] /\ r = NewFd(s, id, type, w)
    BY <1>3
  <2>2. r.high = slot[s].high /\ r.low = slot[s].low /\ r.dw = None
    BY <1>1, <2>1 DEF NewFd, Socket
  <2> QED
    BY <2>1, <2>2, QuietOne
<1>4. ASSUME NEW s \in Slot, NEW type, slot' = [slot EXCEPT ![s].type = type]
      PROVE  QuietSlots
  <2>1. PICK r : slot' = [slot EXCEPT ![s] = r] /\ r = [slot[s] EXCEPT !.type = type]
    BY <1>4
  <2>2. r.high = slot[s].high /\ r.low = slot[s].low /\ r.dw = slot[s].dw
    BY <1>1, <2>1 DEF Socket
  <2> QED
    BY <2>1, <2>2, QuietOne
<1>5. ASSUME NEW s \in Slot, NEW pc, NEW id, NEW by, BeginClose(pc, s, id, by)
      PROVE  QuietSlots
  <2>1. CASE slot' = [slot EXCEPT ![s].high = <<>>, ![s].low = <<>>, ![s].watch = {}]
    <3>1. PICK r : /\ slot' = [slot EXCEPT ![s] = r]
                   /\ r = [slot[s] EXCEPT !.high = <<>>, !.low = <<>>, !.watch = {}]
      BY <1>1, <2>1
    <3>2. r.high = <<>> /\ r.low = <<>> /\ r.dw = slot[s].dw
      BY <1>1, <3>1 DEF Socket
    <3> QED
      BY <3>1, <3>2, QuietOne
  <2> QED
    BY <1>2, <1>5, <2>1 DEF BeginClose
<1>6. ASSUME NEW s \in Slot, NEW type, NEW w,
             slot' = [slot EXCEPT ![s].type = type, ![s].watch = w]
      PROVE  QuietSlots
  <2>1. PICK r : slot' = [slot EXCEPT ![s] = r] /\ r = [slot[s] EXCEPT !.type = type, !.watch = w]
    BY <1>1, <1>6
  <2>2. r.high = slot[s].high /\ r.low = slot[s].low /\ r.dw = slot[s].dw
    BY <1>1, <2>1 DEF Socket
  <2> QED
    BY <2>1, <2>2, QuietOne
<1>7. CASE NoCommand \/ Close("close") \/ Close("shutdown") \/ ClearClosed \/ Wait \/ Skip
  BY Zenon, <1>2, <1>7 DEF NoCommand, Close, ClearClosed, Wait, Skip
<1>8. CASE Open \/ Listen
  <2> DEFINE id == Head(pipe).id
             s == HASH_ID(id)
  <2>1. id \in Id /\ s \in Slot
    BY Zenon, <1>8, HeadOfPipe DEF Open, Listen, Command
  <2>2. \/ slot' = slot
        \/ slot' = [slot EXCEPT ![s].type = "INVALID"]
        \/ \E type, w : slot' = [slot EXCEPT ![s] = NewFd(s, id, type, w)]
    <3>1. CASE Open
      BY Zenon, <3>1 DEF Open
    <3>2. CASE Listen
      BY <3>2 DEF Listen
    <3> QED
      BY <1>8, <3>1, <3>2
  <2> HIDE DEF id, s
  <2> QED
    BY <1>2, <1>3, <1>4, <2>1, <2>2
<1>9. CASE ReportAccept
  <2> DEFINE id == Reservable
             s == HASH_ID(id)
  <2>1. slot' = slot \/ (id \in Id /\ slot' = [slot EXCEPT ![s] = NewFd(s, id, "PACCEPT", {})])
    BY <1>9 DEF ReportAccept
  <2>2. id \in Id => s \in Slot
    BY HashInSlot
  <2> HIDE DEF id, s
  <2> QED
    BY <1>2, <1>3, <2>1, <2>2
<1>10. CASE OpenFailed
  <2>1. poll.s \in Slot /\ slot' = [slot EXCEPT ![poll.s].type = "INVALID"]
    BY Zenon, <1>10 DEF OpenFailed, Shape, PollOK
  <2> QED
    BY <1>4, <2>1
<1>11. CASE Decide
  <2>1. poll.s \in Slot
    BY <1>11 DEF Decide, Shape, PollOK
  <2> QED
    BY <1>4, <1>5, <1>11, <2>1 DEF Decide
<1>12. CASE Dec
  <2>1. poll.s \in Slot
    BY <1>12 DEF Dec, Shape, PollOK
  <2>2. slot' = slot \/ slot' = [slot EXCEPT ![poll.s].sending = @ - 1]
    BY <1>12 DEF Dec
  <2>3. CASE slot' = [slot EXCEPT ![poll.s].sending = @ - 1]
    <3>1. PICK r : /\ slot' = [slot EXCEPT ![poll.s] = r]
                   /\ r = [slot[poll.s] EXCEPT !.sending = slot[poll.s].sending - 1]
      BY <2>3
    <3>2. r.high = slot[poll.s].high /\ r.low = slot[poll.s].low /\ r.dw = slot[poll.s].dw
      BY <1>1, <2>1, <3>1 DEF Socket
    <3> QED
      BY <2>1, <3>1, <3>2, QuietOne
  <2> QED
    BY <1>2, <2>2, <2>3
<1>13. CASE AllSent
  <2> DEFINE s == poll.s
  <2>1. s \in Slot
    BY <1>13 DEF AllSent, Shape, PollOK
  <2>2. \/ slot' = slot
        \/ BeginClose("closeHeld", s, poll.id, poll.by)
        \/ \E w : slot' = [slot EXCEPT ![s].watch = w, ![s].dw_lock = FALSE]
    BY <1>13 DEF AllSent, Sent
  <2>3. ASSUME NEW w, slot' = [slot EXCEPT ![s].watch = w, ![s].dw_lock = FALSE]
        PROVE  QuietSlots
    <3>1. PICK r : /\ slot' = [slot EXCEPT ![s] = r]
                   /\ r = [slot[s] EXCEPT !.watch = w, !.dw_lock = FALSE]
      BY <1>1, <2>1, <2>3
    <3>2. r.high = slot[s].high /\ r.low = slot[s].low /\ r.dw = slot[s].dw
      BY <1>1, <2>1, <3>1 DEF Socket
    <3> QED
      BY <2>1, <3>1, <3>2, QuietOne
  <2> QED
    BY <1>2, <1>5, <2>1, <2>2, <2>3
<1>14. CASE EndClose
  <2> DEFINE s == poll.s
  <2>1. s \in Slot
    BY <1>14 DEF EndClose, Shape, PollOK
  <2>2. PICK r : /\ slot' = [slot EXCEPT ![s] = r]
                 /\ r = [slot[s] EXCEPT !.type = "INVALID", !.dw = None, !.dw_lock = FALSE]
    BY <1>1, <1>14, <2>1 DEF EndClose
  <2>3. r.high = slot[s].high /\ r.low = slot[s].low /\ r.dw = None
    BY <1>1, <2>1, <2>2 DEF Socket
  <2> QED
    BY <2>1, <2>2, <2>3, QuietOne
<1>15. CASE Start
  <2> DEFINE id == Head(pipe).id
             s == HASH_ID(id)
  <2>1. s \in Slot
    BY Zenon, <1>15, HeadOfPipe DEF Start, Command
  <2>2. \/ slot' = slot
        \/ BeginClose("close", s, id, "start")
        \/ \E type, w : slot' = [slot EXCEPT ![s].watch = w, ![s].type = type]
    BY Zenon, <1>15 DEF Start
  <2>3. ASSUME NEW type, NEW w, slot' = [slot EXCEPT ![s].watch = w, ![s].type = type]
        PROVE  QuietSlots
    <3>1. PICK r : slot' = [slot EXCEPT ![s] = r] /\ r = [slot[s] EXCEPT !.watch = w, !.type = type]
      BY <1>1, <2>1, <2>3
    <3>2. r.high = slot[s].high /\ r.low = slot[s].low /\ r.dw = slot[s].dw
      BY <1>1, <2>1, <3>1 DEF Socket
    <3> QED
      BY <2>1, <3>1, <3>2, QuietOne
  <2> HIDE DEF id, s
  <2> QED
    BY <1>2, <1>5, <2>1, <2>2, <2>3
<1>16. CASE ReportConnect \/ Read
  <2>1. EventSlot # None => EventSlot \in Slot
    BY <1>16, EventsShrink DEF ReportConnect, Read, Established, Take
  <2>2. \/ slot' = slot
        \/ BeginClose("close", EventSlot, slot[EventSlot].id, "event")
        \/ \E type, w : slot' = [slot EXCEPT ![EventSlot].type = type, ![EventSlot].watch = w]
    BY <1>16 DEF ReportConnect, Read, CloseOn
  <2>3. EventSlot # None
    BY <1>16 DEF ReportConnect, Read, Established
  <2> QED
    BY <1>2, <1>5, <1>6, <2>1, <2>2, <2>3
<1> QED
  BY <1>7, <1>8, <1>9, <1>10, <1>11, <1>12, <1>13, <1>14, <1>15, <1>16
-----------------------------------------------------------------------------
(* Steps that move messages                                                *)

OthersStay(s) == \A t \in Slot : t # s => slot'[t] = slot[t]

(* One slot changes.                                                       *)
LEMMA OneStays ==
  ASSUME Shape, NEW s \in Slot, NEW r, slot' = [slot EXCEPT ![s] = r]
  PROVE  slot'[s] = r /\ OthersStay(s)
  BY DEF Shape, TypeOK, OthersStay

(* The types of what a slot keeps                                          *)
LEMMA SlotFields ==
  ASSUME Shape, NEW s \in Slot
  PROVE  /\ slot[s] \in Socket
         /\ slot[s].high \in Seq(Buffer) /\ slot[s].low \in Seq(Buffer)
         /\ slot[s].dw \in Buffer \cup {None} /\ slot[s].fd \in {0} \cup Id
         /\ slot[s].type \in Types /\ slot[s].id \in {0} \cup Id
  BY DEF Shape, TypeOK, Socket

(* The rest of a direct write becomes what the slot keeps.                 *)
LEMMA StoreMoves ==
  ASSUME Shape, NEW c \in Caller, Store(c)
  PROVE  LET s == HASH_ID(calling[c].id)
         IN  /\ s \in Slot /\ OthersStay(s) /\ calling[c].rest \in Buffer
             /\ slot'[s].high = slot[s].high /\ slot'[s].low = slot[s].low
             /\ slot'[s].dw = calling[c].rest
<1> DEFINE s == HASH_ID(calling[c].id)
<1>1. s \in Slot /\ calling[c].rest \in Buffer
  BY CallerAt DEF Store
<1>2. PICK w : slot' = [slot EXCEPT ![s].dw = calling[c].rest, ![s].dw_lock = FALSE, ![s].watch = w]
  BY DEF Store
<1>3. slot[s] \in Socket /\ slot \in [Slot -> Socket]
  BY <1>1 DEF Shape, TypeOK
<1>4. PICK r : /\ slot' = [slot EXCEPT ![s] = r]
               /\ r = [slot[s] EXCEPT !.dw = calling[c].rest, !.dw_lock = FALSE, !.watch = w]
  BY <1>1, <1>2, <1>3
<1>5. r.high = slot[s].high /\ r.low = slot[s].low /\ r.dw = calling[c].rest
  BY <1>3, <1>4 DEF Socket
<1> QED
  BY <1>1, <1>4, <1>5, OneStays

(* What the slot keeps becomes the head of the high list.                  *)
LEMMA TakeDirectMoves ==
  ASSUME Shape, NEW s \in Slot, slot' = [slot EXCEPT ![s] = TakeDirect(s)]
  PROVE  /\ OthersStay(s) /\ slot'[s].low = slot[s].low /\ slot'[s].dw = None
         /\ slot[s].dw = None => slot'[s].high = slot[s].high
         /\ slot[s].dw # None => /\ slot[s].dw \in Buffer
                                 /\ slot'[s].high = Joined(<<slot[s].dw>>, slot[s].high)
<1>1. slot'[s] = TakeDirect(s) /\ OthersStay(s)
  BY OneStays
<1>2. slot[s] \in Socket /\ slot[s].dw \in Buffer \cup {None}
  BY SlotFields
<1>3. CASE slot[s].dw = None
  BY <1>1, <1>2, <1>3 DEF TakeDirect
<1>4. CASE slot[s].dw # None
  <2>1. TakeDirect(s) = [slot[s] EXCEPT !.high = <<slot[s].dw>> \o slot[s].high,
                                        !.wb_size = slot[s].wb_size + slot[s].dw.sz, !.dw = None]
    BY <1>4 DEF TakeDirect
  <2>2. /\ TakeDirect(s).low = slot[s].low /\ TakeDirect(s).dw = None
        /\ TakeDirect(s).high = <<slot[s].dw>> \o slot[s].high
    BY <1>2, <2>1 DEF Socket
  <2> QED
    BY <1>1, <1>2, <1>4, <2>2 DEF Joined
<1> QED
  BY <1>3, <1>4

(* A request is put into one of the lists, or given up.                    *)
LEMMA SendSocketMoves ==
  ASSUME Shape, SendSocket
  PROVE  LET id == Head(pipe).id
             msg == Head(pipe).msg
             s == HASH_ID(id)
         IN  /\ id \in Id /\ msg \in Message /\ s \in Slot
             /\ \/ slot' = slot
                \/ /\ OthersStay(s) /\ slot'[s].dw = slot[s].dw /\ Matches(id)
                   /\ \/ /\ slot'[s].high = Added(slot[s].high, Whole(msg))
                         /\ slot'[s].low = slot[s].low
                      \/ /\ slot'[s].low = Added(slot[s].low, Whole(msg)) /\ msg.low
                         /\ slot'[s].high = slot[s].high
<1> DEFINE id == Head(pipe).id
           msg == Head(pipe).msg
           s == HASH_ID(id)
<1>1. s \in Slot /\ msg \in Message /\ id \in Id
  BY Zenon, HeadOfPipe DEF SendSocket, Command
<1>2. slot[s] \in Socket
  BY <1>1 DEF Shape, TypeOK
<1>3. \/ slot' = slot
      \/ /\ Matches(id)
         /\ slot' = [slot EXCEPT ![s] = [Queued(s, "high", msg) EXCEPT !.watch = Watch(TRUE)]]
      \/ Matches(id) /\ slot' = [slot EXCEPT ![s] = Queued(s, "high", msg)]
      \/ Matches(id) /\ slot' = [slot EXCEPT ![s] = Queued(s, "low", msg)] /\ msg.low
  BY Zenon, <1>1 DEF SendSocket, Message
<1> HIDE DEF msg, id, s
<1>4. /\ Queued(s, "high", msg).high = Added(slot[s].high, Whole(msg))
      /\ Queued(s, "high", msg).low = slot[s].low /\ Queued(s, "high", msg).dw = slot[s].dw
      /\ Queued(s, "low", msg).high = slot[s].high /\ Queued(s, "low", msg).dw = slot[s].dw
      /\ Queued(s, "low", msg).low = Added(slot[s].low, Whole(msg))
  BY <1>2 DEF Queued, Added, Socket
<1>5. \/ slot' = slot
      \/ /\ OthersStay(s) /\ slot'[s].dw = slot[s].dw /\ Matches(id)
         /\ \/ /\ slot'[s].high = Added(slot[s].high, Whole(msg))
               /\ slot'[s].low = slot[s].low
            \/ /\ slot'[s].low = Added(slot[s].low, Whole(msg)) /\ msg.low
               /\ slot'[s].high = slot[s].high
  <2>1. ASSUME NEW q, slot' = [slot EXCEPT ![s] = q] PROVE slot'[s] = q /\ OthersStay(s)
    BY <1>1, <2>1, OneStays
  <2>2. CASE slot' = slot
    BY <2>2
  <2>3. CASE /\ Matches(id)
             /\ slot' = [slot EXCEPT ![s] = [Queued(s, "high", msg) EXCEPT !.watch = Watch(TRUE)]]
    <3>1. PICK q : q = [Queued(s, "high", msg) EXCEPT !.watch = Watch(TRUE)]
      OBVIOUS
    <3>2. /\ q.high = Queued(s, "high", msg).high /\ q.low = Queued(s, "high", msg).low
          /\ q.dw = Queued(s, "high", msg).dw
      BY Zenon, <1>2, <3>1 DEF Queued, Socket
    <3>3. slot'[s] = q /\ OthersStay(s)
      BY <2>1, <2>3, <3>1
    <3> QED
      BY <1>4, <2>3, <3>2, <3>3
  <2>4. CASE Matches(id) /\ slot' = [slot EXCEPT ![s] = Queued(s, "high", msg)]
    <3>1. slot'[s] = Queued(s, "high", msg) /\ OthersStay(s)
      BY <2>1, <2>4
    <3> QED
      BY <1>4, <2>4, <3>1
  <2>5. CASE Matches(id) /\ slot' = [slot EXCEPT ![s] = Queued(s, "low", msg)] /\ msg.low
    <3>1. slot'[s] = Queued(s, "low", msg) /\ OthersStay(s)
      BY <2>1, <2>5
    <3> QED
      BY <1>4, <2>5, <3>1
  <2> QED
    BY <1>3, <2>2, <2>3, <2>4, <2>5
<1> QED
  BY <1>1, <1>5 DEF id, msg, s

(* The head of one list is written and goes, or what is left of it stays.  *)
Foremost(s) == IF slot[s].high # <<>> THEN Head(slot[s].high) ELSE Head(slot[s].low)

Passes(s, b) ==
    \/ /\ slot[s].high # <<>> /\ slot'[s].low = slot[s].low
       /\ slot'[s].high \in {Tail(slot[s].high), Joined(<<b>>, Tail(slot[s].high))}
    \/ /\ slot[s].high = <<>> /\ slot[s].low # <<>> /\ slot'[s].high = <<>>
       /\ slot'[s].low \in {Tail(slot[s].low), Joined(<<b>>, Tail(slot[s].low))}
    \/ /\ slot[s].high = <<>> /\ slot[s].low # <<>> /\ slot'[s].high = <<b>>
       /\ slot'[s].low = Tail(slot[s].low)

Writes(id, buf) == \E n \in Nat : wire' = [wire EXCEPT ![id] = Joined(@, Units(buf, n))]

(* One write of the foremost buffer: it is gone, or left for later with    *)
(* some of its message; nothing else moves.                                *)
LEMMA SendListMoves ==
  ASSUME Shape, SendList
  PROVE  LET s == poll.s
             buf == Foremost(s)
         IN  /\ s \in Slot /\ OthersStay(s) /\ slot'[s].dw = slot[s].dw
             /\ buf \in Buffer
             /\ (wire' = wire \/ (slot[s].fd \in open /\ Writes(slot[s].fd, buf)))
             /\ \E b \in Buffer : b.msg = buf.msg /\ Passes(s, b)
<1> DEFINE s == poll.s
           r == slot[s]
           list == IF r.high # <<>> THEN "high" ELSE "low"
           buf == Head(r[list])
           rest == Tail(r[list])
           Left(b, n) == [r EXCEPT ![list] = <<b>> \o rest, !.wb_size = @ - n, !.dw_lock = FALSE]
           After(b, n) == IF list = "low" THEN Raised(Left(b, n)) ELSE Left(b, n)
<1>1. s \in Slot
  BY DEF SendList, Shape, PollOK
<1>2. r \in Socket /\ slot \in [Slot -> Socket]
  BY <1>1 DEF Shape, TypeOK
<1>3. r.high \in Seq(Buffer) /\ r.low \in Seq(Buffer)
  BY <1>1, SlotFields
<1>4. ~(r.high = <<>> /\ r.low = <<>>)
  BY DEF SendList, Empty
<1>5. r[list] \in Seq(Buffer) /\ r[list] # <<>>
  BY <1>3, <1>4
<1>6. buf \in Buffer /\ rest \in Seq(Buffer) /\ buf.sz \in Nat
  <2>1. buf \in Buffer /\ rest \in Seq(Buffer)
    BY <1>5, TotalOfFirst
  <2> QED
    BY <2>1 DEF Buffer
<1>7. buf = Foremost(s)
  BY DEF Foremost
<1>8. wire' = wire \/ (slot[s].fd \in open /\ Writes(slot[s].fd, buf))
  <2>1. \A n \in 1..buf.sz : n \in Nat
    BY <1>6
  <2>2. \/ wire' = wire
        \/ \E n \in 1..buf.sz : /\ slot[s].fd \in open
                                /\ wire' = [wire EXCEPT ![slot[s].fd] = @ \o Units(buf, n)]
    BY Zenon DEF SendList
  <2> HIDE DEF buf
  <2> QED
    BY Zenon, <2>1, <2>2 DEF Writes, Joined
<1>9. \/ slot' = [slot EXCEPT ![s][list] = rest, ![s].wb_size = @ - buf.sz]
      \/ \E n \in Int : n < buf.sz /\ slot' = [slot EXCEPT ![s] = After(Written(buf, n), n)]
  <2>1. \A n \in 1..buf.sz : n \in Int /\ (n # buf.sz => n < buf.sz)
    BY <1>6
  <2>2. -1 \in Int /\ -1 < buf.sz
    BY <1>6
  <2>3. \/ slot' = [slot EXCEPT ![s][list] = rest, ![s].wb_size = @ - buf.sz]
        \/ \E n \in 1..buf.sz : n # buf.sz /\ slot' = [slot EXCEPT ![s] = After(Written(buf, n), n)]
        \/ slot' = [slot EXCEPT ![s] = After(Again(buf), -1)]
    BY DEF SendList, Sent
  <2> HIDE DEF After, buf
  <2> QED
    BY <2>1, <2>2, <2>3 DEF Again
<1>10. CASE slot' = [slot EXCEPT ![s][list] = rest, ![s].wb_size = @ - buf.sz]
  <2>1. PICK q : /\ slot' = [slot EXCEPT ![s] = q]
                 /\ q = [r EXCEPT ![list] = rest, !.wb_size = r.wb_size - buf.sz]
    BY Zenon, <1>1, <1>2, <1>10
  <2>2. slot'[s] = q /\ OthersStay(s)
    <3>1. slot' = [slot EXCEPT ![s] = q]
      BY Zenon, <2>1
    <3> HIDE DEF s
    <3> QED
      BY <1>1, <3>1, OneStays
  <2>3. CASE r.high # <<>>
    <3>1. q.high = Tail(r.high) /\ q.low = r.low /\ q.dw = r.dw
      BY Zenon, <1>2, <2>1, <2>3 DEF Socket
    <3> QED
      BY <1>1, <1>6, <1>7, <1>8, <2>2, <2>3, <3>1 DEF Passes
  <2>4. CASE r.high = <<>>
    <3>1. q.low = Tail(r.low) /\ q.high = r.high /\ q.dw = r.dw
      BY Zenon, <1>2, <2>1, <2>4 DEF Socket
    <3> QED
      BY <1>1, <1>4, <1>6, <1>7, <1>8, <2>2, <2>4, <3>1 DEF Passes
  <2> QED
    BY <2>3, <2>4
<1>11. ASSUME NEW n \in Int, n < buf.sz,
              slot' = [slot EXCEPT ![s] = After(Written(buf, n), n)]
       PROVE  OthersStay(s) /\ slot'[s].dw = slot[s].dw
              /\ \E b \in Buffer : b.msg = buf.msg /\ Passes(s, b)
  <2> DEFINE d == Written(buf, n)
             long == <<d>> \o rest
  <2>1. /\ long # <<>> /\ Head(long) = d /\ Tail(long) = rest /\ d \in Buffer
    BY Zenon, <1>5, <1>11, HeadLoses
  <2>2. d.msg = buf.msg
    BY <1>6 DEF Written, Buffer
  <2>3. slot'[s] = After(d, n) /\ OthersStay(s)
    <3>1. slot' = [slot EXCEPT ![s] = After(d, n)]
      BY Zenon, <1>11
    <3> HIDE DEF s, After
    <3> QED
      BY <1>1, <3>1, OneStays
  <2>4. long = Joined(<<d>>, rest)
    BY DEF Joined
  <2> HIDE DEF d
  <2>5. CASE r.high # <<>>
    <3>1. list = "high" /\ r[list] = r.high
      BY <2>5
    <3>2. After(d, n).high = long /\ After(d, n).low = r.low /\ After(d, n).dw = r.dw
      BY Zenon, <1>2, <3>1 DEF Socket
    <3>3. slot'[s].high = Joined(<<d>>, Tail(r.high)) /\ slot'[s].low = r.low /\ slot'[s].dw = r.dw
      BY Zenon, <2>3, <2>4, <3>1, <3>2
    <3> QED
      BY Zenon, <2>1, <2>2, <2>3, <2>5, <3>3 DEF Passes
  <2>6. CASE r.high = <<>>
    <3>1. list = "low" /\ r[list] = r.low
      BY <2>6
    <3>2. /\ Left(d, n).low = long /\ Left(d, n).high = <<>> /\ Left(d, n).dw = r.dw
      BY <1>2, <2>6, <3>1 DEF Socket
    <3>3. [Left(d, n) EXCEPT !.high = <<d>>, !.low = rest].high = <<d>>
          /\ [Left(d, n) EXCEPT !.high = <<d>>, !.low = rest].low = rest
          /\ [Left(d, n) EXCEPT !.high = <<d>>, !.low = rest].dw = r.dw
      BY <1>2, <3>1 DEF Socket
    <3>4. After(d, n) = Left(d, n) \/ After(d, n) = [Left(d, n) EXCEPT !.high = <<d>>, !.low = rest]
      <4> HIDE DEF Left, long
      <4> QED
        BY <2>1, <3>1, <3>2 DEF Raised
    <3> HIDE DEF After, Left
    <3>5. \/ slot'[s].high = <<>> /\ slot'[s].low = Joined(<<d>>, Tail(r.low))
          \/ slot'[s].high = <<d>> /\ slot'[s].low = Tail(r.low)
      BY <2>3, <2>4, <3>1, <3>2, <3>3, <3>4
    <3>6. slot'[s].dw = r.dw
      BY Zenon, <2>3, <3>2, <3>3, <3>4
    <3> QED
      BY <1>4, <2>1, <2>2, <2>3, <2>6, <3>5, <3>6 DEF Passes
  <2> QED
    BY <2>5, <2>6
<1>12. OthersStay(s) /\ slot'[s].dw = slot[s].dw
       /\ \E b \in Buffer : b.msg = buf.msg /\ Passes(s, b)
  <2>1. CASE \E n \in Int : n < buf.sz /\ slot' = [slot EXCEPT ![s] = After(Written(buf, n), n)]
    <3> HIDE DEF After, buf
    <3> QED
      BY <1>11, <2>1
  <2> QED
    BY Zenon, <1>7, <1>9, <1>10, <2>1
<1> QED
  BY <1>1, <1>6, <1>7, <1>8, <1>12
-----------------------------------------------------------------------------
(* What is on the wires                                                    *)

(* Units of a buffer are written: the wires stay sorted when nothing that  *)
(* has been written there is later.                                        *)
LEMMA WireMoves ==
  ASSUME WireOK, NEW to \in Id, NEW buf \in Buffer, Writes(to, buf)
  PROVE  /\ WireOK'
         /\ \A id \in Id : OnWire(id)' \subseteq OnWire(id) \cup {buf.msg}
         /\ \A id \in Id : id # to => OnWire(id)' = OnWire(id)
         /\ /\ \A id \in Id : Sorted(wire[id])
            /\ \A x \in OnWire(to) : Before(x, buf.msg)
            => \A id \in Id : Sorted(wire'[id])
<1> DEFINE Unit == [msg : Message, unit : Int]
<1>1. PICK n \in Nat : wire' = [wire EXCEPT ![to] = Joined(@, Units(buf, n))]
  BY DEF Writes
<1>2. buf.msg \in Message /\ buf.ptr \in Int /\ buf.msg.n \in Int
  BY SocketAssumption DEF Buffer, Message
<1> DEFINE more == Units(buf, n)
<1>3. more \in Seq(Unit) /\ \A i \in DOMAIN more : more[i].msg = buf.msg
  <2> DEFINE at(k) == [msg |-> buf.msg, unit |-> buf.ptr + k - 1]
  <2>1. \A k \in 1..n : at(k) \in Unit /\ at(k).msg = buf.msg
    BY <1>2
  <2>2. more = [k \in 1..n |-> at(k)]
    BY DEF Units
  <2> HIDE DEF at, Unit, more
  <2>3. more \in [1..n -> Unit] /\ \A i \in 1..n : more[i].msg = buf.msg
    BY <2>1, <2>2
  <2> QED
    BY <2>3
<1> HIDE DEF more
<1>4. wire \in [Id -> Seq(Unit)]
  BY DEF WireOK
<1>5. wire[to] \in Seq(Unit) /\ wire' = [wire EXCEPT ![to] = Joined(wire[to], more)]
  BY <1>1, <1>4 DEF more
<1>6. Joined(wire[to], more) \in Seq(Unit)
  <2> HIDE DEF Unit
  <2> QED
    BY <1>3, <1>5 DEF Joined
<1>7. /\ wire' \in [Id -> Seq(Unit)] /\ wire'[to] = Joined(wire[to], more)
      /\ \A id \in Id : id # to => wire'[id] = wire[id]
  <2> HIDE DEF Unit
  <2> QED
    BY <1>4, <1>5, <1>6
<1>8. /\ OfList(Joined(wire[to], more)) \subseteq OfList(wire[to]) \cup {buf.msg}
      /\ Sorted(wire[to]) /\ (\A x \in OfList(wire[to]) : Before(x, buf.msg))
             => Sorted(Joined(wire[to], more))
  <2> HIDE DEF Unit
  <2> QED
    BY <1>2, <1>3, <1>5, MessagesOfJoined
<1> QED
  BY <1>7, <1>8 DEF WireOK, OnWire

(* Nothing is written.                                                     *)
LEMMA WireStays == wire' = wire => (WireOK => WireOK') /\ \A id : OnWire(id)' = OnWire(id)
  BY DEF WireOK, OnWire

(* The property is that the wires are sorted.                              *)
LEMMA OwnOrderIsSorted == OwnOrder <=> (~lost => \A id \in Id : Sorted(wire[id]))
  BY DEF OwnOrder, Sorted, Before
-----------------------------------------------------------------------------
(* What is asked for                                                       *)

(* No request to send is made.                                             *)
LEMMA AskedLess ==
  ASSUME Shape,
         \/ pipe' = pipe
         \/ pipe # <<>> /\ pipe' = Tail(pipe)
         \/ \E r : pipe' = Append(pipe, r) /\ r.kind # "send"
  PROVE  /\ \A id : Asked(id)' \subseteq Asked(id)
         /\ PipeInOrder => PipeInOrder'
<1>1. pipe \in Seq(Plain \cup ToSend)
  BY DEF Shape, PipeOK
<1>2. CASE pipe' = pipe
  BY <1>2 DEF Asked, Requests, PipeInOrder
<1>3. CASE pipe # <<>> /\ pipe' = Tail(pipe)
  <2>1. /\ \A k \in DOMAIN pipe' : k + 1 \in DOMAIN pipe /\ pipe'[k] = pipe[k + 1] /\ k \in Int
        /\ \A k, l \in DOMAIN pipe' : k < l => k + 1 < l + 1
    BY <1>1, <1>3
  <2>2. \A id : Asked(id)' \subseteq Asked(id)
    BY <2>1 DEF Asked, Requests
  <2>3. ASSUME PipeInOrder PROVE PipeInOrder'
    <3> SUFFICES ASSUME NEW k \in DOMAIN pipe', NEW l \in DOMAIN pipe',
                        pipe'[k].kind = "send", pipe'[l].kind = "send",
                        pipe'[k].id = pipe'[l].id, k < l
                 PROVE  Before(pipe'[k].msg, pipe'[l].msg)
      BY DEF PipeInOrder
    <3>1. /\ k + 1 \in DOMAIN pipe /\ l + 1 \in DOMAIN pipe /\ k + 1 < l + 1
          /\ pipe'[k] = pipe[k + 1] /\ pipe'[l] = pipe[l + 1]
      BY <2>1
    <3> QED
      BY <2>3, <3>1 DEF PipeInOrder
  <2> QED
    BY <2>2, <2>3
<1>4. CASE \E r : pipe' = Append(pipe, r) /\ r.kind # "send"
  <2>1. PICK r : pipe' = Append(pipe, r) /\ r.kind # "send"
    BY <1>4
  <2>2. \A k \in DOMAIN pipe' : pipe'[k] = r \/ (k \in DOMAIN pipe /\ pipe'[k] = pipe[k])
    BY <1>1, <2>1
  <2>3. \A id : Asked(id)' \subseteq Asked(id)
    BY <2>1, <2>2 DEF Asked, Requests
  <2>4. PipeInOrder => PipeInOrder'
    BY <2>1, <2>2 DEF PipeInOrder
  <2> QED
    BY <2>3, <2>4
<1> QED
  BY <1>2, <1>3, <1>4

(* One request more to send                                                *)
LEMMA AskedMore ==
  ASSUME Shape, NEW r, pipe' = Append(pipe, r), r.kind = "send"
  PROVE  /\ \A id : Asked(id)' \subseteq Asked(id) \cup {r.msg}
         /\ \A id : id # r.id => Asked(id)' \subseteq Asked(id)
         /\ PipeInOrder /\ (\A x \in Asked(r.id) : Before(x, r.msg)) => PipeInOrder'
<1> DEFINE n == Len(pipe) + 1
<1>1. pipe \in Seq(Plain \cup ToSend)
  BY DEF Shape, PipeOK
<1>2. \A k \in DOMAIN pipe' : /\ k \in Int /\ k <= n
                             /\ \/ k = n /\ pipe'[k] = r
                                \/ k \in DOMAIN pipe /\ k < n /\ pipe'[k] = pipe[k]
  BY <1>1
<1>3. n \in Int
  BY <1>1
<1> HIDE DEF n
<1>4. \A k \in DOMAIN pipe' : pipe'[k] = r \/ (k \in DOMAIN pipe /\ pipe'[k] = pipe[k])
  BY <1>2
<1>5. \A id : Asked(id)' \subseteq Asked(id) \cup {r.msg}
  BY <1>4 DEF Asked, Requests
<1>6. \A id : id # r.id => Asked(id)' \subseteq Asked(id)
  BY <1>4 DEF Asked, Requests
<1>7. ASSUME PipeInOrder, \A x \in Asked(r.id) : Before(x, r.msg) PROVE PipeInOrder'
  <2> SUFFICES ASSUME NEW k \in DOMAIN pipe', NEW l \in DOMAIN pipe',
                      pipe'[k].kind = "send", pipe'[l].kind = "send",
                      pipe'[k].id = pipe'[l].id, k < l
               PROVE  Before(pipe'[k].msg, pipe'[l].msg)
    BY DEF PipeInOrder
  <2>1. k \in DOMAIN pipe /\ pipe'[k] = pipe[k]
    BY <1>2, <1>3
  <2>2. CASE l \in DOMAIN pipe /\ pipe'[l] = pipe[l]
    BY <1>7, <2>1, <2>2 DEF PipeInOrder
  <2>3. CASE pipe'[l] = r
    <3>1. pipe[k].msg \in Asked(r.id)
      BY <2>1, <2>3 DEF Asked, Requests
    <3> QED
      BY <1>7, <2>1, <2>3, <3>1
  <2> QED
    BY <1>2, <2>2, <2>3
<1> QED
  BY <1>5, <1>6, <1>7

(* The request at the head is before all others to its socket.             *)
LEMMA HeadIsFirst ==
  ASSUME Shape, pipe # <<>>, pipe' = Tail(pipe), Head(pipe).kind = "send",
         NEW to, to = Head(pipe).id, NEW m, m = Head(pipe).msg
  PROVE  /\ m \in Asked(to)
         /\ PipeInOrder => \A y \in Asked(to)' : Before(m, y)
<1>1. pipe \in Seq(Plain \cup ToSend)
  BY DEF Shape, PipeOK
<1>2. /\ 1 \in DOMAIN pipe /\ Head(pipe) = pipe[1]
      /\ \A k \in DOMAIN pipe' : k + 1 \in DOMAIN pipe /\ pipe'[k] = pipe[k + 1] /\ 1 < k + 1
  BY <1>1
<1>3. m \in Asked(to)
  BY <1>2 DEF Asked, Requests
<1>4. ASSUME PipeInOrder, NEW k \in Requests(to)'
      PROVE  Before(m, pipe'[k].msg)
  <2>1. k \in DOMAIN pipe' /\ pipe'[k].kind = "send" /\ pipe'[k].id = to
    BY DEF Requests
  <2>2. k + 1 \in DOMAIN pipe /\ pipe'[k] = pipe[k + 1] /\ 1 < k + 1
    BY <1>2, <2>1
  <2> QED
    BY <1>2, <1>4, <2>1, <2>2 DEF PipeInOrder
<1>5. Asked(to)' = {pipe'[k].msg : k \in Requests(to)'}
  BY DEF Asked
<1> QED
  BY <1>3, <1>4, <1>5
-----------------------------------------------------------------------------
(* What callers have in hand                                               *)

(* What a caller has in hand is a message.                                 *)
LEMMA HandIsMessage ==
  ASSUME Shape, NEW c \in Caller, InHand(c)
  PROVE  Hand(c) \in Message /\ Hand(c).n \in Int
<1>1. /\ calling[c].pc = "store" => calling[c].rest \in Buffer
      /\ calling[c].pc # "store" => calling[c].msg \in Message
  BY CallerAt DEF InHand, Shape, CallingOK, Calling, Idle
<1>2. Hand(c) \in Message
  BY <1>1 DEF Hand, Buffer
<1> QED
  BY <1>2, SocketAssumption DEF Message

(* Placed, without the unions                                              *)
LEMMA PlacedAre ==
  \A m : m \in Placed <=> \/ \E id \in Id : m \in OnWire(id)
                          \/ \E id \in Id : m \in Asked(id)
                          \/ \E s \in Slot : m \in Waiting(s)
<1>1. \A m : m \in UNION {OnWire(id) : id \in Id} <=> \E id \in Id : m \in OnWire(id)
  OBVIOUS
<1>2. \A m : m \in UNION {Asked(id) : id \in Id} <=> \E id \in Id : m \in Asked(id)
  OBVIOUS
<1>3. \A m : m \in UNION {Waiting(s) : s \in Slot} <=> \E s \in Slot : m \in Waiting(s)
  OBVIOUS
<1> QED
  BY <1>1, <1>2, <1>3 DEF Placed

(* Whatever is placed is a message.                                        *)
LEMMA PlacedIsMessage ==
  ASSUME Shape, WireOK
  PROVE  \A m \in Placed : m \in Message /\ m.n \in Int
<1>1. \A id \in Id : OnWire(id) \subseteq Message
  <2> DEFINE Unit == [msg : Message, unit : Int]
  <2>1. \A id \in Id : wire[id] \in Seq(Unit)
    BY DEF WireOK
  <2>2. \A e \in Unit : e.msg \in Message
    OBVIOUS
  <2> HIDE DEF Unit
  <2>3. \A id \in Id : \A m \in OnWire(id) : \E e \in Unit : m = e.msg
    BY <2>1, MessagesAre DEF OnWire
  <2> QED
    BY <2>2, <2>3
<1>2. \A id : Asked(id) \subseteq Message
  BY DEF Asked, Requests, Shape, PipeOK, Plain, ToSend
<1>3. \A s \in Slot : Waiting(s) \subseteq Message
  <2> TAKE s \in Slot
  <2>1. OfList(slot[s].high) \subseteq Message /\ OfList(slot[s].low) \subseteq Message
    <3>1. slot[s].high \in Seq(Buffer) /\ slot[s].low \in Seq(Buffer)
      BY SlotFields
    <3>2. \A b \in Buffer : b.msg \in Message
      BY DEF Buffer
    <3> QED
      BY <3>1, <3>2, MessagesAre
  <2>2. Direct(s) \subseteq Message
    BY SlotFields DEF Direct, Buffer
  <2> QED
    BY <2>1, <2>2 DEF Waiting
<1>4. Placed \subseteq Message
  <2> SUFFICES ASSUME NEW m \in Placed PROVE m \in Message
    OBVIOUS
  <2>1. \/ \E id \in Id : m \in OnWire(id)
        \/ \E id \in Id : m \in Asked(id)
        \/ \E s \in Slot : m \in Waiting(s)
    BY PlacedAre
  <2> QED
    BY <1>1, <1>2, <1>3, <2>1
<1> QED
  BY <1>4, SocketAssumption DEF Message

(* Nothing new is placed but what a caller had in hand.                    *)
LEMMA HandsKept ==
  ASSUME Shape, WireOK, HandOK, calls' \in Int, calls' >= calls,
         \A m \in Placed' : m \in Placed \/ \E c \in Caller : InHand(c) /\ m = Hand(c),
         \A d \in Caller : InHand(d)' => InHand(d) /\ Hand(d)' = Hand(d)
  PROVE  HandOK'
<1>1. calls \in Int
  BY DEF Shape, TypeOK
<1>2. \A m \in Placed : m.n \in Int /\ m.n <= calls
  BY PlacedIsMessage DEF HandOK
<1>3. \A c \in Caller : InHand(c) => Hand(c).n \in Int /\ Hand(c).n <= calls /\ Hand(c).by = c
  BY HandIsMessage DEF HandOK
<1>4. \A m \in Placed' : m.n <= calls'
  BY <1>1, <1>2, <1>3
<1>5. ASSUME NEW d \in Caller, InHand(d)'
      PROVE  /\ Hand(d)'.by = d /\ Hand(d)'.n <= calls'
             /\ \A m \in Placed' : Before(m, Hand(d)')
  <2>1. PICK h : h = Hand(d)' /\ h = Hand(d) /\ h.by = d /\ h.n \in Int /\ h.n <= calls /\ InHand(d)
    BY <1>3, <1>5
  <2>2. h.n <= calls'
    BY <1>1, <2>1
  <2>3. ASSUME NEW m \in Placed' PROVE Before(m, h)
    <3>1. CASE m \in Placed
      BY <2>1, <3>1 DEF HandOK
    <3>2. CASE \E c \in Caller : InHand(c) /\ m = Hand(c)
      BY <1>3, <2>1, <3>2 DEF Before
    <3> QED
      BY <3>1, <3>2
  <2> QED
    BY <2>1, <2>2, <2>3
<1> QED
  BY <1>4, <1>5 DEF HandOK

(* No message moves to another place.                                      *)
LEMMA PlacedLess ==
  ASSUME \A id \in Id : OnWire(id)' \subseteq OnWire(id), QuietSlots,
         \A id \in Id : Asked(id)' \subseteq Asked(id)
  PROVE  \A m \in Placed' : m \in Placed
<1>1. \A s \in Slot : Waiting(s)' \subseteq Waiting(s)
  <2> TAKE s \in Slot
  <2>1. OfList(slot'[s].high) \subseteq OfList(slot[s].high)
        /\ OfList(slot'[s].low) \subseteq OfList(slot[s].low)
    BY MessagesOfNone DEF QuietSlots
  <2>2. Direct(s)' \subseteq Direct(s)
    BY DEF QuietSlots, Direct
  <2> QED
    BY <2>1, <2>2 DEF Waiting
<1> QED
  BY <1>1 DEF Placed

(* ... so that the low lists stay low                                      *)
LEMMA LowLess == QuietSlots /\ LowOK => LowOK'
  BY MessagesOfNone DEF QuietSlots, LowOK

(* One caller moves.                                                       *)
HandOf(q) == IF q.pc = "store" THEN q.rest.msg ELSE q.msg

(* The caller keeps what it has in hand, or is done with it.               *)
LEMMA HandMoves ==
  ASSUME Shape, NEW c \in Caller, NEW q, calling' = [calling EXCEPT ![c] = q],
         q.pc \notin {"idle", "reserved"} => InHand(c) /\ HandOf(q) = Hand(c)
  PROVE  /\ \A d \in Caller : InHand(d)' => InHand(d) /\ Hand(d)' = Hand(d)
         /\ \A s : \/ q.pc \notin {"write", "store"} \/ HASH_ID(q.id) # s
                   \/ c \in Writing(s)
                   => Hands(s)' \subseteq Hands(s)
         /\ \A s : Hands(s)' \subseteq Hands(s) \cup {Hand(c)}
         /\ q.pc = "idle" => \A s : \A x \in Hands(s)' : \E d \in Caller \ {c} : InHand(d) /\ x = Hand(d)
<1>1. \A d \in Caller : calling'[d] = IF d = c THEN q ELSE calling[d]
  BY DEF Shape, CallingOK
<1>2. ASSUME NEW d \in Caller, InHand(d)' PROVE InHand(d) /\ Hand(d)' = Hand(d)
  BY <1>1, <1>2 DEF InHand, Hand, HandOf
<1>3. \A s : \A d \in Writing(s)' : d \in Caller /\ InHand(d)' /\ (d # c => d \in Writing(s))
  BY <1>1 DEF Writing, InHand
<1>4. \A s : Hands(s)' = {Hand(d)' : d \in Writing(s)'}
  BY DEF Hands
<1>5. \A s : \A x \in Hands(s)' : \E d \in Writing(s)' : x = Hand(d)
  BY <1>2, <1>3, <1>4
<1>6. ASSUME NEW s, q.pc \notin {"write", "store"} \/ HASH_ID(q.id) # s \/ c \in Writing(s)
      PROVE  Hands(s)' \subseteq Hands(s)
  <2>1. \A d \in Writing(s)' : d \in Writing(s)
    BY <1>1, <1>3, <1>6 DEF Writing
  <2> QED
    BY <1>5, <2>1 DEF Hands
<1>7. \A s : Hands(s)' \subseteq Hands(s) \cup {Hand(c)}
  BY <1>3, <1>5 DEF Hands
<1>8. ASSUME q.pc = "idle", NEW s, NEW x \in Hands(s)'
      PROVE  \E d \in Caller \ {c} : InHand(d) /\ x = Hand(d)
  <2>1. c \notin Writing(s)'
    BY <1>1, <1>8 DEF Writing
  <2> QED
    BY <1>2, <1>3, <1>5, <2>1
<1> QED
  BY <1>2, <1>6, <1>7, <1>8

(* No caller moves.                                                        *)
LEMMA HandsStay ==
  ASSUME calling' = calling
  PROVE  /\ \A d \in Caller : InHand(d)' => InHand(d) /\ Hand(d)' = Hand(d)
         /\ \A s : Hands(s)' = Hands(s)
  BY DEF InHand, Hand, Hands, Writing
-----------------------------------------------------------------------------
(* The lines of the slots                                                  *)

(* The line of a slot to which nothing is added                            *)
LEMMA LineQuiet ==
  ASSUME NEW t \in Slot, LineOK(t),
         slot'[t].high \in {slot[t].high, <<>>}, slot'[t].dw \in {slot[t].dw, None},
         slot'[t].fd = slot[t].fd, slot[t].fd \in open' => slot[t].fd \in open,
         \A id \in Id : slot[t].fd = id => OnWire(id)' = OnWire(id),
         \A id \in Id : Asked(id)' \subseteq Asked(id),
         Hands(t)' \subseteq Hands(t), Sending(t)' => Sending(t)
  PROVE  LineOK(t)'
<1> SUFFICES ASSUME NEW id \in Id, slot'[t].fd = id, id \in open'
             PROVE  Line(t, id)'
  BY DEF LineOK
<1>1. Ordered(OnWire(id), slot[t].high, Direct(t), Asked(id), Hands(t), Sending(t))
  BY DEF LineOK, Line
<1>2. Direct(t)' \in SUBSET Direct(t)
  BY DEF Direct
<1>3. Asked(id)' \in SUBSET Asked(id) /\ Hands(t)' \in SUBSET Hands(t)
  OBVIOUS
<1>4. slot'[t].high \in {slot[t].high, <<>>} /\ (Sending(t)' => Sending(t) \/ Direct(t)' = {})
  OBVIOUS
<1>5. Ordered(OnWire(id), slot'[t].high, Direct(t)', Asked(id)', Hands(t)', Sending(t)')
  BY <1>1, <1>2, <1>3, <1>4, OrderOfLess
<1> QED
  BY <1>5 DEF Line

(* ... of one for which nothing waits                                      *)
LEMMA LineOfNone ==
  ASSUME NEW t \in Slot, slot'[t].high = <<>>, slot'[t].dw = None,
         \A id \in Id : slot'[t].fd = id => Asked(id)' = {}
  PROVE  LineOK(t)'
  BY OrderOfNone DEF LineOK, Line, Direct

(* ... of one without a descriptor                                         *)
LEMMA LineOfClosed ==
  ASSUME NEW t \in Slot, slot'[t].fd \notin open' \/ slot'[t].fd = 0
  PROVE  LineOK(t)'
  BY DEF LineOK, Id

(* Two slots have not one descriptor.                                      *)
LEMMA DescriptorsDiffer ==
  ASSUME Shape, NEW s \in Slot, NEW t \in Slot, NEW id \in Id, slot[s].fd = id, slot[t].fd = id
  PROVE  s = t
  BY DEF Shape, SlotOK, Id

(* Nobody asks for an id that services do not know to be open.             *)
LEMMA NobodyAsks == \A id : Shape /\ id \notin ready => Asked(id) = {}
  BY DEF Shape, PipeOK, Asked, Requests
-----------------------------------------------------------------------------
(* Slots in use                                                            *)

InUse(s) == slot[s].type \notin {"INVALID", "RESERVE"}

(* A slot that is in use as before                                         *)
LEMMA DescriptorKept ==
  ASSUME NEW t \in Slot, DescriptorOK(t), slot'[t].id = slot[t].id, slot'[t].fd = slot[t].fd,
         slot'[t].tcp = slot[t].tcp, InUse(t)' <=> InUse(t),
         slot[t].fd \in open' => slot[t].fd \in open,
         poll'.pc = "reopen" /\ poll'.s = t => poll' = poll
  PROVE  DescriptorOK(t)'
  BY DEF DescriptorOK, InUse

(* The thread frees and takes no slot in these steps.                      *)
LEMMA UseKept ==
  ASSUME Shape,
         \/ NoCommand \/ Start \/ Close("close") \/ Close("shutdown") \/ Decide
         \/ SendSocket \/ SendBuffer \/ SendList \/ AllSent \/ ClearClosed
         \/ Wait \/ Skip \/ ReportConnect \/ Read \/ Writable \/ Dec, ~lost'
  PROVE  \A t \in Slot : InUse(t)' <=> InUse(t)
<1>1. slot \in [Slot -> Socket]
  BY DEF Shape, TypeOK
<1>2. CASE slot' = slot
  BY <1>2 DEF InUse
<1>3. CASE AllSame
  BY <1>3 DEF AllSame, Same, InUse
<1>4. ASSUME NEW s \in Slot, NEW pc, NEW id, NEW by, BeginClose(pc, s, id, by)
      PROVE  \A t \in Slot : InUse(t)' <=> InUse(t)
  <2>1. CASE slot' = [slot EXCEPT ![s].high = <<>>, ![s].low = <<>>, ![s].watch = {}]
    <3>1. PICK r : /\ slot' = [slot EXCEPT ![s] = r]
                   /\ r = [slot[s] EXCEPT !.high = <<>>, !.low = <<>>, !.watch = {}]
      BY <1>1, <2>1
    <3>2. r.type = slot[s].type
      BY <1>1, <3>1 DEF Socket
    <3> QED
      BY <3>1, <3>2, OneStays DEF OthersStay, InUse
  <2> QED
    BY <1>2, <1>4, <2>1 DEF BeginClose
<1>5. ASSUME NEW s \in Slot, NEW type, NEW w, type \notin {"INVALID", "RESERVE"}, InUse(s),
             \/ slot' = [slot EXCEPT ![s].type = type, ![s].watch = w]
             \/ slot' = [slot EXCEPT ![s].watch = w, ![s].type = type]
             \/ slot' = [slot EXCEPT ![s].type = type]
      PROVE  \A t \in Slot : InUse(t)' <=> InUse(t)
  <2>1. PICK r : /\ slot' = [slot EXCEPT ![s] = r]
                 /\ \/ r = [slot[s] EXCEPT !.type = type, !.watch = w]
                    \/ r = [slot[s] EXCEPT !.watch = w, !.type = type]
                    \/ r = [slot[s] EXCEPT !.type = type]
    BY <1>1, <1>5
  <2>2. r.type = type
    BY <1>1, <2>1 DEF Socket
  <2> QED
    BY <1>5, <2>1, <2>2, OneStays DEF OthersStay, InUse
<1>6. CASE \/ NoCommand \/ Close("close") \/ Close("shutdown") \/ ClearClosed \/ Wait \/ Skip
  BY Zenon, <1>2, <1>6 DEF NoCommand, Close, ClearClosed, Wait, Skip
<1>7. CASE SendSocket \/ SendBuffer \/ SendList \/ Writable
  <2>1. slot' = slot \/ \E s \in Slot : Updates(s)
    <3>1. SendBuffer \/ SendList => poll.s \in Slot
      BY Zenon DEF SendBuffer, SendList, Shape, PollOK
    <3> QED
      BY <1>7, <3>1, SendSocketUpdates, SendBufferShape, SendListShape, WritableShape
  <2> QED
    BY <1>2, <1>3, <2>1, UpdatesKeep
<1>8. CASE AllSent \/ Dec
  BY <1>3, <1>8, AllSentShape, DecShape
<1>9. CASE Start
  <2> DEFINE id == Head(pipe).id
             s == HASH_ID(id)
  <2>1. s \in Slot
    BY Zenon, <1>9, HeadOfPipe DEF Start, Command
  <2>2. \/ slot' = slot
        \/ BeginClose("close", s, id, "start")
        \/ /\ slot[s].type \in {"PACCEPT", "PLISTEN"}
           /\ \E w : \E type \in {"CONNECTED", "LISTEN"} :
                 slot' = [slot EXCEPT ![s].watch = w, ![s].type = type]
    BY Zenon, <1>9 DEF Start
  <2>3. slot[s].type \in {"PACCEPT", "PLISTEN"} => InUse(s)
    BY DEF InUse
  <2> HIDE DEF id, s
  <2> QED
    BY <1>2, <1>4, <1>5, <2>1, <2>2, <2>3
<1>10. CASE Decide
  <2>1. poll.s \in Slot /\ slot[poll.s].type # "INVALID"
    BY <1>10 DEF Decide, Shape, PollOK
  <2>2. \/ BeginClose("close", poll.s, poll.id, poll.by)
        \/ /\ slot' = [slot EXCEPT ![poll.s].type = "HALFCLOSE"]
           /\ slot[poll.s].type # "RESERVE"
    BY <1>10 DEF Decide, Taken
  <2>3. slot[poll.s].type # "RESERVE" => InUse(poll.s)
    BY <2>1 DEF InUse
  <2>4. CASE slot' = [slot EXCEPT ![poll.s].type = "HALFCLOSE"] /\ slot[poll.s].type # "RESERVE"
    <3>1. PICK type, w : type = "HALFCLOSE" /\ w = {}
      OBVIOUS
    <3>2. /\ slot' = [slot EXCEPT ![poll.s].type = type] /\ InUse(poll.s)
          /\ type \notin {"INVALID", "RESERVE"}
      BY <2>3, <2>4, <3>1
    <3> QED
      BY <1>5, <2>1, <3>2
  <2> QED
    BY <1>4, <2>1, <2>2, <2>4
<1>11. CASE ReportConnect \/ Read
  <2>1. EventSlot \in Slot
    BY <1>11, EventsShrink DEF ReportConnect, Read, Established, Take
  <2>2. \/ slot' = slot
        \/ BeginClose("close", EventSlot, slot[EventSlot].id, "event")
        \/ /\ slot[EventSlot].type = "CONNECTING"
           /\ \E w : slot' = [slot EXCEPT ![EventSlot].type = "CONNECTED", ![EventSlot].watch = w]
    BY <1>11 DEF ReportConnect, Read, CloseOn
  <2>3. slot[EventSlot].type = "CONNECTING" => InUse(EventSlot)
    BY DEF InUse
  <2> QED
    BY Zenon, <1>2, <1>4, <1>5, <2>1, <2>2, <2>3
<1> QED
  BY <1>6, <1>7, <1>8, <1>9, <1>10, <1>11

(* The thread comes to send, or to open again, in few places.              *)
LEMMA NotSending ==
  ASSUME Shape,
         \/ NoCommand \/ Open \/ OpenFailed \/ Listen \/ Start
         \/ Close("close") \/ Close("shutdown") \/ Decide \/ Dec \/ SendSocket
         \/ AllSent \/ EndClose \/ ClearClosed \/ Wait
         \/ Skip \/ ReportConnect \/ ReportAccept \/ Read
  PROVE  poll'.pc # "lists" /\ (poll'.pc = "reopen" => Open)
<1> DEFINE Stays == poll'.pc \notin {"lists", "reopen"}
<1>1. \A pc : At(pc).pc = pc /\ \A s, id, by : In(pc, s, id, by).pc = pc
  BY DEF At, In
<1>2. \A rest : NextEvent(rest) => Stays
  BY <1>1 DEF NextEvent
<1>3. \A pc \in {"close", "closeHeld"} : \A s, id, by : BeginClose(pc, s, id, by) => Stays
  BY <1>1 DEF BeginClose
<1>4. \A pc : [poll EXCEPT !.pc = pc].pc = pc
  BY Zenon DEF Shape, TypeOK, Work
<1>5. \A sl : Sent(sl) => Stays
  BY Zenon, <1>2, <1>4 DEF Sent
<1>6. CASE NoCommand \/ OpenFailed \/ ClearClosed \/ Wait \/ Dec \/ SendSocket
  <2>1. \/ \E pc \in {"wait", "event", "ctrl", "abort"} : poll' = At(pc)
        \/ \E pc \in {"clear", "count"} : \E s, id, by : poll' = In(pc, s, id, by)
    BY Zenon, <1>6 DEF NoCommand, OpenFailed, ClearClosed, Wait, Dec, SendSocket
  <2>2. poll'.pc \in {"wait", "event", "ctrl", "abort", "clear", "count"}
    <3>1. CASE \E pc \in {"wait", "event", "ctrl", "abort"} : poll' = At(pc)
      BY <1>1, <3>1
    <3>2. CASE \E pc \in {"clear", "count"} : \E s, id, by : poll' = In(pc, s, id, by)
      BY <1>1, <3>2
    <3> QED
      BY <2>1, <3>1, <3>2
  <2> QED
    BY <2>2
<1>7. CASE Listen \/ Decide \/ EndClose \/ ReportAccept
  <2>1. Stays
    BY <1>7, ListenShape, DecideShape, EndCloseShape, ReportAcceptShape DEF Resting
  <2> QED
    BY <2>1
<1>8. CASE Open
  BY <1>8, OpenShape DEF Resting
<1>9. CASE Close("close") \/ Close("shutdown")
  <2>1. \E pc \in {"clear", "decide", "sendbuf"} : \E s, id, by : poll' = In(pc, s, id, by)
    BY Zenon, <1>9 DEF Close
  <2> QED
    BY <1>1, <2>1
<1>10. CASE AllSent
  BY <1>1, <1>3, <1>5, <1>10 DEF AllSent
<1>11. CASE Start
  <2>1. \/ poll' = At("ctrl") \/ \E id : poll' = In("clear", None, id, "")
        \/ \E s, id, by : BeginClose("close", s, id, by)
    BY Zenon, <1>11 DEF Start
  <2>2. At("ctrl").pc = "ctrl" /\ \A id : In("clear", None, id, "").pc = "clear"
    BY DEF At, In
  <2> QED
    BY Zenon, <1>3, <2>1, <2>2
<1>12. CASE Skip \/ ReportConnect \/ Read
  <2>1. (\E rest : NextEvent(rest)) \/ CloseOn
    BY <1>12 DEF Skip, ReportConnect, Read
  <2>2. CloseOn => Stays
    BY <1>3 DEF CloseOn
  <2> QED
    BY <1>2, <2>1, <2>2
<1> QED
  BY <1>6, <1>7, <1>8, <1>9, <1>10, <1>11, <1>12
-----------------------------------------------------------------------------
(* Steps of callers                                                        *)

Ranks == WireOK /\ HandOK /\ LowOK /\ OwnOrder
Lines == PipeInOrder /\ \A s \in Slot : DescriptorOK(s) /\ LineOK(s)

(* Callers keep what they have in hand until they are done with it.        *)
HandsHeld == \A d \in Caller : InHand(d)' => InHand(d) /\ Hand(d)' = Hand(d)

(* Callers keep what they have in hand; who passes the double check begins *)
(* to write.                                                               *)
LEMMA CallerHands ==
  ASSUME Shape, NEW c \in Caller,
         \/ \E kind \in {"connect", "listen"} : Reserve(c, kind)
         \/ Reserved(c)
         \/ \E kind \in {"close", "shutdown", "start"}, id \in given : Request(c, kind, id)
         \/ Look(c) \/ Try(c) \/ Recheck(c) \/ DirectWrite(c) \/ Store(c)
         \/ Inc(c) \/ Push(c)
  PROVE  /\ HandsHeld
         /\ \A s : \/ ~Recheck(c) \/ HASH_ID(calling[c].id) # s
                   => Hands(s)' \subseteq Hands(s)
         /\ Store(c) => /\ calling[c].rest.msg = Hand(c) /\ InHand(c)
                        /\ \A s : \A x \in Hands(s)' : \E d \in Caller \ {c} : InHand(d) /\ x = Hand(d)
<1>1. CASE calling' = calling
  <2>1. ~Store(c)
    <3>1. Store(c) => calling'[c] = Idle /\ calling[c].pc = "store"
      BY DEF Store, Shape, CallingOK
    <3> QED
      BY <1>1, <3>1 DEF Idle
  <2> QED
    BY <1>1, <2>1, HandsStay DEF HandsHeld
<1>2. CASE \E kind \in {"connect", "listen"} : Reserve(c, kind)
  <2>1. PICK q : calling' = [calling EXCEPT ![c] = q] /\ q.pc = "reserved"
    <3>1. \E kind : calling' = [calling EXCEPT ![c] = [pc |-> "reserved", kind |-> kind, id |-> Reservable]]
      BY <1>2 DEF Reserve
    <3>2. PICK kind : calling' = [calling EXCEPT ![c] = [pc |-> "reserved", kind |-> kind, id |-> Reservable]]
      BY <3>1
    <3>3. [pc |-> "reserved", kind |-> kind, id |-> Reservable].pc = "reserved"
      OBVIOUS
    <3> QED
      BY <3>2, <3>3
  <2>2. ~Store(c)
    BY <1>2 DEF Reserve, Store, Call
  <2> QED
    BY <2>1, <2>2, HandMoves DEF HandsHeld
<1>3. CASE Reserved(c) \/ Push(c)
  <2>1. calling' = [calling EXCEPT ![c] = Idle] /\ Idle.pc = "idle" /\ ~Store(c)
    BY Zenon, <1>3 DEF Reserved, Push, Idle, Store
  <2> QED
    BY Zenon, <2>1, HandMoves DEF HandsHeld
<1>4. CASE Store(c)
  <2>1. calling' = [calling EXCEPT ![c] = Idle] /\ Idle.pc = "idle" /\ calling[c].pc = "store"
    BY <1>4 DEF Store, Idle
  <2> QED
    BY <2>1, HandMoves DEF HandsHeld, InHand, Hand
<1>5. CASE Look(c) \/ Try(c) \/ Inc(c) \/ Recheck(c)
  <2>1. calling[c].pc \in {"look", "try", "inc", "recheck"}
    BY <1>5 DEF Look, Try, Inc, Recheck
  <2>2. calling[c] = [pc |-> calling[c].pc, id |-> calling[c].id, msg |-> calling[c].msg]
    BY <2>1, CallerAt
  <2>3. PICK pc \in {"try", "inc", "recheck", "push", "write"} : Goto(c, pc)
    BY <1>5 DEF Look, Try, Inc, Recheck
  <2>4. pc = "write" => Recheck(c)
    <3>1. Goto(c, pc) => calling'[c] = [calling[c] EXCEPT !.pc = pc]
      BY DEF Goto, Shape, CallingOK
    <3>2. calling'[c].pc = pc
      BY <2>2, <2>3, <3>1
    <3>3. \A p : Goto(c, p) => calling'[c].pc = p
      <4> TAKE p
      <4>1. Goto(c, p) => calling'[c] = [calling[c] EXCEPT !.pc = p]
        BY DEF Goto, Shape, CallingOK
      <4> QED
        BY <2>2, <4>1
    <3>4. \E p \in {"try", "inc", "recheck", "push"} : Look(c) \/ Try(c) \/ Inc(c) => Goto(c, p)
      BY DEF Look, Try, Inc
    <3> QED
      BY <1>5, <3>2, <3>3, <3>4
  <2> DEFINE q == [calling[c] EXCEPT !.pc = pc]
  <2>5. calling' = [calling EXCEPT ![c] = q]
    BY <2>3 DEF Goto
  <2>6. q.pc = pc /\ q.id = calling[c].id /\ q.msg = calling[c].msg
    BY <2>2
  <2>7. InHand(c) /\ HandOf(q) = Hand(c) /\ ~Store(c)
    BY <2>1, <2>6 DEF InHand, HandOf, Hand, Store
  <2> HIDE DEF q
  <2> QED
    BY <2>4, <2>5, <2>6, <2>7, HandMoves DEF HandsHeld
<1>6. CASE DirectWrite(c)
  <2>1. calling[c].pc = "write" /\ c \in Writing(HASH_ID(calling[c].id)) /\ InHand(c) /\ ~Store(c)
    BY Zenon, <1>6 DEF DirectWrite, Writing, InHand, Store
  <2>2. calling[c].msg \in Message
    BY <2>1, CallerAt
  <2>3. PICK q : /\ calling' = [calling EXCEPT ![c] = q]
                 /\ \/ q = Idle
                    \/ \E n : q = [pc |-> "store", id |-> calling[c].id,
                                   rest |-> Written(Whole(calling[c].msg), n)]
    <3>1. calling \in [Caller -> Calling]
      BY DEF Shape, CallingOK
    <3>2. \/ calling' = [calling EXCEPT ![c] = Idle]
          \/ \E n : calling' = [calling EXCEPT ![c] =
                                  [pc |-> "store", id |-> calling[c].id,
                                   rest |-> Written(Whole(calling[c].msg), n)]]
      BY Zenon, <1>6, <3>1 DEF DirectWrite, Again
    <3> QED
      BY <3>2
  <2>4. \A n : Written(Whole(calling[c].msg), n).msg = calling[c].msg
    BY DEF Written, Whole
  <2>5. q.pc = "idle" \/ (q.pc = "store" /\ q.id = calling[c].id /\ HandOf(q) = Hand(c))
    <3>1. CASE q = Idle
      BY <3>1 DEF Idle
    <3>2. CASE q # Idle
      <4>1. q.pc = "store" /\ q.id = calling[c].id /\ q.rest.msg = calling[c].msg
        BY <2>3, <2>4, <3>2
      <4> QED
        BY <2>1, <4>1 DEF HandOf, Hand
    <3> QED
      BY <3>1, <3>2
  <2>6. calling' = [calling EXCEPT ![c] = q]
    BY <2>3
  <2> QED
    BY Zenon, <2>1, <2>5, <2>6, HandMoves DEF HandsHeld
<1>7. CASE \E kind \in {"close", "shutdown", "start"}, id \in given : Request(c, kind, id)
  BY <1>1, <1>7 DEF Request
<1> QED
  BY <1>2, <1>3, <1>4, <1>5, <1>6, <1>7
(* No message moves.                                                       *)
LEMMA StillRanks ==
  ASSUME Shape, Shape', Ranks, wire' = wire, QuietSlots, lost => lost', calls' >= calls,
         \/ pipe' = pipe
         \/ pipe # <<>> /\ pipe' = Tail(pipe)
         \/ \E r : pipe' = Append(pipe, r) /\ r.kind # "send",
         HandsHeld
  PROVE  Ranks'
<1>1. WireOK' /\ \A id : OnWire(id)' = OnWire(id)
  BY WireStays DEF Ranks
<1>2. \A id : Asked(id)' \subseteq Asked(id)
  BY AskedLess
<1>3. \A m \in Placed' : m \in Placed
  BY <1>1, <1>2, PlacedLess
<1>4. HandOK'
  <2>1. calls' \in Int
    BY DEF Shape, TypeOK
  <2>2. \A m \in Placed' : m \in Placed \/ \E c \in Caller : InHand(c) /\ m = Hand(c)
    BY <1>3
  <2>3. WireOK /\ HandOK /\ calls' >= calls
    BY DEF Ranks
  <2>4. \A d \in Caller : InHand(d)' => InHand(d) /\ Hand(d)' = Hand(d)
    BY DEF HandsHeld
  <2> QED
    BY <2>1, <2>2, <2>3, <2>4, HandsKept
<1>5. LowOK'
  BY LowLess DEF Ranks
<1>6. OwnOrder'
  BY DEF Ranks, OwnOrder
<1> QED
  BY <1>1, <1>4, <1>5, <1>6 DEF Ranks

(* The steps of a caller that move no message                              *)
LEMMA StillCalls ==
  ASSUME Shape, Shape', Ranks, NEW c \in Caller,
         \/ \E kind \in {"connect", "listen"} : Reserve(c, kind)
         \/ Reserved(c)
         \/ \E kind \in {"close", "shutdown", "start"}, id \in given : Request(c, kind, id)
         \/ Look(c) \/ Try(c) \/ Recheck(c) \/ Inc(c)
  PROVE  Ranks'
<1>1. wire' = wire /\ lost' = lost
  BY Zenon DEF Reserve, Reserved, Request, Look, Try, Recheck, Inc, kernel
<1>2. QuietSlots
  BY QuietCallsSlots
<1>3. calls' = calls \/ calls' = calls + 1
  BY Zenon DEF Reserve, Reserved, Request, Look, Try, Recheck, Inc, services, Call
<1>4. calls' >= calls
  BY <1>3 DEF Shape, TypeOK
<1>5. HandsHeld
  BY CallerHands
<1>6. pipe' = pipe \/ \E r : pipe' = Append(pipe, r) /\ r.kind # "send"
  <2>1. CASE Reserved(c)
    <3> DEFINE r == [kind |-> calling[c].kind, id |-> calling[c].id]
    <3>1. pipe' = Append(pipe, r) /\ r.kind # "send"
      BY <2>1, ReservedLeaves
    <3> HIDE DEF r
    <3> QED
      BY <3>1
  <2>2. CASE \E kind \in {"close", "shutdown", "start"}, id \in given : Request(c, kind, id)
    <3>1. PICK kind \in {"close", "shutdown", "start"}, id \in given : Request(c, kind, id)
      BY <2>2
    <3> DEFINE r == [kind |-> kind, id |-> id]
    <3>2. pipe' = Append(pipe, r) /\ r.kind # "send"
      BY <3>1 DEF Request
    <3> HIDE DEF r
    <3> QED
      BY <3>2
  <2> QED
    BY <2>1, <2>2 DEF Reserve, Look, Try, Recheck, Inc
<1> QED
  BY <1>1, <1>2, <1>4, <1>5, <1>6, StillRanks

(* What a quiet step of a caller leaves of the lines                       *)
LEMMA LinesOfCall ==
  ASSUME Shape, Lines, QuietSlots, wire' = wire, poll' = poll, PipeInOrder',
         \A id \in Id : Asked(id)' \subseteq Asked(id), NEW t \in Slot,
         slot'[t].id = slot[t].id, slot'[t].fd = slot[t].fd, slot'[t].tcp = slot[t].tcp,
         InUse(t)' <=> InUse(t), slot[t].fd \in open' => slot[t].fd \in open
  PROVE  DescriptorOK(t)' /\ (Hands(t)' \subseteq Hands(t) => LineOK(t)')
<1>1. DescriptorOK(t)'
  BY DescriptorKept DEF Lines
<1>2. ASSUME Hands(t)' \subseteq Hands(t) PROVE LineOK(t)'
  <2>1. LineOK(t) /\ (Sending(t)' => Sending(t))
    BY DEF Lines, Sending
  <2>2. \A id \in Id : slot[t].fd = id => OnWire(id)' = OnWire(id)
    BY WireStays
  <2>3. slot'[t].high \in {slot[t].high, <<>>} /\ slot'[t].dw \in {slot[t].dw, None}
    BY DEF QuietSlots
  <2> QED
    BY <1>2, <2>1, <2>2, <2>3, LineQuiet
<1> QED
  BY <1>1, <1>2

(* A slot that is reserved has no descriptor yet.                          *)
LEMMA ReserveLines ==
  ASSUME Shape, Lines, NEW c \in Caller, NEW kind \in {"connect", "listen"}, Reserve(c, kind)
  PROVE  Lines'
<1>1. /\ Reservable \in Id /\ Reservable > alloc_id
      /\ open' \subseteq open \cup {Reservable} /\ UNCHANGED <<poll, pipe>>
      /\ slot[HASH_ID(Reservable)].type = "INVALID" /\ slot'[HASH_ID(Reservable)].type = "RESERVE"
      /\ \A t \in Slot : Kept(t) /\ (t # HASH_ID(Reservable) => slot'[t].type = slot[t].type)
  BY ReserveLeaves
<1>2. \A t \in Slot : slot[t].fd # Reservable
  <2>1. \A t \in Slot : slot[t].fd # 0 => slot[t].fd <= alloc_id
    BY DEF Shape, SlotOK
  <2>2. \A t \in Slot : slot[t].fd \in Nat
    BY DEF Shape, TypeOK, Socket, Id
  <2>3. alloc_id \in Nat /\ Reservable \in Nat
    BY <1>1 DEF Shape, TypeOK, Id
  <2> QED
    BY <1>1, <2>1, <2>2, <2>3
<1>3. wire' = wire /\ QuietSlots
  BY QuietCallsSlots DEF Reserve
<1>4. (\A id : Asked(id)' \subseteq Asked(id)) /\ PipeInOrder'
  BY <1>1, AskedLess DEF Lines
<1>5. \A t \in Slot : Hands(t)' \subseteq Hands(t)
  <2>1. ~Recheck(c)
    BY DEF Reserve, Recheck, Call
  <2> QED
    BY <2>1, CallerHands
<1>6. ASSUME NEW t \in Slot PROVE DescriptorOK(t)' /\ LineOK(t)'
  <2>1. slot'[t].id = slot[t].id /\ slot'[t].fd = slot[t].fd /\ slot'[t].tcp = slot[t].tcp
    BY <1>1 DEF Kept
  <2>2. InUse(t)' <=> InUse(t)
    BY <1>1 DEF InUse
  <2>3. slot[t].fd \in open' => slot[t].fd \in open
    BY <1>1, <1>2
  <2> QED
    BY <1>1, <1>3, <1>4, <1>5, <2>1, <2>2, <2>3, LinesOfCall
<1> QED
  BY <1>4, <1>6 DEF Lines

(* ... nor has it one when its id is set                                   *)
LEMMA ReservedLines ==
  ASSUME Shape, FreshOK, Lines, NEW c \in Caller, Reserved(c)
  PROVE  Lines'
<1> DEFINE s == HASH_ID(calling[c].id)
           r == [kind |-> calling[c].kind, id |-> calling[c].id]
<1>1. /\ s \in Slot /\ UNCHANGED <<poll, open>> /\ slot'[s].fd = 0
      /\ slot'[s].type = slot[s].type /\ pipe' = Append(pipe, r) /\ r.kind # "send"
      /\ \A t \in Slot : t # s => slot'[t] = slot[t]
  BY ReservedLeaves
<1>2. slot[s].type = "RESERVE"
  BY DEF FreshOK, Reserves, Reserved
<1>3. wire' = wire /\ QuietSlots
  BY Zenon, QuietCallsSlots DEF Reserved, kernel
<1>4. (\A id : Asked(id)' \subseteq Asked(id)) /\ PipeInOrder'
  <2> HIDE DEF r
  <2> QED
    BY <1>1, AskedLess DEF Lines
<1>5. \A t \in Slot : Hands(t)' \subseteq Hands(t)
  <2>1. ~Recheck(c)
    BY DEF Reserved, Recheck
  <2> QED
    BY <2>1, CallerHands
<1> HIDE DEF r, s
<1>6. ASSUME NEW t \in Slot PROVE DescriptorOK(t)' /\ LineOK(t)'
  <2>1. CASE t = s
    <3>1. 0 \notin open
      BY DEF Shape, TypeOK, Id
    <3>2. DescriptorOK(t)'
      BY <1>1, <1>2, <2>1, <3>1 DEF DescriptorOK
    <3> QED
      BY <1>1, <2>1, <3>2, LineOfClosed
  <2>2. CASE t # s
    <3>1. slot'[t] = slot[t] /\ open' = open /\ poll' = poll
      BY <1>1, <2>2
    <3>2. InUse(t)' <=> InUse(t)
      BY <3>1 DEF InUse
    <3> QED
      BY <1>3, <1>4, <1>5, <3>1, <3>2, LinesOfCall
  <2> QED
    BY <2>1, <2>2
<1> QED
  BY <1>4, <1>6 DEF Lines

(* The calls that leave all slots as they are used                         *)
LEMMA QuietCallLines ==
  ASSUME Shape, Lines, NEW c \in Caller,
         \/ \E kind \in {"close", "shutdown", "start"}, id \in given : Request(c, kind, id)
         \/ Look(c) \/ Try(c) \/ Recheck(c) \/ Inc(c)
  PROVE  /\ PipeInOrder'
         /\ \A t \in Slot : /\ DescriptorOK(t)'
                            /\ ~Recheck(c) \/ t # HASH_ID(calling[c].id) => LineOK(t)'
<1>1. /\ UNCHANGED <<poll, open>>
      /\ \A t \in Slot : /\ slot'[t].id = slot[t].id /\ slot'[t].fd = slot[t].fd
                         /\ slot'[t].tcp = slot[t].tcp /\ slot'[t].type = slot[t].type
  <2>1. CASE Inc(c)
    BY <2>1, IncLeaves DEF AllSame, Same
  <2>2. CASE ~Inc(c)
    BY <2>2, CallsLeave DEF Kept
  <2> QED
    BY <2>1, <2>2
<1>2. wire' = wire /\ QuietSlots
  BY Zenon, QuietCallsSlots DEF Request, Look, Try, Recheck, Inc, kernel
<1>3. (\A id : Asked(id)' \subseteq Asked(id)) /\ PipeInOrder'
  <2>1. CASE \E kind \in {"close", "shutdown", "start"}, id \in given : Request(c, kind, id)
    <3>1. PICK kind \in {"close", "shutdown", "start"}, id \in given : Request(c, kind, id)
      BY <2>1
    <3> DEFINE r == [kind |-> kind, id |-> id]
    <3>2. pipe' = Append(pipe, r) /\ r.kind # "send"
      BY <3>1 DEF Request
    <3> HIDE DEF r
    <3> QED
      BY <3>2, AskedLess DEF Lines
  <2>2. CASE Look(c) \/ Try(c) \/ Recheck(c) \/ Inc(c)
    <3>1. pipe' = pipe
      BY <2>2 DEF Look, Try, Recheck, Inc
    <3> QED
      BY <3>1, AskedLess DEF Lines
  <2> QED
    BY <2>1, <2>2
<1>4. \A t \in Slot : ~Recheck(c) \/ t # HASH_ID(calling[c].id) => Hands(t)' \subseteq Hands(t)
  BY CallerHands
<1>5. ASSUME NEW t \in Slot
      PROVE  DescriptorOK(t)' /\ (Hands(t)' \subseteq Hands(t) => LineOK(t)')
  <2>1. InUse(t)' <=> InUse(t)
    BY <1>1 DEF InUse
  <2> QED
    BY <1>1, <1>2, <1>3, <2>1, LinesOfCall
<1> QED
  BY <1>3, <1>4, <1>5

(* The double check finds that nothing is on its way.                      *)
LEMMA RecheckLines ==
  ASSUME Shape, \A s \in Slot : CountOK(s), Lines, NEW c \in Caller, Recheck(c)
  PROVE  Lines'
<1>1. calling[c].id \in Id /\ HASH_ID(calling[c].id) \in Slot
  BY CallerAt DEF Recheck
<1> PICK id \in Id, s \in Slot : id = calling[c].id /\ s = HASH_ID(calling[c].id)
  BY <1>1
<1>2. PipeInOrder' /\ \A t \in Slot : DescriptorOK(t)' /\ (t # s => LineOK(t)')
  BY QuietCallLines
<1>3. QuietSlots /\ pipe' = pipe /\ open' = open
  BY QuietCallsSlots DEF Recheck, kernel
<1>4. LineOK(s)'
  <2>1. CASE slot[s].id = id /\ nomore_sending_data(s) /\ slot[s].type = "CONNECTED"
    <3>1. /\ slot[s].high = <<>> /\ slot[s].dw = None /\ slot[s].sending = 0
      BY <2>1 DEF nomore_sending_data, Empty, NoneOnItsWay
    <3>2. slot'[s].high = <<>> /\ slot'[s].dw = None
      BY <1>1, <1>3, <3>1 DEF QuietSlots
    <3>3. slot[s].tcp /\ slot[s].fd = id
      BY <1>1, <2>1 DEF Lines, DescriptorOK
    <3>4. slot'[s].fd = id
      BY <1>1, <3>3, CallsLeave DEF Kept
    <3>5. OnItsWay(slot[s].id) = 0
      BY <1>1, <3>1, <3>3 DEF CountOK
    <3>6. Cardinality(Requests(slot[s].id)) = 0
      <4>1. PICK i : i = slot[s].id
        OBVIOUS
      <4>2. Cardinality(Requests(i)) \in Nat /\ Cardinality(Pushing(i)) \in Nat
        BY RequestsFinite
      <4>3. Cardinality(Requests(i)) + Cardinality(Pushing(i))
              + (IF poll.pc = "count" /\ poll.id = i THEN 1 ELSE 0) = 0
        BY <3>5, <4>1 DEF OnItsWay
      <4> QED
        BY <4>1, <4>2, <4>3
    <3>7. Requests(slot[s].id) = {}
      BY <3>6, RequestsFinite, FS_EmptySet
    <3>8. Asked(id) = {}
      BY <2>1, <3>7 DEF Asked
    <3>9. \A i \in Id : slot'[s].fd = i => Asked(i)' = {}
      BY <1>3, <3>4, <3>8 DEF Asked, Requests
    <3> QED
      BY <1>1, <3>2, <3>9, LineOfNone
  <2>2. CASE ~(slot[s].id = id /\ nomore_sending_data(s) /\ slot[s].type = "CONNECTED")
    <3>1. Goto(c, "inc")
      BY <2>2 DEF Recheck
    <3>2. Hands(s)' \subseteq Hands(s)
      <4>1. calling[c].pc = "recheck"
        BY DEF Recheck
      <4>2. calling[c] = [pc |-> calling[c].pc, id |-> calling[c].id, msg |-> calling[c].msg]
        BY <4>1, CallerAt
      <4> DEFINE q == [calling[c] EXCEPT !.pc = "inc"]
      <4>3. calling' = [calling EXCEPT ![c] = q]
        BY <3>1 DEF Goto
      <4>4. q.pc = "inc" /\ q.msg = calling[c].msg
        BY <4>2
      <4>5. InHand(c) /\ HandOf(q) = Hand(c)
        BY <4>1, <4>4 DEF InHand, HandOf, Hand
      <4> HIDE DEF q
      <4> QED
        BY <4>3, <4>4, <4>5, HandMoves
    <3>3. /\ UNCHANGED <<poll, open>> /\ wire' = wire
          /\ slot'[s].id = slot[s].id /\ slot'[s].fd = slot[s].fd
          /\ slot'[s].tcp = slot[s].tcp /\ slot'[s].type = slot[s].type
      BY <1>1, CallsLeave DEF Kept, Recheck, kernel
    <3>4. \A i : Asked(i)' \subseteq Asked(i)
      BY <1>3, AskedLess
    <3>5. InUse(s)' <=> InUse(s)
      BY <3>3 DEF InUse
    <3> QED
      BY <1>1, <1>2, <1>3, <3>2, <3>3, <3>4, <3>5, LinesOfCall
  <2> QED
    BY <2>1, <2>2
<1> QED
  BY <1>2, <1>4 DEF Lines

(* A new call: its message comes after all.                                *)
LEMMA SendHands ==
  ASSUME Shape, NEW c \in Caller, NEW id \in ready, NEW low \in BOOLEAN, Send(c, id, low)
  PROVE  /\ \A d \in Caller : d # c => calling'[d] = calling[d]
         /\ InHand(c)' => Hand(c)' = [n |-> calls', by |-> c, low |-> low]
         /\ calling'[c].pc \notin {"write", "store"}
<1> DEFINE msg == [n |-> calls', by |-> c, low |-> low]
<1>1. calling \in [Caller -> Calling]
  BY DEF Shape, CallingOK
<1>2. calling' = [calling EXCEPT ![c] = calling'[c]]
      /\ (calling'[c] = Idle \/ \E pc \in {"look", "inc"} : calling'[c] = [pc |-> pc, id |-> id, msg |-> msg])
  BY <1>1 DEF Send
<1>3. \A d \in Caller : d # c => calling'[d] = calling[d]
  BY <1>1, <1>2
<1>4. CASE calling'[c] = Idle
  BY <1>3, <1>4 DEF Idle, InHand
<1>5. CASE \E pc \in {"look", "inc"} : calling'[c] = [pc |-> pc, id |-> id, msg |-> msg]
  <2> HIDE DEF msg
  <2>1. calling'[c].pc \in {"look", "inc"} /\ calling'[c].msg = msg
    BY <1>5
  <2>2. Hand(c)' = msg
    BY <2>1 DEF Hand
  <2> QED
    BY <1>3, <2>1, <2>2 DEF msg
<1> QED
  BY <1>2, <1>4, <1>5

(* ... which is the latest of the caller                                   *)
LEMMA SendRanks ==
  ASSUME Shape, Shape', Ranks, NEW c \in Caller, NEW id \in ready, NEW low \in BOOLEAN,
         Send(c, id, low)
  PROVE  Ranks'
<1>1. UNCHANGED <<slot, pipe, wire, lost>> /\ calls' = calls + 1 /\ calls \in Int
  BY DEF Send, Call, kernel, Shape, TypeOK
<1>2. WireOK' /\ \A i : OnWire(i)' = OnWire(i)
  BY <1>1, WireStays DEF Ranks
<1>3. QuietSlots
  BY <1>1 DEF QuietSlots
<1>4. \A i : Asked(i)' \subseteq Asked(i)
  BY <1>1, AskedLess
<1>5. \A m \in Placed' : m \in Placed
  BY <1>2, <1>3, <1>4, PlacedLess
<1>6. \A m \in Placed' : m.n \in Int /\ m.n <= calls
  BY <1>5, PlacedIsMessage DEF Ranks, HandOK
<1>7. ASSUME NEW d \in Caller, InHand(d)'
      PROVE  /\ Hand(d)'.by = d /\ Hand(d)'.n <= calls'
             /\ \A m \in Placed' : Before(m, Hand(d)')
  <2>1. CASE d = c
    <3>1. PICK h : h = Hand(d)' /\ h = [n |-> calls', by |-> c, low |-> low]
      BY <1>7, <2>1, SendHands
    <3>2. h.by = d /\ h.n = calls'
      BY <2>1, <3>1
    <3>3. \A m \in Placed' : Before(m, h)
      BY <1>1, <1>6, <3>2 DEF Before
    <3> QED
      BY <1>1, <3>1, <3>2, <3>3
  <2>2. CASE d # c
    <3>1. calling'[d] = calling[d]
      BY <2>2, SendHands
    <3>2. InHand(d) /\ Hand(d)' = Hand(d)
      BY <1>7, <3>1 DEF InHand, Hand
    <3>3. PICK h : h = Hand(d)' /\ h = Hand(d) /\ h.by = d /\ h.n <= calls /\ h.n \in Int
                   /\ \A m \in Placed : Before(m, h)
      BY <3>2, HandIsMessage DEF Ranks, HandOK
    <3> QED
      BY <1>1, <1>5, <3>3
  <2> QED
    BY <2>1, <2>2
<1>8. HandOK'
  BY <1>1, <1>6, <1>7 DEF HandOK
<1>9. LowOK' /\ OwnOrder'
  BY <1>1, <1>3, LowLess DEF Ranks, OwnOrder
<1> QED
  BY <1>2, <1>8, <1>9 DEF Ranks

(* ... and on no line yet                                                  *)
LEMMA SendLines ==
  ASSUME Shape, Lines, NEW c \in Caller, NEW id \in ready, NEW low \in BOOLEAN,
         Send(c, id, low)
  PROVE  Lines'
<1>1. UNCHANGED <<slot, pipe, wire, open, poll>>
  BY DEF Send, kernel, thread
<1>2. QuietSlots
  BY <1>1 DEF QuietSlots
<1>3. (\A i : Asked(i)' \subseteq Asked(i)) /\ PipeInOrder'
  BY <1>1, AskedLess DEF Lines
<1>4. ASSUME NEW t \in Slot PROVE Hands(t)' \subseteq Hands(t)
  <2>1. \A d \in Writing(t)' : d # c /\ d \in Caller
    BY SendHands DEF Writing
  <2>2. \A d \in Writing(t)' : calling'[d] = calling[d]
    BY <2>1, SendHands
  <2>3. \A d \in Writing(t)' : d \in Writing(t) /\ Hand(d)' = Hand(d)
    BY <2>2 DEF Writing, Hand
  <2> QED
    BY <2>3 DEF Hands
<1>5. ASSUME NEW t \in Slot PROVE DescriptorOK(t)' /\ LineOK(t)'
  <2>1. slot'[t] = slot[t] /\ (InUse(t)' <=> InUse(t))
    BY <1>1 DEF InUse
  <2> QED
    BY <1>1, <1>2, <1>3, <1>4, <2>1, LinesOfCall
<1> QED
  BY <1>3, <1>5 DEF Lines
-----------------------------------------------------------------------------
(* Steps that move a message: it was there before, or in hand.             *)
LEMMA MovedRanks ==
  ASSUME Shape, Shape', Ranks, NEW m,
         m \in Placed \/ \E c \in Caller : InHand(c) /\ m = Hand(c),
         \A id \in Id : OnWire(id)' \subseteq OnWire(id) \cup {m},
         \A id \in Id : Asked(id)' \subseteq Asked(id) \cup {m},
         \A s \in Slot : Waiting(s)' \subseteq Waiting(s) \cup {m},
         calls' = calls, HandsHeld, WireOK', LowOK', OwnOrder'
  PROVE  Ranks'
<1>1. \A x \in Placed' : x \in Placed \/ x = m
  <2>1. \A x : x \in Placed' => \/ \E id \in Id : x \in OnWire(id)'
                                \/ \E id \in Id : x \in Asked(id)'
                                \/ \E s \in Slot : x \in Waiting(s)'
    BY DEF Placed
  <2>2. \A x : x \in Placed' => \/ \E id \in Id : x \in OnWire(id)
                                \/ \E id \in Id : x \in Asked(id)
                                \/ \E s \in Slot : x \in Waiting(s)
                                \/ x = m
    BY <2>1
  <2> QED
    BY <2>2, PlacedAre
<1>2. \A x \in Placed' : x \in Placed \/ \E c \in Caller : InHand(c) /\ x = Hand(c)
  BY <1>1
<1>3. calls' \in Int /\ calls' >= calls
  BY DEF Shape, TypeOK
<1>4. HandOK'
  BY <1>2, <1>3, HandsKept DEF Ranks, HandsHeld
<1> QED
  BY <1>4 DEF Ranks

(* What waits in a slot to which nothing is added                          *)
LEMMA WaitingLess == QuietSlots => \A s \in Slot : Waiting(s)' \subseteq Waiting(s)
<1> SUFFICES ASSUME QuietSlots, NEW s \in Slot PROVE Waiting(s)' \subseteq Waiting(s)
  OBVIOUS
<1>1. OfList(slot'[s].high) \subseteq OfList(slot[s].high)
      /\ OfList(slot'[s].low) \subseteq OfList(slot[s].low)
  BY MessagesOfNone DEF QuietSlots
<1>2. Direct(s)' \subseteq Direct(s)
  BY DEF QuietSlots, Direct
<1> QED
  BY <1>1, <1>2 DEF Waiting

(* Nothing is written: the order stays.                                    *)
LEMMA OwnOrderStays == OwnOrder /\ wire' = wire /\ (lost => lost') => OwnOrder'
  BY DEF OwnOrder

(* A line from one that says more                                          *)
LEMMA LineFrom ==
  ASSUME NEW t \in Slot, NEW id \in Id, slot'[t].fd \in Id => slot'[t].fd = id,
         NEW h, NEW D, NEW P, NEW H, NEW L, Ordered(OnWire(id)', h, D, P, H, L),
         slot'[t].high \in {h, <<>>}, Direct(t)' \subseteq D, Asked(id)' \subseteq P,
         Hands(t)' \subseteq H, Sending(t)' => L \/ Direct(t)' = {}
  PROVE  LineOK(t)'
<1>1. Ordered(OnWire(id)', slot'[t].high, Direct(t)', Asked(id)', Hands(t)', Sending(t)')
  BY OrderOfLess
<1> QED
  BY <1>1 DEF LineOK, Line

(* write, by a caller                                                      *)
LEMMA DirectWriteMoves ==
  ASSUME Shape, NEW c \in Caller, DirectWrite(c)
  PROVE  LET s == HASH_ID(calling[c].id)
         IN  /\ s \in Slot /\ InHand(c) /\ c \in Writing(s) /\ Hand(c) \in Message
             /\ (wire' = wire \/ (slot[s].fd \in open /\ Writes(slot[s].fd, Whole(Hand(c)))))
<1> DEFINE s == HASH_ID(calling[c].id)
<1>1. calling[c].pc = "write"
  BY Zenon DEF DirectWrite
<1>2. s \in Slot /\ calling[c].msg \in Message
  BY Zenon, <1>1, CallerAt
<1>3. InHand(c) /\ c \in Writing(s) /\ Hand(c) = calling[c].msg
  BY <1>1 DEF InHand, Writing, Hand
<1>4. \A n \in 1..Size : n \in Nat
  BY SocketAssumption
<1>5. wire' = wire \/ (slot[s].fd \in open /\ Writes(slot[s].fd, Whole(calling[c].msg)))
  <2>1. \/ wire' = wire
        \/ \E n \in 1..Size :
              /\ slot[s].fd \in open
              /\ wire' = [wire EXCEPT ![slot[s].fd] = @ \o Units(Whole(calling[c].msg), n)]
    BY Zenon DEF DirectWrite
  <2> QED
    BY Zenon, <1>4, <2>1 DEF Writes, Joined
<1> QED
  BY <1>2, <1>3, <1>5

(* ... which is the latest of its caller on any wire                       *)
LEMMA DirectWriteRanks ==
  ASSUME Shape, Shape', Ranks, NEW c \in Caller, DirectWrite(c)
  PROVE  Ranks'
<1>1. QuietSlots /\ HandsHeld
  BY QuietCallsSlots, CallerHands
<1>2. pipe' = pipe /\ calls' = calls /\ lost' = lost
  BY Zenon DEF DirectWrite, services
<1>3. \A id \in Id : Asked(id)' \subseteq Asked(id)
  BY <1>2, AskedLess
<1>4. LowOK'
  BY <1>1, LowLess DEF Ranks
<1>5. \A s \in Slot : Waiting(s)' \subseteq Waiting(s)
  BY <1>1, WaitingLess
<1>6. PICK s \in Slot, m \in Message : /\ s = HASH_ID(calling[c].id) /\ InHand(c) /\ m = Hand(c)
                           /\ (wire' = wire \/ (slot[s].fd \in open /\ Writes(slot[s].fd, Whole(m))))
  BY DirectWriteMoves
<1>7. WireOK' /\ OwnOrder' /\ \A id \in Id : OnWire(id)' \subseteq OnWire(id) \cup {m}
  <2>1. CASE wire' = wire
    BY <1>2, <2>1, WireStays, OwnOrderStays DEF Ranks
  <2>2. CASE slot[s].fd \in open /\ Writes(slot[s].fd, Whole(m))
    <3>1. PICK to \in Id : to = slot[s].fd /\ Writes(to, Whole(m))
      BY <2>2 DEF Shape, TypeOK
    <3>2. PICK buf \in Buffer : buf = Whole(m)
      BY WholeIsBuffer
    <3>3. buf.msg = m
      BY <3>2 DEF Whole
    <3>4. \A x \in OnWire(to) : Before(x, m)
      <4>1. \A x \in OnWire(to) : x \in Placed
        BY PlacedAre
      <4> QED
        BY <1>6, <4>1 DEF Ranks, HandOK
    <3>5. /\ WireOK' /\ \A id \in Id : OnWire(id)' \subseteq OnWire(id) \cup {buf.msg}
          /\ (\A id \in Id : Sorted(wire[id])) => \A id \in Id : Sorted(wire'[id])
      BY <3>1, <3>2, <3>3, <3>4, WireMoves DEF Ranks
    <3>6. OwnOrder' <=> (~lost' => \A id \in Id : Sorted(wire'[id]))
      <4>1. OwnOrder' <=> (~lost => \A id \in Id : Sorted(wire[id]))'
        BY OwnOrderIsSorted, PTL
      <4> QED
        BY <4>1
    <3> QED
      BY <1>2, <3>3, <3>5, <3>6, OwnOrderIsSorted DEF Ranks
  <2> QED
    BY <1>6, <2>1, <2>2
<1>8. m \in Placed \/ \E d \in Caller : InHand(d) /\ m = Hand(d)
  BY <1>6
<1> QED
  BY <1>1, <1>2, <1>3, <1>4, <1>5, <1>7, <1>8, MovedRanks

(* ... and of whom nothing waits that it would overtake                    *)
LEMMA DirectWriteLines ==
  ASSUME Shape, Ranks, Lines, NEW c \in Caller, DirectWrite(c)
  PROVE  Lines'
<1>1. QuietSlots /\ \A t : Hands(t)' \subseteq Hands(t)
  <2>1. ~Recheck(c)
    BY Zenon DEF DirectWrite, Recheck
  <2> QED
    BY <2>1, QuietCallsSlots, CallerHands
<1>2. pipe' = pipe /\ open' = open /\ poll' = poll
  BY Zenon DEF DirectWrite, thread
<1>3. (\A id : Asked(id)' \subseteq Asked(id)) /\ PipeInOrder'
  BY <1>2, AskedLess DEF Lines
<1>4. \A t \in Slot : Kept(t) /\ slot'[t].type = slot[t].type
  BY CallsLeave
<1>5. \A t \in Slot : DescriptorOK(t)'
  BY <1>2, <1>4, DescriptorKept DEF Lines, Kept, InUse
<1>6. PICK s \in Slot, m \in Message : /\ s = HASH_ID(calling[c].id) /\ m = Hand(c) /\ c \in Writing(s)
                           /\ (wire' = wire \/ (slot[s].fd \in open /\ Writes(slot[s].fd, Whole(m))))
  BY DirectWriteMoves
<1>7. ASSUME NEW t \in Slot, \A id \in Id : slot[t].fd = id => OnWire(id)' = OnWire(id)
      PROVE  LineOK(t)'
  <2>1. slot'[t].high \in {slot[t].high, <<>>} /\ slot'[t].dw \in {slot[t].dw, None}
    BY <1>1 DEF QuietSlots
  <2>2. slot'[t].fd = slot[t].fd /\ LineOK(t) /\ (Sending(t)' => Sending(t))
    BY <1>2, <1>4 DEF Kept, Lines, Sending
  <2> QED
    BY <1>1, <1>2, <1>3, <1>7, <2>1, <2>2, LineQuiet
<1>8. CASE wire' = wire
  BY <1>3, <1>5, <1>7, <1>8, WireStays DEF Lines
<1>9. CASE slot[s].fd \in open /\ Writes(slot[s].fd, Whole(m))
  <2>1. PICK to \in Id : to = slot[s].fd /\ Writes(to, Whole(m))
    BY <1>9 DEF Shape, TypeOK
  <2>2. Whole(m) \in Buffer /\ Whole(m).msg = m
    BY WholeIsBuffer DEF Whole
  <2>3. /\ OnWire(to)' \subseteq OnWire(to) \cup {m}
        /\ \A id \in Id : id # to => OnWire(id)' = OnWire(id)
    BY <2>1, <2>2, WireMoves DEF Ranks
  <2>4. \A t \in Slot : t # s => LineOK(t)'
    BY <1>7, <2>1, <2>3, DescriptorsDiffer
  <2>5. LineOK(s)'
    <3>1. Ordered(OnWire(to), slot[s].high, Direct(s), Asked(to), Hands(s), Sending(s))
      BY <1>9, <2>1 DEF Lines, LineOK, Line
    <3>2. m \in Hands(s)
      BY <1>6 DEF Hands
    <3>3. Ordered(OnWire(to)', slot[s].high, Direct(s), Asked(to), Hands(s), Sending(s))
      BY <2>3, <3>1, <3>2, OrderOfWrite
    <3>4. slot'[s].high \in {slot[s].high, <<>>} /\ Direct(s)' \subseteq Direct(s)
      BY <1>1 DEF QuietSlots, Direct
    <3>5. Sending(s)' => Sending(s) \/ Direct(s)' = {}
      BY <1>2 DEF Sending
    <3>6. slot'[s].fd \in Id => slot'[s].fd = to
      BY <1>4, <2>1 DEF Kept
    <3> QED
      BY <1>1, <1>3, <3>3, <3>4, <3>5, <3>6, LineFrom
  <2> QED
    BY <1>3, <1>5, <2>4, <2>5 DEF Lines
<1> QED
  BY <1>6, <1>8, <1>9

(* The rest of a direct write is kept.                                     *)
LEMMA StoreFacts ==
  ASSUME Shape, NEW c \in Caller, Store(c)
  PROVE  \E s \in Slot, m \in {Hand(c)} :
            /\ m = Hand(c) /\ InHand(c) /\ c \in Writing(s) /\ OthersStay(s)
            /\ slot'[s].high = slot[s].high /\ slot'[s].low = slot[s].low
            /\ Direct(s)' \subseteq {m}
            /\ HandsHeld /\ \A t : Hands(t)' \subseteq Hands(t)
            /\ \A t : \A x \in Hands(t)' : \E d \in Caller \ {c} : InHand(d) /\ x = Hand(d)
<1>1. PICK s \in Slot, b \in {calling[c].rest} : /\ s = HASH_ID(calling[c].id) /\ b = calling[c].rest
               /\ OthersStay(s) /\ slot'[s].high = slot[s].high /\ slot'[s].low = slot[s].low
               /\ slot'[s].dw = b
  BY StoreMoves
<1>2. Direct(s)' \subseteq {b.msg}
  BY <1>1 DEF Direct
<1>3. c \in Writing(s)
  BY <1>1 DEF Store, Writing
<1>4. ~Recheck(c)
  BY DEF Store, Recheck
<1>5. /\ calling[c].rest.msg = Hand(c) /\ InHand(c) /\ HandsHeld
      /\ \A t : Hands(t)' \subseteq Hands(t)
      /\ \A t : \A x \in Hands(t)' : \E d \in Caller \ {c} : InHand(d) /\ x = Hand(d)
  BY <1>4, CallerHands
<1> QED
  BY <1>1, <1>2, <1>3, <1>5

(* The rest moves from the hand to the slot.                               *)
LEMMA StoreRanks ==
  ASSUME Shape, Shape', Ranks, NEW c \in Caller, Store(c)
  PROVE  Ranks'
<1>1. PICK s \in Slot, m \in {Hand(c)} :
        /\ m = Hand(c) /\ InHand(c) /\ OthersStay(s)
        /\ slot'[s].high = slot[s].high /\ slot'[s].low = slot[s].low
        /\ Direct(s)' \subseteq {m} /\ HandsHeld
  BY StoreFacts
<1>2. UNCHANGED <<wire, pipe, calls, lost>>
  BY DEF Store, kernel, services
<1>3. \A t \in Slot : slot'[t].high = slot[t].high /\ slot'[t].low = slot[t].low
                      /\ Direct(t)' \subseteq Direct(t) \cup {m}
  BY <1>1 DEF OthersStay, Direct
<1>4. LowOK' /\ \A t \in Slot : Waiting(t)' \subseteq Waiting(t) \cup {m}
  BY <1>3 DEF Ranks, LowOK, Waiting
<1>5. WireOK' /\ OwnOrder' /\ \A id \in Id : OnWire(id)' \subseteq OnWire(id) \cup {m}
  BY <1>2, WireStays, OwnOrderStays DEF Ranks
<1>6. \A id \in Id : Asked(id)' \subseteq Asked(id) \cup {m}
  BY <1>2, AskedLess
<1>7. m \in Placed \/ \E d \in Caller : InHand(d) /\ m = Hand(d)
  BY <1>1
<1> QED
  BY <1>1, <1>2, <1>4, <1>5, <1>6, <1>7, MovedRanks

(* The hands of others are of other callers.                               *)
LEMMA LatestOfAll ==
  ASSUME HandOK, NEW c \in Caller, InHand(c), NEW m, m = Hand(c), NEW d \in Caller \ {c}, InHand(d)
  PROVE  Before(Hand(d), m)
  BY DEF HandOK, Before

(* ... and comes before whatever waits there                               *)
LEMMA StoreLines ==
  ASSUME Shape, Ranks, Lines, NEW c \in Caller, Store(c)
  PROVE  Lines'
<1>1. PICK s \in Slot, m \in {Hand(c)} :
            /\ m = Hand(c) /\ InHand(c) /\ c \in Writing(s) /\ OthersStay(s)
            /\ slot'[s].high = slot[s].high /\ slot'[s].low = slot[s].low
            /\ Direct(s)' \subseteq {m}
            /\ \A t : Hands(t)' \subseteq Hands(t)
            /\ \A t : \A x \in Hands(t)' : \E d \in Caller \ {c} : InHand(d) /\ x = Hand(d)
  BY StoreFacts
<1>2. UNCHANGED <<wire, pipe, open, poll>>
  BY DEF Store, kernel, thread
<1>3. (\A id \in Id : OnWire(id)' = OnWire(id)) /\ (\A id \in Id : Asked(id)' \subseteq Asked(id))
      /\ PipeInOrder'
  BY <1>2, WireStays, AskedLess DEF Lines
<1>4. \A t \in Slot : Kept(t) /\ slot'[t].type = slot[t].type
  BY CallsLeave
<1>5. \A t \in Slot : DescriptorOK(t)'
  BY <1>2, <1>4, DescriptorKept DEF Lines, Kept, InUse
<1>6. ASSUME NEW t \in Slot, t # s PROVE LineOK(t)'
  <2>1. slot'[t] = slot[t] /\ LineOK(t) /\ (Sending(t)' => Sending(t))
    BY <1>1, <1>2, <1>6 DEF OthersStay, Lines, Sending
  <2> QED
    BY <1>1, <1>2, <1>3, <2>1, LineQuiet
<1>7. LineOK(s)'
  <2>1. CASE slot[s].fd \in open
    <3>1. PICK id \in Id : id = slot[s].fd
      BY <2>1 DEF Shape, TypeOK
    <3>2. Ordered(OnWire(id), slot[s].high, Direct(s), Asked(id), Hands(s), Sending(s))
      BY <2>1, <3>1 DEF Lines, LineOK, Line
    <3>3. m \in Hands(s)
      BY <1>1 DEF Hands
    <3>4. \A x \in OnWire(id) \cup OfList(slot[s].high) : Before(x, m)
      <4>1. \A x \in OnWire(id) \cup OfList(slot[s].high) : x \in Placed
        BY PlacedAre DEF Waiting
      <4> QED
        BY <1>1, <4>1 DEF Ranks, HandOK
    <3>5. \A x \in Hands(s)' : Before(x, m)
      <4> TAKE x \in Hands(s)'
      <4>1. PICK d \in Caller \ {c} : InHand(d) /\ x = Hand(d)
        BY <1>1
      <4> QED
        BY <1>1, <4>1, LatestOfAll DEF Ranks
    <3>6. Ordered(OnWire(id), slot[s].high, {m}, Asked(id), Hands(s)', Sending(s))
      <4>1. PICK H2 \in SUBSET Hands(s) : H2 = Hands(s)'
        BY <1>1
      <4>2. \A x \in OnWire(id) \cup OfList(slot[s].high) \cup H2 : Before(x, m)
        BY <3>4, <3>5, <4>1
      <4>3. Ordered(OnWire(id), slot[s].high, {m}, Asked(id), H2, Sending(s))
        BY <3>2, <3>3, <4>2, OrderOfStore
      <4> QED
        BY <4>1, <4>3
    <3>7. Ordered(OnWire(id)', slot[s].high, {m}, Asked(id), Hands(s)', Sending(s))
      BY <1>3, <3>6
    <3>8. slot'[s].fd \in Id => slot'[s].fd = id
      BY <1>4, <3>1 DEF Kept
    <3>9. Sending(s)' => Sending(s) \/ Direct(s)' = {}
      BY <1>2 DEF Sending
    <3> QED
      BY <1>1, <1>3, <3>7, <3>8, <3>9, LineFrom
  <2>2. CASE slot[s].fd \notin open
    BY <1>2, <1>4, <2>2, LineOfClosed DEF Kept
  <2> QED
    BY <2>1, <2>2
<1> QED
  BY <1>3, <1>5, <1>6, <1>7 DEF Lines

(* A request to send is made.                                              *)
LEMMA PushFacts ==
  ASSUME Shape, NEW c \in Caller, Push(c)
  PROVE  \E r : /\ pipe' = Append(pipe, r) /\ r.kind = "send" /\ r.msg = Hand(c) /\ r.id \in Id
                /\ InHand(c) /\ HandsHeld
                /\ \A t : Hands(t)' \subseteq Hands(t)
                /\ \A t : \A x \in Hands(t) : \E d \in Caller \ {c} : InHand(d) /\ x = Hand(d)
<1>1. calling[c].pc = "push" /\ calling[c].id \in Id
  BY CallerAt DEF Push
<1>2. PICK r : pipe' = Append(pipe, r) /\ r = [kind |-> "send", id |-> calling[c].id, msg |-> calling[c].msg]
  BY DEF Push
<1>3. r.kind = "send" /\ r.id = calling[c].id /\ r.msg = calling[c].msg
  BY <1>2
<1>4. InHand(c) /\ Hand(c) = calling[c].msg
  BY <1>1 DEF InHand, Hand
<1>5. ~Recheck(c)
  BY DEF Push, Recheck
<1>6. HandsHeld /\ \A t : Hands(t)' \subseteq Hands(t)
  BY <1>5, CallerHands
<1>7. ASSUME NEW t, NEW x \in Hands(t) PROVE \E d \in Caller \ {c} : InHand(d) /\ x = Hand(d)
  BY <1>1 DEF Hands, Writing, InHand
<1> QED
  BY <1>1, <1>2, <1>3, <1>4, <1>6, <1>7

(* The message moves from the hand to the pipe.                            *)
LEMMA PushRanks ==
  ASSUME Shape, Shape', Ranks, NEW c \in Caller, Push(c)
  PROVE  Ranks'
<1>1. UNCHANGED <<slot, wire, calls, lost>>
  BY DEF Push, kernel, services
<1>2. PICK r, m : /\ pipe' = Append(pipe, r) /\ r.kind = "send" /\ r.msg = m
                  /\ m = Hand(c) /\ InHand(c) /\ HandsHeld
  BY PushFacts
<1>3. \A id \in Id : Asked(id)' \subseteq Asked(id) \cup {m}
  BY <1>2, AskedMore
<1>4. QuietSlots
  BY <1>1 DEF QuietSlots
<1>5. LowOK' /\ \A s \in Slot : Waiting(s)' \subseteq Waiting(s) \cup {m}
  BY <1>4, LowLess, WaitingLess DEF Ranks
<1>6. WireOK' /\ OwnOrder' /\ \A id \in Id : OnWire(id)' \subseteq OnWire(id) \cup {m}
  BY <1>1, WireStays, OwnOrderStays DEF Ranks
<1>7. m \in Placed \/ \E d \in Caller : InHand(d) /\ m = Hand(d)
  BY <1>2
<1> QED
  BY <1>1, <1>2, <1>3, <1>5, <1>6, <1>7, MovedRanks

(* ... and is the last of its caller there                                 *)
LEMMA PushLines ==
  ASSUME Shape, Ranks, Lines, NEW c \in Caller, Push(c)
  PROVE  Lines'
<1>1. UNCHANGED <<slot, wire, open, poll>>
  BY DEF Push, kernel, thread
<1>2. PICK r, m : /\ pipe' = Append(pipe, r) /\ r.kind = "send" /\ r.msg = m /\ r.id \in Id
                  /\ m = Hand(c) /\ InHand(c)
                  /\ \A t : Hands(t)' \subseteq Hands(t)
                  /\ \A t : \A x \in Hands(t) : \E d \in Caller \ {c} : InHand(d) /\ x = Hand(d)
  BY PushFacts
<1>3. \A x \in Placed : Before(x, m)
  BY <1>2 DEF Ranks, HandOK
<1>4. PipeInOrder'
  <2>1. \A x \in Asked(r.id) : x \in Placed
    BY <1>2, PlacedAre
  <2> QED
    BY <1>2, <1>3, <2>1, AskedMore DEF Lines
<1>5. ASSUME NEW t \in Slot PROVE DescriptorOK(t)'
  BY <1>1, DescriptorKept DEF Lines, InUse
<1>6. ASSUME NEW t \in Slot PROVE LineOK(t)'
  <2>1. CASE slot[t].fd \in open
    <3>1. PICK id \in Id : id = slot[t].fd
      BY <2>1 DEF Shape, TypeOK
    <3>2. Ordered(OnWire(id), slot[t].high, Direct(t), Asked(id), Hands(t), Sending(t))
      BY <2>1, <3>1 DEF Lines, LineOK, Line
    <3>3. \A x \in Hands(t) : Before(x, m)
      <4> TAKE x \in Hands(t)
      <4>1. PICK d \in Caller \ {c} : InHand(d) /\ x = Hand(d)
        BY <1>2
      <4> QED
        BY <1>2, <4>1, LatestOfAll DEF Ranks
    <3>4. \A x \in OnWire(id) \cup OfList(slot[t].high) \cup Direct(t) \cup Hands(t) : Before(x, m)
      <4>1. \A x \in OnWire(id) \cup OfList(slot[t].high) \cup Direct(t) : x \in Placed
        BY PlacedAre DEF Waiting
      <4> QED
        BY <1>3, <3>3, <4>1
    <3>5. Ordered(OnWire(id), slot[t].high, Direct(t), Asked(id) \cup {m}, Hands(t), Sending(t))
      BY <3>2, <3>4, OrderOfPush
    <3>6. OnWire(id)' = OnWire(id) /\ Asked(id)' \subseteq Asked(id) \cup {m}
      BY <1>1, <1>2, WireStays, AskedMore
    <3>7. Direct(t)' = Direct(t) /\ (Sending(t)' => Sending(t)) /\ slot'[t] = slot[t]
      BY <1>1 DEF Direct, Sending
    <3> QED
      BY <1>2, <3>1, <3>5, <3>6, <3>7, LineFrom
  <2>2. CASE slot[t].fd \notin open
    BY <1>1, <2>2, LineOfClosed
  <2> QED
    BY <2>1, <2>2
<1> QED
  BY <1>4, <1>5, <1>6 DEF Lines

(* Any step of a caller                                                    *)
Moves(c) ==
    \/ \E kind \in {"connect", "listen"} : Reserve(c, kind)
    \/ Reserved(c)
    \/ \E kind \in {"close", "shutdown", "start"}, id \in given : Request(c, kind, id)
    \/ \E id \in ready, low \in BOOLEAN : Send(c, id, low)
    \/ Look(c) \/ Try(c) \/ Recheck(c) \/ DirectWrite(c) \/ Store(c)
    \/ Inc(c) \/ Push(c)

(* A step of a caller keeps the messages where they are or moves its own.  *)
LEMMA CallRanks ==
  ASSUME Shape, Shape', Ranks, NEW c \in Caller, Moves(c)
  PROVE  Ranks'
  BY StillCalls, SendRanks, DirectWriteRanks, StoreRanks, PushRanks DEF Moves

(* A step of a caller keeps the lines.                                     *)
LEMMA CallLines ==
  ASSUME Shape, FreshOK, \A s \in Slot : CountOK(s), Ranks, Lines, NEW c \in Caller, Moves(c)
  PROVE  Lines'
<1>1. CASE \/ \E kind \in {"close", "shutdown", "start"}, id \in given : Request(c, kind, id)
           \/ Look(c) \/ Try(c) \/ Inc(c)
  <2>1. ~Recheck(c)
    BY <1>1 DEF Request, Call, Look, Try, Inc, Recheck
  <2> QED
    BY <1>1, <2>1, QuietCallLines DEF Lines
<1> QED
  BY <1>1, ReserveLines, ReservedLines, SendLines, RecheckLines, DirectWriteLines, StoreLines,
     PushLines DEF Moves
-----------------------------------------------------------------------------
(* Steps of the thread that send nothing                                   *)

(* No message moves, unless it is dropped.                                 *)
LEMMA QuietPollRanks ==
  ASSUME Shape, Shape', Ranks, [Next]_vars,
         \/ NoCommand \/ Open \/ OpenFailed \/ Listen \/ Start
         \/ Close("close") \/ Close("shutdown") \/ Decide \/ Dec
         \/ AllSent \/ EndClose \/ ClearClosed \/ Wait
         \/ Skip \/ ReportConnect \/ ReportAccept \/ Read
  PROVE  /\ Ranks' /\ QuietSlots /\ wire' = wire /\ calling' = calling
         /\ (\A id \in Id : Asked(id)' \subseteq Asked(id)) /\ (PipeInOrder => PipeInOrder')
<1>1. QuietSlots
  BY QuietPolls
<1>2. wire' = wire /\ calls' = calls /\ calling' = calling
  BY Zenon DEF NoCommand, Open, OpenFailed, Listen, Start, Close, Decide, Dec, AllSent, EndClose,
         ClearClosed, Wait, Skip, ReportConnect, ReportAccept, Read, kernel, services
<1>3. pipe' = pipe \/ (pipe # <<>> /\ pipe' = Tail(pipe))
  BY NoCounting DEF Dec
<1>4. (\A id \in Id : Asked(id)' \subseteq Asked(id)) /\ (PipeInOrder => PipeInOrder')
  BY <1>3, AskedLess
<1>5. HandsHeld
  BY <1>2, HandsStay DEF HandsHeld
<1>6. lost => lost'
  BY LostStays
<1>7. calls' >= calls
  BY <1>2 DEF Shape, TypeOK
<1> QED
  BY <1>1, <1>2, <1>3, <1>4, <1>5, <1>6, <1>7, StillRanks

(* The line of a slot that stays in use, or out of it                      *)
LEMMA QuietLine ==
  ASSUME Shape, Lines, QuietSlots, wire' = wire, calling' = calling,
         \A id \in Id : Asked(id)' \subseteq Asked(id), NEW t \in Slot,
         slot'[t].id = slot[t].id, slot'[t].fd = slot[t].fd, slot'[t].tcp = slot[t].tcp,
         slot[t].fd \in open' => slot[t].fd \in open, poll'.pc # "lists",
         \/ InUse(t)' /\ InUse(t) /\ ~(poll'.pc = "reopen" /\ poll'.s = t)
         \/ ~InUse(t)' /\ (InUse(t) => slot[t].fd \notin open')
  PROVE  DescriptorOK(t)' /\ LineOK(t)'
<1>1. DescriptorOK(t)'
  BY DEF Lines, DescriptorOK, InUse
<1>2. LineOK(t) /\ ~Sending(t)'
  BY DEF Lines, Sending
<1>3. \A id \in Id : slot[t].fd = id => OnWire(id)' = OnWire(id)
  BY WireStays
<1>4. slot'[t].high \in {slot[t].high, <<>>} /\ slot'[t].dw \in {slot[t].dw, None}
  BY DEF QuietSlots
<1>5. Hands(t)' \subseteq Hands(t)
  BY HandsStay
<1> QED
  BY <1>1, <1>2, <1>3, <1>4, <1>5, LineQuiet

(* No slot comes into use, or out of it.                                   *)
LEMMA ServeLines ==
  ASSUME Shape, Shape', Ranks, Lines, [Next]_vars, ~lost',
         \/ NoCommand \/ Start \/ Close("close") \/ Close("shutdown") \/ Decide
         \/ AllSent \/ ClearClosed \/ Wait \/ Skip \/ ReportConnect \/ Read
         \/ Dec \/ OpenFailed
  PROVE  Lines'
<1>1. /\ QuietSlots /\ wire' = wire /\ calling' = calling
      /\ \A id \in Id : Asked(id)' \subseteq Asked(id)
      /\ PipeInOrder'
  BY QuietPollRanks DEF Lines
<1>2. poll'.pc # "lists" /\ poll'.pc # "reopen"
  <2>1. ~Open
    BY Zenon DEF NoCommand, Start, Close, Decide, AllSent, ClearClosed, Wait, Skip, ReportConnect,
           Read, Dec, OpenFailed, Open, Command, Take, Established
  <2> QED
    BY <2>1, NotSending
<1>3. open' = open /\ \A t \in Slot : /\ slot'[t].id = slot[t].id /\ slot'[t].fd = slot[t].fd
                                      /\ slot'[t].tcp = slot[t].tcp
  <2>1. CASE Dec
    BY <2>1, DecShape DEF AllSame, Same, Dec, kernel
  <2>2. CASE OpenFailed
    BY Zenon, <2>2, OpenFailedShape DEF Kept, OpenFailed, kernel
  <2> QED
    BY <2>1, <2>2, ThreadServes DEF Serving
<1>4. ASSUME NEW t \in Slot PROVE InUse(t)' <=> InUse(t)
  <2>1. CASE OpenFailed
    <3>1. poll.pc = "reopen" /\ ~InUse(poll.s) /\ poll.s \in Slot
      BY Zenon, <2>1, OpenFailedShape DEF OpenFailed, Lines, DescriptorOK, InUse
    <3>2. t # poll.s => slot'[t].type = slot[t].type
      BY <2>1, OpenFailedShape
    <3>3. slot'[poll.s].type = "INVALID"
      <4>1. slot' = [slot EXCEPT ![poll.s].type = "INVALID"]
        BY Zenon, <2>1 DEF OpenFailed
      <4>2. slot[poll.s] \in Socket /\ slot \in [Slot -> Socket]
        BY <3>1 DEF Shape, TypeOK
      <4>3. slot'[poll.s] = [slot[poll.s] EXCEPT !.type = "INVALID"]
        BY <3>1, <4>1, <4>2
      <4> QED
        BY <4>2, <4>3 DEF Socket
    <3> QED
      BY <3>1, <3>2, <3>3 DEF InUse
  <2>2. CASE ~OpenFailed
    BY <2>2, UseKept
  <2> QED
    BY <2>1, <2>2
<1>5. ASSUME NEW t \in Slot PROVE DescriptorOK(t)' /\ LineOK(t)'
  <2>1. \/ InUse(t)' /\ InUse(t) /\ ~(poll'.pc = "reopen" /\ poll'.s = t)
        \/ ~InUse(t)' /\ (InUse(t) => slot[t].fd \notin open')
    BY <1>2, <1>4
  <2> QED
    BY <1>1, <1>2, <1>3, <2>1, QuietLine
<1> QED
  BY <1>1, <1>5 DEF Lines

(* A slot is freed, and its descriptor with it.                            *)
LEMMA EndCloseLines ==
  ASSUME Shape, Shape', Ranks, Lines, [Next]_vars, EndClose
  PROVE  Lines'
<1>1. /\ QuietSlots /\ wire' = wire /\ calling' = calling
      /\ \A id \in Id : Asked(id)' \subseteq Asked(id)
      /\ PipeInOrder'
  BY QuietPollRanks DEF Lines
<1>2. /\ poll.s \in Slot /\ open' = open \ {slot[poll.s].fd}
      /\ \A t \in Slot : Kept(t) /\ (t # poll.s => slot'[t].type = slot[t].type)
      /\ poll'.pc # "lists" /\ poll'.pc # "reopen"
  BY EndCloseShape DEF Resting
<1>3. slot'[poll.s].type = "INVALID"
  <2>1. slot' = [slot EXCEPT ![poll.s].type = "INVALID", ![poll.s].dw = None,
                             ![poll.s].dw_lock = FALSE]
    BY DEF EndClose
  <2>2. slot[poll.s] \in Socket /\ slot \in [Slot -> Socket]
    BY <1>2 DEF Shape, TypeOK
  <2>3. slot'[poll.s] = [slot[poll.s] EXCEPT !.type = "INVALID", !.dw = None, !.dw_lock = FALSE]
    BY <1>2, <2>1, <2>2
  <2> QED
    BY <2>2, <2>3 DEF Socket
<1>4. ASSUME NEW t \in Slot PROVE DescriptorOK(t)' /\ LineOK(t)'
  <2>1. \/ InUse(t)' /\ InUse(t) /\ ~(poll'.pc = "reopen" /\ poll'.s = t)
        \/ ~InUse(t)' /\ (InUse(t) => slot[t].fd \notin open')
    BY <1>2, <1>3 DEF InUse
  <2>2. slot'[t].id = slot[t].id /\ slot'[t].fd = slot[t].fd /\ slot'[t].tcp = slot[t].tcp
        /\ (slot[t].fd \in open' => slot[t].fd \in open)
    BY <1>2 DEF Kept
  <2> QED
    BY <1>1, <1>2, <2>1, <2>2, QuietLine
<1> QED
  BY <1>1, <1>4 DEF Lines

(* A slot gets a descriptor that nobody has asked to send to.              *)
LEMMA MadeLines ==
  ASSUME Shape, Lines, QuietSlots, wire' = wire, calling' = calling, PipeInOrder',
         \A i \in Id : Asked(i)' \subseteq Asked(i), poll'.pc \notin {"lists", "reopen"},
         NEW id \in Id, NEW s \in Slot, s = HASH_ID(id), id \notin ready, Empty(s),
         open' \subseteq open \cup {id},
         NEW type, type \notin {"INVALID", "RESERVE"}, NEW w,
         slot' = [slot EXCEPT ![s] = NewFd(s, id, type, w)]
  PROVE  Lines'
<1>1. slot[s] \in Socket
  BY SlotFields
<1>2. PICK r : slot' = [slot EXCEPT ![s] = r] /\ r = NewFd(s, id, type, w)
  OBVIOUS
<1>3. r.type = type /\ r.id = id /\ r.fd = id /\ r.tcp /\ r.dw = None /\ r.high = <<>>
  BY <1>1, <1>2 DEF NewFd, Socket, Empty
<1>4. slot'[s] = r /\ OthersStay(s)
  BY <1>2, OneStays
<1>5. DescriptorOK(s)'
  BY <1>3, <1>4 DEF DescriptorOK
<1>6. LineOK(s)'
  <2>1. Asked(id)' = {}
    BY NobodyAsks
  <2> QED
    BY <1>3, <1>4, <2>1, LineOfNone
<1>7. ASSUME NEW t \in Slot, t # s PROVE DescriptorOK(t)' /\ LineOK(t)'
  <2>1. slot'[t] = slot[t]
    BY <1>4, <1>7 DEF OthersStay
  <2>2. slot[t].fd # id
    <3>1. id # 0
      BY DEF Id
    <3> QED
      BY <1>7, <3>1 DEF Shape, SlotOK
  <2>3. slot[t].fd \in open' => slot[t].fd \in open
    BY <2>2
  <2>4. \/ InUse(t)' /\ InUse(t) /\ ~(poll'.pc = "reopen" /\ poll'.s = t)
        \/ ~InUse(t)' /\ (InUse(t) => slot[t].fd \notin open')
    BY <2>1 DEF InUse
  <2> QED
    BY <2>1, <2>3, <2>4, QuietLine
<1> QED
  BY <1>5, <1>6, <1>7 DEF Lines

(* ... for connect and listen: nobody has been told of the id              *)
LEMMA OpenLines ==
  ASSUME Shape, Shape', FreshOK, Ranks, Lines, [Next]_vars, Open \/ Listen, poll'.pc # "abort"
  PROVE  Lines'
<1>1. /\ QuietSlots /\ wire' = wire /\ calling' = calling
      /\ \A id \in Id : Asked(id)' \subseteq Asked(id)
      /\ PipeInOrder'
  BY QuietPollRanks DEF Lines
<1>2. pipe # <<>> /\ Opens(Head(pipe)) /\ poll'.pc # "lists"
  BY Zenon, NotSending DEF Open, Listen, Command, Opens
<1>3. PICK id \in Id, s \in Slot : id = Head(pipe).id /\ s = HASH_ID(id)
  BY <1>2, HeadOfPipe
<1>4. slot[s].type = "RESERVE" /\ id \notin ready /\ slot[s] \in Socket
  BY <1>2, <1>3, HeadOfPipe, SlotFields DEF FreshOK
<1>5. \/ /\ slot' = [slot EXCEPT ![s].type = "INVALID"] /\ open' = open
         /\ poll'.pc = "clear" \/ (poll'.pc = "reopen" /\ poll'.s = s)
      \/ /\ Empty(s) /\ open' \subseteq open \cup {id}
         /\ poll'.pc \notin {"lists", "reopen"}
         /\ \E type \in {"CONNECTED", "CONNECTING", "PLISTEN"} : \E w :
               slot' = [slot EXCEPT ![s] = NewFd(s, id, type, w)]
  <2>1. /\ At("abort").pc = "abort" /\ At("ctrl").pc = "ctrl"
        /\ \A t, i, by : In("clear", t, i, by).pc = "clear"
        /\ \A t, i, by : In("reopen", t, i, by).pc = "reopen" /\ In("reopen", t, i, by).s = t
    BY DEF At, In
  <2>2. CASE Open
    <3>1. \/ /\ slot' = [slot EXCEPT ![s].type = "INVALID"] /\ open' = open
             /\ \E by : poll' = In("clear", None, id, by) \/ poll' = In("reopen", s, id, by)
          \/ /\ Empty(s) /\ open' = open \cup {id} /\ poll' = At("ctrl")
             /\ \E type \in {"CONNECTED", "CONNECTING"} : \E w :
                   slot' = [slot EXCEPT ![s] = NewFd(s, id, type, w)]
      BY Zenon, <1>3, <2>1, <2>2 DEF Open, FreshSlot
    <3> QED
      BY <2>1, <3>1
  <2>3. CASE Listen
    <3>1. /\ Empty(s) /\ open' = open /\ poll' = At("ctrl")
          /\ slot' = [slot EXCEPT ![s] = NewFd(s, id, "PLISTEN", {})]
      BY <1>3, <2>1, <2>3 DEF Listen, FreshSlot, kernel
    <3> QED
      BY <2>1, <3>1
  <2> QED
    BY <2>2, <2>3
<1>6. CASE /\ slot' = [slot EXCEPT ![s].type = "INVALID"] /\ open' = open
           /\ poll'.pc = "clear" \/ (poll'.pc = "reopen" /\ poll'.s = s)
  <2>1. PICK r : slot' = [slot EXCEPT ![s] = r] /\ r = [slot[s] EXCEPT !.type = "INVALID"]
    BY <1>6
  <2>2. r.type = "INVALID" /\ r.id = slot[s].id /\ r.fd = slot[s].fd /\ r.tcp = slot[s].tcp
    BY <1>4, <2>1 DEF Socket
  <2>3. slot'[s] = r /\ OthersStay(s)
    BY <2>1, OneStays
  <2>4. ASSUME NEW t \in Slot PROVE DescriptorOK(t)' /\ LineOK(t)'
    <3>1. slot'[t].id = slot[t].id /\ slot'[t].fd = slot[t].fd /\ slot'[t].tcp = slot[t].tcp
      BY <2>2, <2>3 DEF OthersStay
    <3>2. \/ InUse(t)' /\ InUse(t) /\ ~(poll'.pc = "reopen" /\ poll'.s = t)
          \/ ~InUse(t)' /\ (InUse(t) => slot[t].fd \notin open')
      BY <1>4, <1>6, <2>2, <2>3 DEF OthersStay, InUse
    <3> QED
      BY <1>1, <1>2, <1>6, <3>1, <3>2, QuietLine
  <2> QED
    BY <1>1, <2>4 DEF Lines
<1>7. CASE /\ Empty(s) /\ open' \subseteq open \cup {id}
           /\ poll'.pc \notin {"lists", "reopen"}
           /\ \E type \in {"CONNECTED", "CONNECTING", "PLISTEN"} : \E w :
                 slot' = [slot EXCEPT ![s] = NewFd(s, id, type, w)]
  <2>1. PICK type \in {"CONNECTED", "CONNECTING", "PLISTEN"} :
          \E w : slot' = [slot EXCEPT ![s] = NewFd(s, id, type, w)]
    BY <1>7
  <2>2. type \notin {"INVALID", "RESERVE"}
    OBVIOUS
  <2>3. PICK w : slot' = [slot EXCEPT ![s] = NewFd(s, id, type, w)]
    BY <2>1
  <2> QED
    BY <1>1, <1>3, <1>4, <1>7, <2>2, <2>3, MadeLines
<1> QED
  BY <1>5, <1>6, <1>7

(* ... for an accepted connection: the id is new                           *)
LEMMA AcceptLines ==
  ASSUME Shape, Shape', Ranks, Lines, [Next]_vars, ReportAccept
  PROVE  Lines'
<1>1. /\ QuietSlots /\ wire' = wire /\ calling' = calling
      /\ \A id \in Id : Asked(id)' \subseteq Asked(id)
      /\ PipeInOrder'
  BY QuietPollRanks DEF Lines
<1>2. poll'.pc \notin {"lists", "reopen"}
  BY ReportAcceptShape DEF Resting
<1>3. CASE slot' = slot /\ open' = open
  <2>1. ASSUME NEW t \in Slot PROVE DescriptorOK(t)' /\ LineOK(t)'
    <3>1. \/ InUse(t)' /\ InUse(t) /\ ~(poll'.pc = "reopen" /\ poll'.s = t)
          \/ ~InUse(t)' /\ (InUse(t) => slot[t].fd \notin open')
      BY <1>2, <1>3 DEF InUse
    <3> QED
      BY <1>1, <1>2, <1>3, <3>1, QuietLine
  <2> QED
    BY <1>1, <2>1 DEF Lines
<1>4. CASE ~(slot' = slot /\ open' = open)
  <2>1. PICK id \in Id, s \in Slot, type \in {"PACCEPT"}, w \in {{}} :
          /\ id = Reservable /\ s = HASH_ID(id) /\ Empty(s) /\ open' = open \cup {id}
          /\ slot' = [slot EXCEPT ![s] = NewFd(s, id, type, w)]
    BY <1>4, HashInSlot DEF ReportAccept
  <2>2. id > alloc_id
    BY <1>4, <2>1, ReportAcceptShape
  <2>3. id \notin ready
    <3>1. \A i \in ready : i <= alloc_id /\ i \in Nat
      BY DEF Shape, KnownOK, TypeOK, Id
    <3>2. alloc_id \in Nat /\ id \in Nat
      BY DEF Shape, TypeOK, Id
    <3> QED
      BY <2>2, <3>1, <3>2
  <2>4. type \notin {"INVALID", "RESERVE"} /\ open' \subseteq open \cup {id}
    BY <2>1
  <2> QED
    BY <1>1, <1>2, <2>1, <2>3, <2>4, MadeLines
<1> QED
  BY <1>3, <1>4
-----------------------------------------------------------------------------
(* send_socket                                                             *)

(* The first request goes to the end of a list, or is dropped.             *)
LEMMA SendSocketFacts ==
  ASSUME Shape, SendSocket
  PROVE  \E id \in Id, m \in Message, s \in Slot :
            /\ pipe # <<>> /\ pipe' = Tail(pipe) /\ Head(pipe).kind = "send"
            /\ id = Head(pipe).id /\ m = Head(pipe).msg /\ s = HASH_ID(id)
            /\ UNCHANGED <<wire, open, calling, calls, lost>>
            /\ poll.pc = "ctrl" /\ poll'.pc = "count"
            /\ \/ slot' = slot
               \/ /\ OthersStay(s) /\ slot'[s].dw = slot[s].dw /\ Matches(id)
                  /\ \/ /\ slot'[s].high = Added(slot[s].high, Whole(m))
                        /\ slot'[s].low = slot[s].low
                     \/ /\ slot'[s].low = Added(slot[s].low, Whole(m)) /\ m.low
                        /\ slot'[s].high = slot[s].high
<1>1. PICK id \in Id, m \in Message, s \in Slot :
            /\ id = Head(pipe).id /\ m = Head(pipe).msg /\ s = HASH_ID(id)
            /\ \/ slot' = slot
               \/ /\ OthersStay(s) /\ slot'[s].dw = slot[s].dw /\ Matches(id)
                  /\ \/ /\ slot'[s].high = Added(slot[s].high, Whole(m))
                        /\ slot'[s].low = slot[s].low
                     \/ /\ slot'[s].low = Added(slot[s].low, Whole(m)) /\ m.low
                        /\ slot'[s].high = slot[s].high
  BY SendSocketMoves
<1>2. /\ pipe # <<>> /\ pipe' = Tail(pipe) /\ Head(pipe).kind = "send"
      /\ UNCHANGED <<wire, open, calling, calls, lost>> /\ poll.pc = "ctrl"
  BY Zenon DEF SendSocket, Command, kernel, services
<1>3. poll'.pc = "count"
  BY Zenon DEF SendSocket, In
<1> QED
  BY <1>1, <1>2, <1>3

(* A buffer of the whole message                                           *)
LEMMA WholeMessage == \A m \in Message : Whole(m) \in Buffer /\ Whole(m).msg = m
  BY WholeIsBuffer DEF Whole

(* The message moves from the pipe to the slot.                            *)
LEMMA SendSocketRanks ==
  ASSUME Shape, Shape', Ranks, SendSocket
  PROVE  Ranks'
<1>1. PICK id \in Id, m \in Message, s \in Slot :
            /\ pipe # <<>> /\ pipe' = Tail(pipe) /\ Head(pipe).kind = "send"
            /\ id = Head(pipe).id /\ m = Head(pipe).msg
            /\ UNCHANGED <<wire, calling, calls, lost>>
            /\ \/ slot' = slot
               \/ /\ OthersStay(s) /\ slot'[s].dw = slot[s].dw
                  /\ \/ /\ slot'[s].high = Added(slot[s].high, Whole(m))
                        /\ slot'[s].low = slot[s].low
                     \/ /\ slot'[s].low = Added(slot[s].low, Whole(m)) /\ m.low
                        /\ slot'[s].high = slot[s].high
  BY SendSocketFacts
<1>2. m \in Placed
  <2>1. m \in Asked(id)
    BY <1>1, HeadIsFirst
  <2> QED
    BY <2>1, PlacedAre
<1>3. \A i \in Id : Asked(i)' \subseteq Asked(i) \cup {m}
  BY <1>1, AskedLess
<1>4. WireOK' /\ OwnOrder' /\ \A i \in Id : OnWire(i)' \subseteq OnWire(i) \cup {m}
  BY <1>1, WireStays, OwnOrderStays DEF Ranks
<1>5. HandsHeld
  BY <1>1, HandsStay DEF HandsHeld
<1>6. \A h \in Seq(Buffer) : OfList(Added(h, Whole(m))) = OfList(h) \cup {m}
  BY WholeMessage, MessagesOfAdded
<1>7. /\ LowOK' /\ \A t \in Slot : Waiting(t)' \subseteq Waiting(t) \cup {m}
  <2>1. CASE slot' = slot
    BY <2>1 DEF Ranks, LowOK, Waiting, Direct
  <2>2. CASE slot' # slot
    <3>1. slot[s].high \in Seq(Buffer) /\ slot[s].low \in Seq(Buffer)
      BY SlotFields
    <3>2. /\ OfList(slot'[s].high) \subseteq OfList(slot[s].high) \cup {m}
          /\ OfList(slot'[s].low) = OfList(slot[s].low) \/
               (m.low /\ OfList(slot'[s].low) = OfList(slot[s].low) \cup {m})
      BY <1>1, <1>6, <2>2, <3>1
    <3>3. Direct(s)' = Direct(s)
      BY <1>1, <2>2 DEF Direct
    <3>4. \A t \in Slot : t # s => Waiting(t)' = Waiting(t) /\ slot'[t].low = slot[t].low
      BY <1>1, <2>2 DEF OthersStay, Waiting, Direct
    <3>5. Waiting(s)' \subseteq Waiting(s) \cup {m}
      BY <3>2, <3>3 DEF Waiting
    <3>6. LowOK'
      BY <3>2, <3>4 DEF Ranks, LowOK
    <3> QED
      BY <3>4, <3>5, <3>6
  <2> QED
    BY <2>1, <2>2
<1> QED
  BY <1>1, <1>2, <1>3, <1>4, <1>5, <1>7, MovedRanks

(* ... behind those asked for before it                                    *)
LEMMA SendSocketLines ==
  ASSUME Shape, Lines, SendSocket
  PROVE  Lines'
<1>1. PICK id \in Id, m \in Message, s \in Slot :
            /\ pipe # <<>> /\ pipe' = Tail(pipe) /\ Head(pipe).kind = "send"
            /\ id = Head(pipe).id /\ m = Head(pipe).msg /\ s = HASH_ID(id)
            /\ UNCHANGED <<wire, open, calling, lost>>
            /\ poll.pc = "ctrl" /\ poll'.pc = "count"
            /\ \/ slot' = slot
               \/ /\ OthersStay(s) /\ slot'[s].dw = slot[s].dw /\ Matches(id)
                  /\ \/ slot'[s].high = Added(slot[s].high, Whole(m))
                     \/ slot'[s].high = slot[s].high
  BY SendSocketFacts
<1>2. (\A i \in Id : Asked(i)' \subseteq Asked(i)) /\ PipeInOrder'
  BY <1>1, AskedLess DEF Lines
<1>3. \A i \in Id : OnWire(i)' = OnWire(i)
  BY <1>1, WireStays
<1>4. \A t \in Slot : slot'[t].id = slot[t].id /\ slot'[t].fd = slot[t].fd
                      /\ slot'[t].tcp = slot[t].tcp
  BY ThreadServes DEF Serving
<1>5. \A t \in Slot : DescriptorOK(t)'
  <2>1. CASE ~lost'
    <3>1. \A t \in Slot : InUse(t)' <=> InUse(t)
      BY <2>1, UseKept
    <3> QED
      BY <1>1, <1>4, <3>1, DescriptorKept DEF Lines
  <2>2. CASE lost'
    <3>1. slot' = slot \/ \E t \in Slot : Updates(t)
      BY SendSocketUpdates
    <3>2. \A t \in Slot : slot'[t].type = slot[t].type
      BY <3>1, UpdatesKeep DEF AllSame, Same
    <3> QED
      BY <1>1, <1>4, <3>2, DescriptorKept DEF Lines, InUse
  <2> QED
    BY <2>1, <2>2
<1>6. ASSUME NEW t \in Slot, slot'[t].high = slot[t].high, slot'[t].dw = slot[t].dw
      PROVE  LineOK(t)'
  <2>1. LineOK(t) /\ ~Sending(t)' /\ Hands(t)' \subseteq Hands(t)
    BY <1>1, HandsStay DEF Lines, Sending
  <2> QED
    BY <1>1, <1>2, <1>3, <1>4, <1>6, <2>1, LineQuiet
<1>7. ASSUME OthersStay(s), slot'[s].dw = slot[s].dw, Matches(id),
             slot'[s].high = Added(slot[s].high, Whole(m))
      PROVE  LineOK(s)'
  <2>1. CASE slot[s].fd \in open
    <3>1. slot[s].fd = id
      BY <1>1, <1>7, <2>1 DEF Lines, DescriptorOK, Matches
    <3>2. Ordered(OnWire(id), slot[s].high, Direct(s), Asked(id), Hands(s), Sending(s))
      BY <2>1, <3>1 DEF Lines, LineOK, Line
    <3>3. m \in Asked(id) /\ \A y \in Asked(id)' : Before(m, y)
      BY <1>1, HeadIsFirst DEF Lines
    <3>4. Whole(m) \in Buffer /\ Whole(m).msg = m /\ slot[s].high \in Seq(Buffer)
      BY WholeMessage, SlotFields
    <3>5. PICK P2 \in SUBSET Asked(id) : P2 = Asked(id)'
      BY <1>2
    <3>6. Ordered(OnWire(id), Added(slot[s].high, Whole(m)), Direct(s), P2, Hands(s), FALSE)
      <4>1. PICK b \in Buffer : b = Whole(m)
        BY <3>4
      <4>2. b.msg \in Asked(id) /\ \A y \in P2 : Before(b.msg, y)
        BY <3>3, <3>4, <3>5, <4>1
      <4> QED
        BY <3>2, <3>4, <4>1, <4>2, OrderOfQueue
    <3> PICK h \in {Added(slot[s].high, Whole(m))}, L \in {FALSE} : h = Added(slot[s].high, Whole(m)) /\ ~L
      OBVIOUS
    <3>7. Direct(s)' = Direct(s) /\ ~Sending(s)' /\ Hands(s)' \subseteq Hands(s)
      BY <1>1, <1>7, HandsStay DEF Direct, Sending
    <3>8. Ordered(OnWire(id)', h, Direct(s), P2, Hands(s), L)
      BY <1>3, <3>6
    <3>9. slot'[s].fd \in Id => slot'[s].fd = id
      BY <1>4, <3>1
    <3>10. slot'[s].high \in {h, <<>>} /\ (Sending(s)' => L \/ Direct(s)' = {})
      BY <1>7, <3>7
    <3> QED
      BY <3>5, <3>7, <3>8, <3>9, <3>10, LineFrom
  <2>2. CASE slot[s].fd \notin open
    BY <1>1, <1>4, <2>2, LineOfClosed
  <2> QED
    BY <2>1, <2>2
<1>8. ASSUME NEW t \in Slot PROVE LineOK(t)'
  <2>1. CASE slot' = slot
    BY <1>6, <2>1
  <2>2. CASE OthersStay(s) /\ t # s
    BY <1>6, <2>2 DEF OthersStay
  <2>3. CASE slot' # slot /\ t = s
    BY <1>1, <1>6, <1>7, <2>3
  <2> QED
    BY <1>1, <2>1, <2>2, <2>3
<1> QED
  BY <1>2, <1>5, <1>8 DEF Lines
-----------------------------------------------------------------------------
(* send_buffer up to the lists                                             *)

(* The thread takes the rest of a direct write, or another has the lock.   *)
LEMMA TakeFacts ==
  ASSUME Shape, SendBuffer \/ Writable
  PROVE  \E s \in Slot :
            /\ UNCHANGED <<wire, open, pipe, calling, calls, lost>> /\ poll'.pc # "reopen"
            /\ \/ slot' = [slot EXCEPT ![s] = TakeDirect(s)] /\ poll'.s = s
               \/ slot' = [slot EXCEPT ![s].dw_lock = TRUE] /\ poll'.pc # "lists"
<1>1. UNCHANGED <<wire, open, pipe, calling, calls, lost>>
  BY DEF SendBuffer, Writable, kernel, services
<1>2. CASE SendBuffer
  <2>1. PICK s \in Slot : s = poll.s
    BY <1>2 DEF SendBuffer, Shape, PollOK
  <2>2. \A pc : [poll EXCEPT !.pc = pc].pc = pc /\ [poll EXCEPT !.pc = pc].s = s
    BY Zenon, <2>1 DEF Shape, TypeOK, Work
  <2>3. \/ slot' = [slot EXCEPT ![s] = TakeDirect(s)] /\ poll' = [poll EXCEPT !.pc = "lists"]
        \/ slot' = [slot EXCEPT ![s].dw_lock = TRUE] /\ poll' = [poll EXCEPT !.pc = "decide"]
    BY <1>2, <2>1 DEF SendBuffer
  <2> QED
    BY <1>1, <2>2, <2>3
<1>3. CASE Writable
  <2>1. PICK s \in Slot : s = EventSlot
    BY <1>3, EventsShrink DEF Writable, Established, Take
  <2>2. \/ /\ slot' = [slot EXCEPT ![s] = TakeDirect(s)]
           /\ \E id, by : poll' = In("lists", s, id, by)
        \/ slot' = [slot EXCEPT ![s].dw_lock = TRUE] /\ NextEvent(Tail(ev))
    BY <1>3, <2>1 DEF Writable
  <2>3. \A id, by : In("lists", s, id, by).pc = "lists" /\ In("lists", s, id, by).s = s
    BY DEF In
  <2>4. NextEvent(Tail(ev)) => poll'.pc \notin {"lists", "reopen"}
    <3>1. \A pc : At(pc).pc = pc
      BY DEF At
    <3> QED
      BY <3>1 DEF NextEvent
  <2> QED
    BY <1>1, <2>2, <2>3, <2>4
<1> QED
  BY <1>2, <1>3

(* To take the lock moves no message.                                      *)
LEMMA LockIsQuiet ==
  ASSUME Shape, NEW s \in Slot, slot' = [slot EXCEPT ![s].dw_lock = TRUE]
  PROVE  QuietSlots
<1>1. PICK r : slot' = [slot EXCEPT ![s] = r] /\ r = [slot[s] EXCEPT !.dw_lock = TRUE]
  OBVIOUS
<1>2. r.high = slot[s].high /\ r.low = slot[s].low /\ r.dw = slot[s].dw
  BY <1>1, SlotFields DEF Socket
<1> QED
  BY <1>1, <1>2, QuietOne

(* What is taken from dw_buffer waits as before.                           *)
LEMMA TakeKeeps ==
  ASSUME Shape, NEW s \in Slot, slot' = [slot EXCEPT ![s] = TakeDirect(s)]
  PROVE  \A t \in Slot : slot'[t].low = slot[t].low /\ Waiting(t)' = Waiting(t)
<1>1. /\ OthersStay(s) /\ slot'[s].low = slot[s].low /\ slot'[s].dw = None
      /\ slot[s].dw = None => slot'[s].high = slot[s].high
      /\ slot[s].dw # None => /\ slot[s].dw \in Buffer
                              /\ slot'[s].high = Joined(<<slot[s].dw>>, slot[s].high)
  BY TakeDirectMoves
<1>2. \A t \in Slot : t # s => slot'[t].low = slot[t].low /\ Waiting(t)' = Waiting(t)
  BY <1>1 DEF OthersStay, Waiting, Direct
<1>3. Waiting(s)' = Waiting(s)
  <2>1. CASE slot[s].dw = None
    BY <1>1, <2>1 DEF Waiting, Direct
  <2>2. CASE slot[s].dw # None
    <3>1. OfList(slot'[s].high) = OfList(slot[s].high) \cup {slot[s].dw.msg}
      BY <1>1, <2>2, SlotFields, MessagesOfCons
    <3>2. Direct(s)' = {} /\ Direct(s) = {slot[s].dw.msg}
      BY <1>1, <2>2 DEF Direct
    <3> QED
      BY <1>1, <3>1, <3>2 DEF Waiting
  <2> QED
    BY <2>1, <2>2
<1> QED
  BY <1>1, <1>2, <1>3

(* The rest moves to the head of the high list.                            *)
LEMMA TakeRanks ==
  ASSUME Shape, Shape', Ranks, SendBuffer \/ Writable
  PROVE  Ranks'
<1>1. PICK s \in Slot :
            /\ UNCHANGED <<wire, pipe, calling, calls, lost>>
            /\ \/ slot' = [slot EXCEPT ![s] = TakeDirect(s)]
               \/ slot' = [slot EXCEPT ![s].dw_lock = TRUE]
  BY TakeFacts
<1>2. LowOK' /\ \A t \in Slot : Waiting(t)' \subseteq Waiting(t)
  <2>1. CASE slot' = [slot EXCEPT ![s] = TakeDirect(s)]
    BY <2>1, TakeKeeps DEF Ranks, LowOK
  <2>2. CASE slot' = [slot EXCEPT ![s].dw_lock = TRUE]
    BY <2>2, LockIsQuiet, LowLess, WaitingLess DEF Ranks
  <2> QED
    BY <1>1, <2>1, <2>2
<1>3. \A id \in Id : Asked(id)' \subseteq Asked(id)
  BY <1>1, AskedLess
<1>4. WireOK' /\ OwnOrder' /\ \A id \in Id : OnWire(id)' = OnWire(id)
  BY <1>1, WireStays, OwnOrderStays DEF Ranks
<1>5. HandsHeld
  BY <1>1, HandsStay DEF HandsHeld
<1>6. \A m \in Placed' : m \in Placed
  <2>1. \A x : x \in Placed' => \/ \E id \in Id : x \in OnWire(id)'
                                \/ \E id \in Id : x \in Asked(id)'
                                \/ \E t \in Slot : x \in Waiting(t)'
    BY DEF Placed
  <2> QED
    BY <1>2, <1>3, <1>4, <2>1, PlacedAre
<1>7. HandOK'
  <2>1. calls' \in Int /\ calls' >= calls
    BY <1>1 DEF Shape, TypeOK
  <2>2. \A m \in Placed' : m \in Placed \/ \E c \in Caller : InHand(c) /\ m = Hand(c)
    BY <1>6
  <2> QED
    BY <1>5, <2>1, <2>2, HandsKept DEF Ranks, HandsHeld
<1> QED
  BY <1>2, <1>4, <1>7 DEF Ranks

(* ... and still comes before the others there: from here on nothing may   *)
(* be written directly                                                     *)
LEMMA TakeLines ==
  ASSUME Shape, Lines, ~lost', SendBuffer \/ Writable
  PROVE  Lines'
<1>1. PICK s \in Slot :
            /\ UNCHANGED <<wire, open, pipe, calling>> /\ poll'.pc # "reopen"
            /\ \/ slot' = [slot EXCEPT ![s] = TakeDirect(s)] /\ poll'.s = s
               \/ slot' = [slot EXCEPT ![s].dw_lock = TRUE] /\ poll'.pc # "lists"
  BY TakeFacts
<1>2. (\A i \in Id : Asked(i)' \subseteq Asked(i)) /\ PipeInOrder'
  BY <1>1, AskedLess DEF Lines
<1>3. \A i \in Id : OnWire(i)' = OnWire(i)
  BY <1>1, WireStays
<1>4. \A t \in Slot : slot'[t].id = slot[t].id /\ slot'[t].fd = slot[t].fd
                      /\ slot'[t].tcp = slot[t].tcp
  BY ThreadServes DEF Serving
<1>5. \A t \in Slot : DescriptorOK(t)'
  <2>1. \A t \in Slot : InUse(t)' <=> InUse(t)
    BY UseKept
  <2> QED
    BY <1>1, <1>4, <2>1, DescriptorKept DEF Lines
<1>6. ASSUME NEW t \in Slot, ~Sending(t)',
             slot'[t].high \in {slot[t].high, <<>>}, slot'[t].dw \in {slot[t].dw, None}
      PROVE  LineOK(t)'
  <2>1. LineOK(t) /\ Hands(t)' \subseteq Hands(t)
    BY <1>1, HandsStay DEF Lines
  <2> QED
    BY <1>1, <1>2, <1>3, <1>4, <1>6, <2>1, LineQuiet
<1>7. CASE slot' = [slot EXCEPT ![s].dw_lock = TRUE] /\ poll'.pc # "lists"
  <2>1. QuietSlots
    BY <1>7, LockIsQuiet
  <2>2. \A t \in Slot : LineOK(t)'
    BY <1>6, <1>7, <2>1 DEF QuietSlots, Sending
  <2> QED
    BY <1>2, <1>5, <2>2 DEF Lines
<1>8. CASE slot' = [slot EXCEPT ![s] = TakeDirect(s)] /\ poll'.s = s
  <2>1. /\ OthersStay(s) /\ slot'[s].dw = None
        /\ slot[s].dw = None => slot'[s].high = slot[s].high
        /\ slot[s].dw # None => /\ slot[s].dw \in Buffer
                                /\ slot'[s].high = Joined(<<slot[s].dw>>, slot[s].high)
    BY <1>8, TakeDirectMoves
  <2>2. ASSUME NEW t \in Slot, t # s PROVE LineOK(t)'
    <3>1. slot'[t] = slot[t] /\ ~Sending(t)'
      BY <1>8, <2>1, <2>2 DEF OthersStay, Sending
    <3> QED
      BY <1>6, <3>1
  <2>3. LineOK(s)'
    <3>1. CASE slot[s].fd \in open
      <4>1. PICK id \in Id : id = slot[s].fd
        BY <3>1 DEF Shape, TypeOK
      <4>2. Ordered(OnWire(id), slot[s].high, Direct(s), Asked(id), Hands(s), Sending(s))
        BY <3>1, <4>1 DEF Lines, LineOK, Line
      <4>3. Direct(s)' = {} /\ Hands(s)' \subseteq Hands(s) /\ (slot'[s].fd \in Id => slot'[s].fd = id)
        BY <1>1, <1>4, <2>1, <4>1, HandsStay DEF Direct
      <4>4. CASE slot[s].dw = None
        BY <1>2, <1>3, <2>1, <4>2, <4>3, <4>4, LineFrom
      <4>5. CASE slot[s].dw # None
        <5>1. PICK b \in Buffer : b = slot[s].dw
          BY <2>1, <4>5
        <5>2. slot[s].high \in Seq(Buffer) /\ Direct(s) = {b.msg}
          BY <4>5, <5>1, SlotFields DEF Direct
        <5>3. Ordered(OnWire(id), Joined(<<b>>, slot[s].high), {}, Asked(id), Hands(s), TRUE)
          BY <4>2, <5>2, OrderOfTake
        <5>4. PICK h \in {Joined(<<b>>, slot[s].high)}, D \in {{}}, L \in {TRUE} :
                Ordered(OnWire(id)', h, D, Asked(id), Hands(s), L)
          BY <1>3, <5>3
        <5>5. slot'[s].high \in {h, <<>>} /\ (Sending(s)' => L \/ Direct(s)' = {})
              /\ Direct(s)' \subseteq D
          BY <2>1, <4>3, <4>5, <5>1
        <5> QED
          BY <1>2, <4>3, <5>4, <5>5, LineFrom
      <4> QED
        BY <4>4, <4>5
    <3>2. CASE slot[s].fd \notin open
      BY <1>1, <1>4, <3>2, LineOfClosed
    <3> QED
      BY <3>1, <3>2
  <2> QED
    BY <1>2, <1>5, <2>2, <2>3 DEF Lines
<1> QED
  BY <1>1, <1>7, <1>8
-----------------------------------------------------------------------------
(* send_list_tcp                                                           *)

(* One write of the foremost buffer, and where the thread goes then        *)
LEMMA SendListFacts ==
  ASSUME Shape, SendList
  PROVE  \E s \in Slot, b \in Buffer : \E m \in {b.msg} :
            /\ UNCHANGED <<open, pipe, calling, calls, lost>>
            /\ poll.pc = "lists" /\ poll.s = s
            /\ poll'.pc # "reopen" /\ (poll'.pc = "lists" => poll'.s = s)
            /\ OthersStay(s) /\ slot'[s].dw = slot[s].dw
            /\ m = Foremost(s).msg /\ m \in Message
            /\ (wire' = wire \/ (slot[s].fd \in open /\ Writes(slot[s].fd, Foremost(s))))
            /\ Foremost(s) \in Buffer /\ Passes(s, b)
<1>1. PICK s \in Slot : s = poll.s
  BY Zenon DEF SendList, Shape, PollOK
<1>2. /\ OthersStay(s) /\ slot'[s].dw = slot[s].dw /\ Foremost(s) \in Buffer
      /\ wire' = wire \/ (slot[s].fd \in open /\ Writes(slot[s].fd, Foremost(s)))
      /\ \E b \in Buffer : b.msg = Foremost(s).msg /\ Passes(s, b)
  BY <1>1, SendListMoves
<1>3. PICK b \in Buffer : b.msg = Foremost(s).msg /\ Passes(s, b)
  BY <1>2
<1>4. b.msg \in Message
  BY DEF Buffer
<1>5. UNCHANGED <<open, pipe, calling, calls, lost>> /\ poll.pc = "lists"
  BY Zenon DEF SendList, services
<1>6. poll'.pc # "reopen" /\ (poll'.pc = "lists" => poll'.s = s)
  <2>1. [poll EXCEPT !.pc = "decide"].pc = "decide"
    BY Zenon DEF Shape, TypeOK, Work
  <2>2. \A pc : At(pc).pc = pc
    BY DEF At
  <2>3. NextEvent(ev) => poll'.pc \notin {"lists", "reopen"}
    BY <2>2 DEF NextEvent
  <2>4. \A sl : Sent(sl) => poll'.pc \notin {"lists", "reopen"}
    BY Zenon, <2>1, <2>3 DEF Sent
  <2>5. poll' = poll \/ \E sl : Sent(sl)
    BY Zenon DEF SendList
  <2> QED
    BY <1>1, <1>5, <2>4, <2>5
<1> QED
  BY <1>1, <1>2, <1>3, <1>4, <1>5, <1>6

(* What the lists hold after the head of one has passed                    *)
LEMMA ListsAfter ==
  ASSUME Shape, LowOK, NEW s \in Slot, NEW b \in Buffer, Passes(s, b), b.msg = Foremost(s).msg
  PROVE  /\ b.msg \in Waiting(s)
         /\ OfList(slot'[s].high) \subseteq OfList(slot[s].high) \cup {b.msg}
         /\ OfList(slot'[s].low) \subseteq OfList(slot[s].low)
         /\ slot[s].high = <<>> => b.msg.low
<1>1. slot[s].high \in Seq(Buffer) /\ slot[s].low \in Seq(Buffer)
  BY SlotFields
<1>2. ASSUME NEW q \in Seq(Buffer), q # <<>>, b.msg = Head(q).msg
      PROVE  /\ b.msg \in OfList(q) /\ OfList(Tail(q)) \subseteq OfList(q)
             /\ OfList(Joined(<<b>>, Tail(q))) \subseteq OfList(q)
  <2>1. OfList(q) = OfList(Tail(q)) \cup {b.msg}
    BY <1>2, MessagesOfTail
  <2>2. Tail(q) \in Seq(Buffer)
    BY <1>2
  <2>3. OfList(Joined(<<b>>, Tail(q))) = OfList(Tail(q)) \cup {b.msg}
    <3> DEFINE rest == Tail(q)
    <3>1. rest \in Seq(Buffer)
      BY <2>2
    <3> HIDE DEF rest
    <3>2. OfList(Joined(<<b>>, rest)) = OfList(rest) \cup {b.msg}
      BY <3>1, MessagesOfCons
    <3> QED
      BY <3>2 DEF rest
  <2> QED
    BY <2>1, <2>3
<1>3. CASE slot[s].high # <<>>
  <2>1. b.msg = Head(slot[s].high).msg /\ slot'[s].low = slot[s].low
        /\ slot'[s].high \in {Tail(slot[s].high), Joined(<<b>>, Tail(slot[s].high))}
    BY <1>3 DEF Foremost, Passes
  <2>2. /\ b.msg \in OfList(slot[s].high) /\ OfList(Tail(slot[s].high)) \subseteq OfList(slot[s].high)
        /\ OfList(Joined(<<b>>, Tail(slot[s].high))) \subseteq OfList(slot[s].high)
    BY <1>1, <1>2, <1>3, <2>1
  <2> QED
    BY <1>3, <2>1, <2>2 DEF Waiting
<1>4. CASE slot[s].high = <<>>
  <2>1. b.msg = Head(slot[s].low).msg /\ slot[s].low # <<>>
        /\ slot'[s].high \in {<<>>, <<b>>}
        /\ slot'[s].low \in {Tail(slot[s].low), Joined(<<b>>, Tail(slot[s].low))}
    BY <1>4 DEF Foremost, Passes
  <2>2. /\ b.msg \in OfList(slot[s].low) /\ OfList(Tail(slot[s].low)) \subseteq OfList(slot[s].low)
        /\ OfList(Joined(<<b>>, Tail(slot[s].low))) \subseteq OfList(slot[s].low)
    BY <1>1, <1>2, <2>1
  <2>3. OfList(<<>>) = {} /\ OfList(<<b>>) = {b.msg}
    BY DEF OfList
  <2> QED
    BY <2>1, <2>2, <2>3 DEF Waiting, LowOK
<1> QED
  BY <1>3, <1>4

(* What is written is the latest on the wire: it was the foremost.         *)
LEMMA SendListRanks ==
  ASSUME Shape, Shape', Ranks, Sound => Lines, SendList
  PROVE  Ranks'
<1>1. PICK s \in Slot, b \in Buffer : \E x \in {b.msg} :
            /\ UNCHANGED <<open, pipe, calling, calls, lost>>
            /\ poll.pc = "lists" /\ poll.s = s
            /\ OthersStay(s) /\ slot'[s].dw = slot[s].dw
            /\ x = Foremost(s).msg /\ x \in Message
            /\ (wire' = wire \/ (slot[s].fd \in open /\ Writes(slot[s].fd, Foremost(s))))
            /\ Foremost(s) \in Buffer /\ Passes(s, b)
  BY SendListFacts
<1>2. PICK m \in {b.msg} : m = b.msg
  OBVIOUS
<1>3. /\ m \in Waiting(s)
      /\ OfList(slot'[s].high) \subseteq OfList(slot[s].high) \cup {m}
      /\ OfList(slot'[s].low) \subseteq OfList(slot[s].low)
      /\ slot[s].high = <<>> => m.low
  BY <1>1, <1>2, ListsAfter DEF Ranks
<1>4. m \in Placed
  BY <1>3, PlacedAre
<1>5. LowOK' /\ \A t \in Slot : Waiting(t)' \subseteq Waiting(t) \cup {m}
  <2>1. \A t \in Slot : t # s => Waiting(t)' = Waiting(t) /\ slot'[t].low = slot[t].low
    BY <1>1 DEF OthersStay, Waiting, Direct
  <2>2. Direct(s)' = Direct(s)
    BY <1>1 DEF Direct
  <2>3. Waiting(s)' \subseteq Waiting(s) \cup {m}
    BY <1>3, <2>2 DEF Waiting
  <2>4. LowOK'
    BY <1>3, <2>1 DEF Ranks, LowOK
  <2> QED
    BY <2>1, <2>3, <2>4
<1>6. \A id \in Id : Asked(id)' \subseteq Asked(id) \cup {m}
  BY <1>1, AskedLess
<1>7. HandsHeld
  BY <1>1, HandsStay DEF HandsHeld
<1>8. WireOK' /\ OwnOrder' /\ \A id \in Id : OnWire(id)' \subseteq OnWire(id) \cup {m}
  <2>1. CASE wire' = wire
    BY <1>1, <2>1, WireStays, OwnOrderStays DEF Ranks
  <2>2. CASE slot[s].fd \in open /\ Writes(slot[s].fd, Foremost(s))
    <3>1. PICK to \in Id, buf \in Buffer : to = slot[s].fd /\ buf = Foremost(s) /\ Writes(to, buf)
      BY <1>1, <2>2 DEF Shape, TypeOK
    <3>2. buf.msg = m
      BY <1>1, <1>2, <3>1
    <3>3. /\ WireOK' /\ \A id \in Id : OnWire(id)' \subseteq OnWire(id) \cup {buf.msg}
          /\ /\ \A id \in Id : Sorted(wire[id])
             /\ \A x \in OnWire(to) : Before(x, buf.msg)
             => \A id \in Id : Sorted(wire'[id])
      BY <3>1, WireMoves DEF Ranks
    <3>4. ASSUME ~lost PROVE \A x \in OnWire(to) : Before(x, m)
      <4>1. Lines
        BY <1>1, <3>4 DEF Sound
      <4>2. Ordered(OnWire(to), slot[s].high, Direct(s), Asked(to), Hands(s), Sending(s))
        BY <2>2, <3>1, <4>1 DEF Lines, LineOK, Line
      <4>3. CASE slot[s].high = <<>>
        BY <1>3, <4>3 DEF Before
      <4>4. CASE slot[s].high # <<>>
        <5>1. Head(slot[s].high).msg = m /\ slot[s].high \in Seq(Buffer)
          BY <1>1, <1>2, <4>4, SlotFields DEF Foremost
        <5>2. m \in OfList(slot[s].high)
          BY <4>4, <5>1, MessagesOfTail
        <5> QED
          BY <4>2, <5>2 DEF Ordered
      <4> QED
        BY <4>3, <4>4
    <3>5. OwnOrder' <=> (~lost' => \A id \in Id : Sorted(wire'[id]))
      <4>1. OwnOrder' <=> (~lost => \A id \in Id : Sorted(wire[id]))'
        BY OwnOrderIsSorted, PTL
      <4> QED
        BY <4>1
    <3> QED
      BY <1>1, <3>2, <3>3, <3>4, <3>5, OwnOrderIsSorted DEF Ranks
  <2> QED
    BY <1>1, <2>1, <2>2
<1> QED
  BY <1>1, <1>4, <1>5, <1>6, <1>7, <1>8, MovedRanks

(* What is left still comes before the others, and no caller writes to the *)
(* slot meanwhile.                                                         *)
LEMMA SendListLines ==
  ASSUME Shape, Ranks, Lines, ~lost', SendList
  PROVE  Lines'
<1>1. PICK s \in Slot, b \in Buffer : \E x \in {b.msg} :
            /\ UNCHANGED <<open, pipe, calling, calls, lost>>
            /\ poll.pc = "lists" /\ poll.s = s
            /\ poll'.pc # "reopen" /\ (poll'.pc = "lists" => poll'.s = s)
            /\ OthersStay(s) /\ slot'[s].dw = slot[s].dw
            /\ x = Foremost(s).msg /\ x \in Message
            /\ (wire' = wire \/ (slot[s].fd \in open /\ Writes(slot[s].fd, Foremost(s))))
            /\ Foremost(s) \in Buffer /\ Passes(s, b)
  BY SendListFacts
<1>2. (\A i \in Id : Asked(i)' \subseteq Asked(i)) /\ PipeInOrder'
  BY <1>1, AskedLess DEF Lines
<1>3. \A t \in Slot : slot'[t].id = slot[t].id /\ slot'[t].fd = slot[t].fd
                      /\ slot'[t].tcp = slot[t].tcp
  BY ThreadServes DEF Serving
<1>4. \A t \in Slot : DescriptorOK(t)'
  <2>1. \A t \in Slot : InUse(t)' <=> InUse(t)
    BY UseKept
  <2> QED
    BY <1>1, <1>3, <2>1, DescriptorKept DEF Lines
<1>5. \A t \in Slot : Hands(t)' \subseteq Hands(t)
  BY <1>1, HandsStay
<1>6. ASSUME NEW to \in Id, slot[s].fd = to
      PROVE  /\ OnWire(to)' \subseteq OnWire(to) \cup {b.msg}
             /\ \A id \in Id : id # to => OnWire(id)' = OnWire(id)
  <2>1. CASE wire' = wire
    BY <2>1, WireStays
  <2>2. CASE Writes(to, Foremost(s))
    <3>1. PICK buf \in Buffer : buf = Foremost(s) /\ Writes(to, buf) /\ buf.msg = b.msg
      BY <1>1, <2>2
    <3> QED
      BY <3>1, WireMoves DEF Ranks
  <2> QED
    BY <1>1, <1>6, <2>1, <2>2
<1>7. ASSUME NEW t \in Slot, t # s PROVE LineOK(t)'
  <2>1. slot'[t] = slot[t] /\ ~Sending(t)' /\ LineOK(t)
    BY <1>1, <1>7 DEF OthersStay, Sending, Lines
  <2>2. ASSUME NEW id \in Id, slot[t].fd = id PROVE OnWire(id)' = OnWire(id)
    <3>1. CASE slot[s].fd \in open
      <4>1. PICK to \in Id : to = slot[s].fd
        BY <3>1 DEF Shape, TypeOK
      <4>2. id # to
        BY <1>7, <2>2, <4>1, DescriptorsDiffer
      <4> QED
        BY <1>6, <4>1, <4>2
    <3>2. CASE slot[s].fd \notin open
      BY <1>1, <3>2, WireStays
    <3> QED
      BY <3>1, <3>2
  <2> QED
    BY <1>1, <1>2, <1>5, <2>1, <2>2, LineQuiet
<1>8. LineOK(s)'
  <2>1. CASE slot[s].fd \in open
    <3>1. PICK id \in Id, m \in {b.msg} : id = slot[s].fd
      BY <2>1 DEF Shape, TypeOK
    <3>2. Ordered(OnWire(id), slot[s].high, Direct(s), Asked(id), Hands(s), TRUE)
      BY <1>1, <2>1, <3>1 DEF Lines, LineOK, Line, Sending
    <3>3. PICK W2 \in SUBSET (OnWire(id) \cup {m}) : W2 = OnWire(id)'
      BY <1>6, <3>1
    <3>4. PICK h2 \in {slot'[s].high}, L \in {TRUE} : h2 = slot'[s].high
      OBVIOUS
    <3>5. Ordered(W2, h2, Direct(s), Asked(id), Hands(s), L)
      <4>1. CASE slot[s].high # <<>>
        <5>1. /\ m = Head(slot[s].high).msg /\ b.msg = m
              /\ h2 \in {Tail(slot[s].high), Joined(<<b>>, Tail(slot[s].high))}
          BY <1>1, <3>4, <4>1 DEF Foremost, Passes
        <5>2. slot[s].high \in Seq(Buffer) /\ m.n \in Int
          <6>1. m \in Message
            BY <1>1
          <6> QED
            BY <6>1, SlotFields, SocketAssumption DEF Message
        <5>3. PICK h \in Seq(Buffer) : h = slot[s].high
          BY <5>2
        <5>4. Comes(Head(h).msg, OnWire(id), W2) /\ Head(h).msg.n \in Int
              /\ b.msg = Head(h).msg /\ h # <<>> /\ Leaves(b, h, h2)
          BY <4>1, <5>1, <5>2, <5>3 DEF Comes, Leaves
        <5>5. Ordered(OnWire(id), h, Direct(s), Asked(id), Hands(s), TRUE)
          BY <3>2, <5>3
        <5> QED
          BY <5>4, <5>5, OrderOfSend
      <4>2. CASE slot[s].high = <<>>
        <5>1. m.low /\ b.msg = m
          BY <1>1, <4>2, ListsAfter DEF Ranks
        <5>2. Rises(b, h2)
          BY <1>1, <3>4, <4>2 DEF Passes, Rises
        <5>3. Comes(b.msg, OnWire(id), W2) /\ b.msg.low
          BY <5>1 DEF Comes
        <5>4. PICK h \in {<<>>}, W \in {OnWire(id)} : h = slot[s].high /\ W = OnWire(id)
          BY <4>2
        <5>5. h = <<>> /\ Comes(b.msg, W, W2)
          BY <5>3, <5>4
        <5>6. Ordered(W, h, Direct(s), Asked(id), Hands(s), TRUE)
          BY <3>2, <5>4
        <5>7. Ordered(W2, h2, Direct(s), Asked(id), Hands(s), TRUE)
          BY <5>2, <5>3, <5>5, <5>6, OrderOfLow
        <5> QED
          BY <5>7
      <4> QED
        BY <4>1, <4>2
    <3>6. Ordered(OnWire(id)', h2, Direct(s), Asked(id), Hands(s), L)
      BY <3>3, <3>5
    <3>7. slot'[s].high \in {h2, <<>>} /\ Direct(s)' \subseteq Direct(s)
          /\ (Sending(s)' => L \/ Direct(s)' = {}) /\ (slot'[s].fd \in Id => slot'[s].fd = id)
      BY <1>1, <1>3, <3>1, <3>4 DEF Direct
    <3> QED
      BY <1>2, <1>5, <3>6, <3>7, LineFrom
  <2>2. CASE slot[s].fd \notin open
    BY <1>1, <1>3, <2>2, LineOfClosed
  <2> QED
    BY <2>1, <2>2
<1> QED
  BY <1>2, <1>4, <1>7, <1>8 DEF Lines
-----------------------------------------------------------------------------
(* The theorem                                                             *)

(* There is no message yet.                                                *)
LEMMA OrderInit == Init => OInv
<1> SUFFICES ASSUME Init PROVE OInv
  OBVIOUS
<1>1. IInv
  BY SendingInit
<1>2. /\ \A id \in Id : OnWire(id) = {} /\ Asked(id) = {}
      /\ \A s \in Slot : Waiting(s) = {} /\ slot[s].high = <<>> /\ slot[s].low = <<>>
                         /\ Direct(s) = {}
  BY MessagesOfNone DEF Init, OnWire, Asked, Requests, Waiting, Direct
<1>3. WireOK
  BY DEF Init, WireOK
<1>4. HandOK
  BY DEF Init, HandOK, InHand, Idle, Placed, OnWire, Asked, Requests, Waiting, Direct, OfList
<1>5. LowOK
  BY <1>2, MessagesOfNone DEF LowOK
<1>6. OwnOrder
  BY DEF Init, OwnOrder
<1>7. PipeInOrder
  BY DEF Init, PipeInOrder
<1>8. \A s \in Slot : DescriptorOK(s) /\ LineOK(s)
  BY Zenon DEF Init, DescriptorOK, LineOK, At
<1> QED
  BY <1>1, <1>3, <1>4, <1>5, <1>6, <1>7, <1>8 DEF OInv

(* Nothing happens.                                                        *)
LEMMA OrderStutters ==
  ASSUME UNCHANGED vars
  PROVE  (Ranks => Ranks') /\ (Lines => Lines')
<1>1. /\ slot' = slot /\ pipe' = pipe /\ poll' = poll /\ calling' = calling /\ open' = open
      /\ wire' = wire /\ calls' = calls /\ lost' = lost
  BY DEF vars
<1>2. /\ \A id : OnWire(id)' = OnWire(id) /\ Asked(id)' = Asked(id)
      /\ \A s : Waiting(s)' = Waiting(s) /\ Direct(s)' = Direct(s) /\ (Sending(s)' <=> Sending(s))
  BY <1>1 DEF OnWire, Asked, Requests, Waiting, Direct, Sending, OfList
<1>3. /\ \A c : (InHand(c)' <=> InHand(c)) /\ Hand(c)' = Hand(c)
      /\ \A s : Hands(s)' = Hands(s)
  BY <1>1 DEF InHand, Hand, Hands, Writing
<1>4. (WireOK => WireOK') /\ (LowOK => LowOK') /\ (OwnOrder => OwnOrder')
  BY <1>1 DEF WireOK, LowOK, OwnOrder, OfList
<1>5. HandOK => HandOK'
  BY <1>1, <1>2, <1>3 DEF HandOK, Placed
<1>6. PipeInOrder => PipeInOrder'
  BY <1>1 DEF PipeInOrder
<1>7. ASSUME NEW s \in Slot PROVE (DescriptorOK(s) => DescriptorOK(s)') /\ (LineOK(s) => LineOK(s)')
  <2>1. DescriptorOK(s) => DescriptorOK(s)'
    BY <1>1 DEF DescriptorOK
  <2>2. LineOK(s) => LineOK(s)'
    BY <1>1, <1>2, <1>3 DEF LineOK, Line
  <2> QED
    BY <2>1, <2>2
<1> QED
  BY <1>4, <1>5, <1>6, <1>7 DEF Ranks, Lines

(* Every step keeps where messages can be and what a caller has in hand.   *)
LEMMA RanksStep ==
  ASSUME Shape, Shape', Ranks, Sound => Lines, [Next]_vars
  PROVE  Ranks'
<1>1. CASE Calls
  <2>1. PICK c \in Caller : Moves(c)
    BY <1>1 DEF Calls, Moves
  <2> QED
    BY <2>1, CallRanks
<1>2. CASE SendSocket \/ SendBuffer \/ Writable \/ SendList
  BY <1>2, SendSocketRanks, TakeRanks, SendListRanks
<1>3. CASE Polls /\ ~(SendSocket \/ SendBuffer \/ Writable \/ SendList)
  BY <1>3, QuietPollRanks DEF Polls
<1> QED
  BY <1>1, <1>2, <1>3, OrderStutters, StepIs

(* Every step keeps the lines, while no slot is taken from who reserves it.*)
LEMMA LinesStep ==
  ASSUME Shape, Shape', FreshOK, \A s \in Slot : CountOK(s), Ranks, Lines, [Next]_vars, Sound'
  PROVE  Lines'
<1>1. ~lost' /\ poll'.pc # "abort"
  BY DEF Sound
<1>2. CASE Calls
  <2>1. PICK c \in Caller : Moves(c)
    BY <1>2 DEF Calls, Moves
  <2> QED
    BY <2>1, CallLines
<1>3. CASE SendSocket \/ SendBuffer \/ Writable \/ SendList
  BY <1>1, <1>3, SendSocketLines, TakeLines, SendListLines
<1>4. CASE Open \/ Listen \/ ReportAccept \/ EndClose
  BY <1>1, <1>4, OpenLines, AcceptLines, EndCloseLines
<1>5. CASE Polls /\ ~(SendSocket \/ SendBuffer \/ Writable \/ SendList)
           /\ ~(Open \/ Listen \/ ReportAccept \/ EndClose)
  BY <1>1, <1>5, ServeLines DEF Polls
<1> QED
  BY <1>2, <1>3, <1>4, <1>5, OrderStutters, StepIs

(* The invariant is inductive.                                             *)
LEMMA OrderStep ==
  ASSUME OInv, [Next]_vars
  PROVE  OInv'
<1>1. IInv /\ Shape /\ Ranks /\ (Sound => Lines)
  BY DEF OInv, IInv, Ranks, Lines
<1>2. IInv' /\ Shape'
  BY <1>1, SendingStep, StepShape
<1>3. Ranks'
  BY <1>1, <1>2, RanksStep
<1>4. ASSUME Sound' PROVE Lines'
  <2>1. Sound
    BY <1>1, <1>4, SoundBefore
  <2>2. Lines /\ FreshOK /\ \A s \in Slot : CountOK(s)
    BY <1>1, <2>1 DEF IInv
  <2> QED
    BY <1>1, <1>2, <1>4, <2>2, LinesStep
<1> QED
  BY <1>2, <1>3, <1>4 DEF OInv, Ranks, Lines

(* One caller's messages to one socket, those of low priority aside, come  *)
(* to the wire in the order of its calls, whether can_direct_write let the *)
(* caller write itself, its rest was kept for send_buffer, or the pipe and *)
(* the high list took the message there: while no slot has been taken from *)
(* who reserved it.                                                        *)
THEOREM OwnOrderHolds == Spec => []OwnOrder
<1>1. Init => OInv
  BY OrderInit
<1>2. OInv /\ [Next]_vars => OInv'
  BY OrderStep
<1>3. OInv => OwnOrder
  BY DEF OInv
<1> QED
  BY <1>1, <1>2, <1>3, PTL DEF Spec
=============================================================================
