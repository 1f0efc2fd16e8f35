------------------------------- MODULE Harbor -------------------------------
(***************************************************************************)
(* service-src/service_harbor.cc: the harbor service of each node, which   *)
(* sends the messages of its node's services to the other nodes.           *)
(*                                                                         *)
(* A message goes to a handle, whose high byte is the node, or to a global *)
(* name.  It waits in a queue for the node's connection or for the name.   *)
(* The node's slave service (Cluster.tla) commands the harbor in box, and  *)
(* the harbor asks and tells the slave in text.  A connection carries a    *)
(* sequence of packets; how push_socket_data cuts the bytes it reads into  *)
(* packets is abstracted.                                                  *)
(***************************************************************************)
EXTENDS Integers, Sequences, FiniteSets, SequencesExt

CONSTANTS
    Node,          \* harbor ids, also the service of a node that has a name
    Name,          \* global names
    None

VARIABLES
    peer,          \* peer[h][x]: h's struct slave for node x, and the bytes from
                   \* h to x that the harbor of x has yet to read
    name,          \* name[h][k]: h's entry in the map for name k
    box,           \* box[h]: commands from h's slave to h's harbor
    text,          \* text[h]: messages from h's harbor to h's slave
    sent,          \* sent[h][x]: messages by handle that h has been given for x
    got            \* got[h][x]: the last of x's messages by handle that h delivered

harbor == <<peer, name, box, text, sent, got>>

(* What travels: the handshake's harbor id, or a message; to is the handle *)
(* in its header, None for handle 0.                                       *)
Id(h) == [via |-> "id", seq |-> 0, to |-> h]
Message(via, seq, to) == [via |-> via, seq |-> seq, to |-> to]

Slave == [fd     |-> FALSE,   \* fd # 0
          status |-> "WAIT",  \* WAIT, HANDSHAKE, HEADER (for CONTENT too), DOWN
          queue  |-> <<>>,
          wire   |-> <<>>,
          cut    |-> FALSE,   \* the connection is gone
          told   |-> FALSE]   \* and the harbor has been told

HarborInit ==
    /\ peer = [h \in Node |-> [x \in Node |-> Slave]]
    /\ name = [h \in Node |-> [k \in Name |-> [value |-> None, queue |-> <<>>]]]
    /\ box = [h \in Node |-> <<>>] /\ text = [h \in Node |-> <<>>]
    /\ sent = [h \in Node |-> [x \in Node |-> 0]]
    /\ got = [h \in Node |-> [x \in Node |-> 0]]

(* send_remote and snownet_socket_send; a broken connection takes nothing. *)
Write(s, items) == IF s.cut THEN s ELSE [s EXCEPT !.wire = @ \o items]

(* dispatch_queue *)
DispatchQueue(s) == [Write(s, s.queue) EXCEPT !.queue = <<>>]

Told(h, what) == text' = [text EXCEPT ![h] = Append(@, what)]

-----------------------------------------------------------------------------
(* Messages from the node's services (PTYPE_SYSTEM).                       *)

(* A mutant: a node that has a descriptor is sent to.                      *)
RoutedNoHandshake(s, m) ==
    IF s.fd THEN Write(s, <<m>>) ELSE [s EXCEPT !.queue = Append(@, m)]

(* remote_send_handle, to another node: the queue until the handshake is   *)
(* over; the message is dropped and its source told of an error if the     *)
(* node is down and has no descriptor, which is never reset.               *)
Routed(s, m) ==
    CASE s.fd /\ s.status # "HANDSHAKE"    -> Write(s, <<m>>)
      [] ~s.fd /\ s.status = "DOWN"        -> s
      [] OTHER                             -> [s EXCEPT !.queue = Append(@, m)]

SendHandle(h, x) ==
    /\ h # x
    /\ sent' = [sent EXCEPT ![h][x] = @ + 1]
    /\ peer' = [peer EXCEPT ![h][x] = Routed(@, Message("handle", sent'[h][x], x))]
    /\ UNCHANGED <<name, box, text, got>>

(* remote_send_name; a name of this node is delivered by snownet_send.     *)
SendName(h, k) ==
    LET v == name[h][k].value
    IN  /\ \/ /\ v = None
              /\ name' = [name EXCEPT ![h][k].queue =
                              Append(@, Message("name", 0, None))]
              /\ Told(h, <<"Q", k>>)
              /\ UNCHANGED peer
           \/ /\ v # None
              /\ peer' = IF v = h THEN peer
                         ELSE [peer EXCEPT ![h][v] = Routed(@, Message("name", 0, v))]
              /\ UNCHANGED <<name, text>>
        /\ UNCHANGED <<box, sent, got>>

-----------------------------------------------------------------------------
(* Commands from the slave (PTYPE_HARBOR).                                 *)

(* dispatch_name_queue for a name that is now at v: only what is sent at   *)
(* once gets v into its header; what is moved to v's queue does not, and   *)
(* what is for this node is delivered.                                     *)
DispatchName(h, v, queue) ==
    LET addressed == [i \in DOMAIN queue |-> [queue[i] EXCEPT !.to = v]]
    IN  CASE v = h -> peer
          [] v # h /\ peer[h][v].fd ->
                 [peer EXCEPT ![h][v] = Write(@, addressed)]
          [] OTHER -> [peer EXCEPT ![h][v].queue =
                           IF peer[h][v].status = "DOWN" THEN @ ELSE @ \o queue]

(* N k v: update_name. *)
UpdateName(h, k, v) ==
    /\ name' = [name EXCEPT ![h][k] = [value |-> v, queue |-> <<>>]]
    /\ peer' = DispatchName(h, v, name[h][k].queue)

(* S x: a connection this node has made; its id is sent, x's awaited.      *)
Shake(h, x) ==
    peer' = [peer EXCEPT ![h][x] =
                Write([@ EXCEPT !.fd = TRUE, !.status = "HANDSHAKE"], <<Id(h)>>)]

(* A mutant: what waits for the node is left in its queue.                 *)
WelcomeNoQueue(h, x, n) ==
    peer' = [peer EXCEPT
                ![h][x] = Write([@ EXCEPT !.fd = TRUE, !.status = "HEADER"], <<Id(h)>>),
                ![x][h].wire = SubSeq(@, n + 1, Len(@))]

(* A x: a connection x has made; the queue follows the id at once.  What x *)
(* has sent so far went to the slave, which has read x's id and dropped    *)
(* the rest of what it got: n packets.                                     *)
Welcome(h, x, n) ==
    peer' = [peer EXCEPT
                ![h][x] = DispatchQueue(Write([@ EXCEPT !.fd = TRUE,
                                                        !.status = "HEADER"], <<Id(h)>>)),
                ![x][h].wire = SubSeq(@, n + 1, Len(@))]

(* A node that has a descriptor already keeps it.                          *)
Connect(h, command, x) ==
    IF peer[h][x].fd THEN UNCHANGED peer
    ELSE IF command = "S" THEN Shake(h, x)
    ELSE \E n \in 0..Len(peer[x][h].wire) : Welcome(h, x, n)

HarborCommand(h) ==
    /\ box[h] # <<>>
    /\ box' = [box EXCEPT ![h] = Tail(@)]
    /\ LET c == Head(box[h])
       IN  \/ /\ c[1] = "N" /\ UpdateName(h, c[2], c[3])
           \/ /\ c[1] # "N" /\ Connect(h, c[1], c[2])
              /\ UNCHANGED name
    /\ UNCHANGED <<text, sent, got>>

-----------------------------------------------------------------------------
(* Socket messages (PTYPE_SOCKET).                                         *)

(* close_harbor: the descriptor stays in the entry.                        *)
CloseHarbor(s) == [s EXCEPT !.status = "DOWN", !.queue = <<>>, !.cut = TRUE]

(* push_socket_data: a packet from x.  The handshake's id starts the       *)
(* queue; a message goes to its handle, or is answered with an error if    *)
(* there is no such service; a packet over 16M ends the connection.        *)
HarborData(h, x) ==
    LET s == peer[h][x]
        m == Head(peer[x][h].wire)
        read == [peer EXCEPT ![x][h].wire = Tail(@)]
        here == [peer[x][h] EXCEPT !.wire = Tail(@)]
    IN  /\ s.fd /\ peer[x][h].wire # <<>>
        /\ CASE s.status = "HANDSHAKE" ->
                  peer' = [read EXCEPT ![h][x] =
                               IF m = Id(x) THEN DispatchQueue([@ EXCEPT !.status = "HEADER"])
                                            ELSE CloseHarbor(@)]
             [] s.status = "HEADER" /\ m.via = "long" ->
                  peer' = [peer EXCEPT ![h][x] = [CloseHarbor(@) EXCEPT !.wire = <<>>],
                                       ![x][h] = [here EXCEPT !.cut = TRUE, !.wire = <<>>]]
             [] s.status = "HEADER" /\ m.via = "name" /\ m.to = None ->
                  peer' = [read EXCEPT ![h][x] = Routed(@, Message("error", 0, x))]
             [] OTHER -> peer' = read
        /\ got' = IF s.status = "HEADER" /\ m.via = "handle"
                  THEN [got EXCEPT ![h][x] = m.seq] ELSE got
        /\ UNCHANGED <<name, box, text, sent>>

(* CLOSE or ERROR of the socket: report_harbor_down, and nothing else.     *)
HarborClosed(h, x) ==
    /\ peer[h][x].fd /\ peer[h][x].cut /\ ~peer[h][x].told
    /\ peer' = [peer EXCEPT ![h][x].told = TRUE]
    /\ Told(h, <<"D", x>>)
    /\ UNCHANGED <<name, box, sent, got>>

(* A message of more than 16M, which send_remote takes.                    *)
SendLong(h, x) ==
    /\ h # x
    /\ peer' = [peer EXCEPT ![h][x] = Routed(@, Message("long", 0, x))]
    /\ UNCHANGED <<name, box, text, sent, got>>

(* The connection between h and x breaks, with what was on it.             *)
Cut(p, h, x) ==
    [p EXCEPT ![h][x] = [@ EXCEPT !.cut = TRUE, !.wire = <<>>],
              ![x][h] = [@ EXCEPT !.cut = TRUE, !.wire = <<>>]]

(* The messages by handle from h that x has yet to get, in order: on the   *)
(* wire, then in the queue.                                                *)
OnTheWay(h, x) ==
    LET all == peer[h][x].wire \o peer[h][x].queue
        byHandle == SelectSeq(all, LAMBDA m : m.via = "handle")
    IN  [i \in DOMAIN byHandle |-> byHandle[i].seq]

(* While the connection lasts, what one node sends to a service of another *)
(* by its handle arrives once, in order and without a gap, whether it was  *)
(* sent before the nodes were connected, during the handshake or after.    *)
HandlesInOrder ==
    \A h, x \in Node :
        ~peer[h][x].cut =>
            OnTheWay(h, x) = [i \in 1..sent[h][x] - got[x][h] |-> got[x][h] + i]
=============================================================================
