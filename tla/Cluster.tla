------------------------------ MODULE Cluster ------------------------------
(***************************************************************************)
(* service/cslave.lua and service/cmaster.lua over Harbor.tla: how the     *)
(* nodes of a harbor network find each other and each other's names.       *)
(*                                                                         *)
(* Each node's slave service has one connection to the master.  The master *)
(* tells every registered slave of a new one (C), tells the new one how    *)
(* many will connect to it (W), hands out names (N) and reports slaves     *)
(* that are gone (D).  The slave makes or accepts the connections between  *)
(* the nodes and hands them to its harbor.                                 *)
(*                                                                         *)
(* A Lua handler runs from one yield to the next: monitor_master, the      *)
(* forked ready and each accepted connection are coroutines of a slave     *)
(* that yield in socket.read and socket.open.                              *)
(***************************************************************************)
EXTENDS Harbor

CONSTANTS
    Crowds         \* bound: the nodes that may take part, what the services
                   \* of each may ask, with "fault", and how many in all

VARIABLES
    crowd,         \* one of Crowds
    phase,         \* phase[n]: how far n's slave has started
    want,          \* want[n]: the n of W n
    slaves,        \* slaves[n][x]: "nil", "up" (a descriptor) or "false"
    early,         \* connect_queue of n, while n's slave is not ready
    dialing,       \* dialing[n]: what monitor_master is connecting to, or None
    readying,      \* readying[n]: what ready is connecting to, or None
    arrived,       \* arrived[x]: the nodes whose connections x has yet to accept
    globalname,    \* globalname[n][k]
    queryname,     \* queryname[n]: names with responses that wait for them
    monitor,       \* monitor[n][x]: the kinds of requests that wait for x
    up,            \* up[n]: from n's slave to the master
    dn,            \* dn[n]: from the master to n's slave
    gone,          \* the nodes whose connection to the master is broken
    slave_node,    \* slave_node[n]: the master's "nil", "up" (v.fd # 0) or "zero"
    global_name,   \* the master's names
    ops,           \* how many of crowd.ops there have been
    faulty         \* there has been a fault

slaveVars  == <<phase, want, slaves, early, dialing, readying, arrived>>
nameVars   == <<globalname, queryname>>
masterVars == <<slave_node, global_name>>
bounds     == <<crowd, ops, faulty>>
vars == <<harbor, slaveVars, nameVars, monitor, up, dn, gone, masterVars, bounds>>

Init ==
    /\ HarborInit
    /\ crowd \in Crowds
    /\ phase = [n \in Node |-> "off"] /\ want = [n \in Node |-> 0]
    /\ slaves = [n \in Node |-> [x \in Node |-> "nil"]]
    /\ early = [n \in Node |-> {}]
    /\ dialing = [n \in Node |-> None] /\ readying = [n \in Node |-> None]
    /\ arrived = [n \in Node |-> {}]
    /\ globalname = [n \in Node |-> [k \in Name |-> None]]
    /\ queryname = [n \in Node |-> {}]
    /\ monitor = [n \in Node |-> [x \in Node |-> {}]]
    /\ up = [n \in Node |-> <<>>] /\ dn = [n \in Node |-> <<>>] /\ gone = {}
    /\ slave_node = [n \in Node |-> "nil"] /\ global_name = [k \in Name |-> None]
    /\ ops = 0 /\ faulty = FALSE

Alive(n) == phase[n] \notin {"off", "down"}

ToMaster(n, m) == up' = IF n \in gone THEN up ELSE [up EXCEPT ![n] = Append(@, m)]
ToHarbor(n, cmds) == box' = [box EXCEPT ![n] = @ \o cmds]

-----------------------------------------------------------------------------
(* cmaster.lua                                                             *)

(* To every slave whose connection is there.                               *)
Broadcast(nodes, m) ==
    [n \in Node |-> IF n \in nodes THEN Append(dn[n], m) ELSE dn[n]]

Registered == {n \in Node : slave_node[n] = "up"}

(* handshake with report_slave *)
MasterHandshake(n) ==
    /\ up[n] # <<>> /\ slave_node[n] = "nil" /\ Head(up[n]) = <<"H">>
    /\ up' = [up EXCEPT ![n] = Tail(@)]
    /\ dn' = [Broadcast(Registered, <<"C", n>>)
                  EXCEPT ![n] = Append(@, <<"W", Cardinality(Registered)>>)]
    /\ slave_node' = [slave_node EXCEPT ![n] = "up"]
    /\ UNCHANGED <<harbor, slaveVars, nameVars, monitor, gone, global_name, bounds>>

(* dispatch_slave: R registers a name, and everybody is told the address   *)
(* that came, even if another one is kept; Q asks for one.                 *)
MasterDispatch(n) ==
    /\ up[n] # <<>> /\ slave_node[n] = "up"
    /\ up' = [up EXCEPT ![n] = Tail(@)]
    /\ LET m == Head(up[n])
       IN  \/ /\ m[1] = "R"
              /\ global_name' = [global_name EXCEPT ![m[2]] = IF @ = None THEN m[3] ELSE @]
              /\ dn' = Broadcast(Registered, <<"N", m[2], m[3]>>)
           \/ /\ m[1] = "Q"
              /\ dn' = IF global_name[m[2]] = None THEN dn
                       ELSE Broadcast({n}, <<"N", m[2], global_name[m[2]]>>)
              /\ UNCHANGED global_name
    /\ UNCHANGED <<harbor, slaveVars, nameVars, monitor, gone, slave_node, bounds>>

(* monitor_slave after a read has failed.                                  *)
MasterDown(n) ==
    /\ n \in gone /\ up[n] = <<>> /\ slave_node[n] = "up"
    /\ slave_node' = [slave_node EXCEPT ![n] = "zero"]
    /\ dn' = Broadcast(Registered \ {n}, <<"D", n>>)
    /\ UNCHANGED <<harbor, slaveVars, nameVars, monitor, up, gone, global_name, bounds>>

-----------------------------------------------------------------------------
(* cslave.lua: the start.                                                  *)

Listen(n) ==
    /\ phase[n] = "off" /\ n \in crowd.nodes
    /\ phase' = [phase EXCEPT ![n] = "hello"]
    /\ ToMaster(n, <<"H">>)
    /\ UNCHANGED <<harbor, want, slaves, early, dialing, readying, arrived, nameVars,
                   monitor, dn, gone, masterVars, bounds>>

(* W n: with nobody to wait for the listening socket is closed at once.    *)
ReadW(n) ==
    /\ phase[n] = "hello" /\ dn[n] # <<>>
    /\ dn' = [dn EXCEPT ![n] = Tail(@)]
    /\ want' = [want EXCEPT ![n] = Head(dn[n])[2]]
    /\ phase' = [phase EXCEPT ![n] = IF want'[n] = 0 THEN "shaken" ELSE "waiting"]
    /\ UNCHANGED <<harbor, slaves, early, dialing, readying, arrived, nameVars, monitor,
                   up, gone, masterVars, bounds>>

Queueing(n) == phase[n] \in {"hello", "waiting", "shaken"}    \* connect_queue # nil

(* ready: what was queued is connected to, one after the other, and then   *)
(* the harbor gets the names.                                              *)
Ready(n) ==
    /\ phase[n] = "shaken"
    /\ phase' = [phase EXCEPT ![n] = "connecting"]
    /\ UNCHANGED <<harbor, want, slaves, early, dialing, readying, arrived, nameVars,
                   monitor, up, dn, gone, masterVars, bounds>>

ReadyDials(n, x) ==
    /\ phase[n] = "connecting" /\ readying[n] = None /\ x \in early[n]
    /\ early' = [early EXCEPT ![n] = @ \ {x}]
    /\ readying' = [readying EXCEPT ![n] = IF slaves[n][x] = "nil" THEN x ELSE None]
    /\ UNCHANGED <<harbor, phase, want, slaves, dialing, arrived, nameVars, monitor, up,
                   dn, gone, masterVars, bounds>>

ReadyNames(n) ==
    /\ phase[n] = "connecting" /\ readying[n] = None /\ early[n] = {}
    /\ phase' = [phase EXCEPT ![n] = "ready"]
    /\ \E order \in SetToSeqs({k \in Name : globalname[n][k] # None}) :
           ToHarbor(n, [i \in DOMAIN order |->
                            <<"N", order[i], globalname[n][order[i]]>>])
    /\ UNCHANGED <<peer, name, text, sent, got, want, slaves, early, dialing, readying,
                   arrived, nameVars, monitor, up, dn, gone, masterVars, bounds>>

-----------------------------------------------------------------------------
(* cslave.lua: connections.                                                *)

(* The slave's entry for x is set, and whoever waits for it is answered    *)
(* (monitor_clear).                                                        *)
Enter(n, x, value) ==
    /\ slaves' = [slaves EXCEPT ![n][x] = value]
    /\ monitor' = [monitor EXCEPT ![n][x] = {}]

Listening(x) == phase[x] \in {"hello", "waiting"}

(* connect_slave after socket.open: refused if nobody listens at x.        *)
Opened(n, x) ==
    \/ /\ Listening(x)
       /\ arrived' = [arrived EXCEPT ![x] = @ \cup {n}]
       /\ Enter(n, x, "up")
       /\ ToHarbor(n, <<<<"S", x>>>>)
    \/ /\ ~Listening(x)
       /\ UNCHANGED <<arrived, slaves, monitor, box>>

DialOpened(n) ==
    /\ dialing[n] # None /\ Opened(n, dialing[n])
    /\ dialing' = [dialing EXCEPT ![n] = None]
    /\ UNCHANGED <<peer, name, text, sent, got, phase, want, early, readying, nameVars,
                   up, dn, gone, masterVars, bounds>>

ReadyOpened(n) ==
    /\ readying[n] # None /\ Opened(n, readying[n])
    /\ readying' = [readying EXCEPT ![n] = None]
    /\ UNCHANGED <<peer, name, text, sent, got, phase, want, early, dialing, nameVars,
                   up, dn, gone, masterVars, bounds>>

(* accept_slave, when n's id has come or the connection has ended, and the *)
(* count of entries after it, false ones included.                         *)
AcceptSlave(x, n) ==
    /\ phase[x] \notin {"off", "hello", "down"} /\ n \in arrived[x]
    /\ peer[n][x].wire # <<>> \/ peer[n][x].cut
    /\ arrived' = [arrived EXCEPT ![x] = @ \ {n}]
    /\ LET accepted == ~peer[n][x].cut /\ slaves[x][n] = "nil"
           entries == {m \in Node : slaves'[x][m] # "nil"}
       IN  /\ peer' = CASE accepted        -> [peer EXCEPT ![n][x].wire = Tail(@)]
                        [] peer[n][x].cut  -> peer
                        [] OTHER           -> Cut(peer, n, x)
           /\ IF accepted THEN Enter(x, n, "up") /\ ToHarbor(x, <<<<"A", n>>>>)
                          ELSE UNCHANGED <<slaves, monitor, box>>
           /\ phase' = IF phase[x] = "waiting" /\ Cardinality(entries) >= want[x]
                       THEN [phase EXCEPT ![x] = "shaken"] ELSE phase
    /\ UNCHANGED <<name, text, sent, got, want, early, dialing, readying, nameVars, up,
                   dn, gone, masterVars, bounds>>

-----------------------------------------------------------------------------
(* cslave.lua: monitor_master and the messages of the harbor.              *)

Known(n, k, v) ==
    /\ globalname' = [globalname EXCEPT ![n][k] = v]
    /\ queryname' = [queryname EXCEPT ![n] = @ \ {k}]           \* response_name

(* A mutant: a name that comes before the slave is ready is not kept.      *)
ReadNameTooEarly(n, k, v) ==
    /\ IF Queueing(n) THEN UNCHANGED <<globalname, queryname, box>>
                      ELSE Known(n, k, v) /\ ToHarbor(n, <<<<"N", k, v>>>>)
    /\ UNCHANGED <<early, dialing, slaves, monitor>>

ReadName(n, k, v) ==
    /\ Known(n, k, v)
    /\ ToHarbor(n, IF Queueing(n) THEN <<>> ELSE <<<<"N", k, v>>>>)
    /\ UNCHANGED <<early, dialing, slaves, monitor>>

(* A mutant: a node that comes before the slave is ready is not kept.      *)
ReadConnectTooEarly(n, x) ==
    /\ dialing' = IF Queueing(n) \/ slaves[n][x] # "nil" THEN dialing
                  ELSE [dialing EXCEPT ![n] = x]
    /\ UNCHANGED <<early, box, nameVars, slaves, monitor>>

ReadConnect(n, x) ==
    /\ IF Queueing(n)
       THEN early' = [early EXCEPT ![n] = @ \cup {x}] /\ UNCHANGED dialing
       ELSE /\ dialing' = [dialing EXCEPT ![n] = IF slaves[n][x] = "nil" THEN x ELSE None]
            /\ UNCHANGED early
    /\ UNCHANGED <<box, nameVars, slaves, monitor>>

(* D x: x's connection, which was handed to the harbor, stays open.        *)
ReadDown(n, x) ==
    /\ IF slaves[n][x] = "up" THEN Enter(n, x, "false")
       ELSE slaves' = [slaves EXCEPT ![n][x] = "false"] /\ UNCHANGED monitor
    /\ UNCHANGED <<box, nameVars, early, dialing>>

MonitorMaster(n) ==
    /\ phase[n] \in {"waiting", "shaken", "connecting", "ready"} /\ dialing[n] = None
    /\ dn[n] # <<>>
    /\ dn' = [dn EXCEPT ![n] = Tail(@)]
    /\ LET m == Head(dn[n])
       IN  \/ m[1] = "C" /\ ReadConnect(n, m[2])
           \/ m[1] = "N" /\ ReadName(n, m[2], m[3])
           \/ m[1] = "D" /\ ReadDown(n, m[2])
    /\ UNCHANGED <<peer, name, text, sent, got, phase, want, readying, arrived, up, gone,
                   masterVars, bounds>>

(* monitor_harbor: a name it may know, or the end of a connection.         *)
HarborText(n) ==
    /\ Alive(n) /\ text[n] # <<>>
    /\ text' = [text EXCEPT ![n] = Tail(@)]
    /\ LET m == Head(text[n])
       IN  \/ /\ m[1] = "Q" /\ globalname[n][m[2]] # None
              /\ ToHarbor(n, <<<<"N", m[2], globalname[n][m[2]]>>>>)
              /\ UNCHANGED <<up, slaves, monitor>>
           \/ /\ m[1] = "Q" /\ globalname[n][m[2]] = None
              /\ ToMaster(n, m)
              /\ UNCHANGED <<box, slaves, monitor>>
           \/ /\ m[1] = "D"
              /\ IF slaves[n][m[2]] = "up" THEN Enter(n, m[2], "false")
                 ELSE slaves' = [slaves EXCEPT ![n][m[2]] = "false"] /\ UNCHANGED monitor
              /\ UNCHANGED <<box, up>>
    /\ UNCHANGED <<peer, name, sent, got, phase, want, early, dialing, readying, arrived,
                   nameVars, dn, gone, masterVars, bounds>>

-----------------------------------------------------------------------------
(* What the services of a node ask.                                        *)

May(n, kind) ==
    /\ Alive(n) /\ <<n, kind>> \in crowd.asks /\ ops < crowd.ops
    /\ ops' = ops + 1
    /\ UNCHANGED crowd

Ask(n, kind) ==
    /\ May(n, kind)
    /\ UNCHANGED <<slaveVars, dn, gone, masterVars, faulty>>

Register(n, k) ==
    /\ Ask(n, "register") /\ globalname[n][k] = None
    /\ Known(n, k, n)
    /\ ToMaster(n, <<"R", k, n>>)
    /\ ToHarbor(n, <<<<"N", k, n>>>>)
    /\ UNCHANGED <<peer, name, text, sent, got, monitor>>

QueryName(n, k) ==
    /\ Ask(n, "query") /\ globalname[n][k] = None
    /\ queryname' = [queryname EXCEPT ![n] = @ \cup {k}]
    /\ IF k \in queryname[n] THEN UNCHANGED up ELSE ToMaster(n, <<"Q", k>>)
    /\ UNCHANGED <<harbor, globalname, monitor>>

(* LINK and CONNECT, when they have to wait.                               *)
Monitor(n, x, kind) ==
    /\ Ask(n, "monitor") /\ n # x
    /\ (kind = "link") = (slaves[n][x] = "up")
    /\ monitor' = [monitor EXCEPT ![n][x] = @ \cup {kind}]
    /\ UNCHANGED <<harbor, nameVars, up>>

Send(n) ==
    /\ \/ \E x \in crowd.nodes : Ask(n, "handle") /\ (SendHandle(n, x) \/ SendLong(n, x))
       \/ \E k \in Name : Ask(n, "name") /\ SendName(n, k)
    /\ UNCHANGED <<nameVars, monitor, up>>

-----------------------------------------------------------------------------
(* Faults.                                                                 *)

Fault(n) ==
    /\ May(n, "fault")
    /\ faulty' = TRUE
    /\ UNCHANGED <<name, sent, got, want, slaves, early, nameVars, monitor,
                   dn, masterVars>>

Connected(h, x) == ~peer[h][x].cut /\ (peer[h][x].fd \/ peer[x][h].fd)

Break(h, x) ==
    /\ Fault(h) /\ Connected(h, x)
    /\ peer' = Cut(peer, h, x)
    /\ UNCHANGED <<box, text, phase, dialing, readying, arrived, up, gone>>

(* The connection between n's slave and the master breaks.                 *)
Isolate(n) ==
    /\ Fault(n) /\ n \notin gone
    /\ gone' = gone \cup {n}
    /\ UNCHANGED <<peer, box, text, phase, dialing, readying, arrived, up>>

Crash(n) ==
    /\ Fault(n)
    /\ phase' = [phase EXCEPT ![n] = "down"]
    /\ gone' = gone \cup {n}
    /\ peer' = [h \in Node |-> [x \in Node |->
                   IF n \in {h, x} /\ h # x THEN [peer[h][x] EXCEPT !.cut = TRUE, !.wire = <<>>]
                                   ELSE peer[h][x]]]
    /\ box' = [box EXCEPT ![n] = <<>>] /\ text' = [text EXCEPT ![n] = <<>>]
    /\ dialing' = [dialing EXCEPT ![n] = None] /\ readying' = [readying EXCEPT ![n] = None]
    /\ arrived' = [arrived EXCEPT ![n] = {}]
    /\ UNCHANGED up

-----------------------------------------------------------------------------
HarborStep(n) ==
    /\ Alive(n)
    /\ \/ HarborCommand(n)
       \/ \E x \in Node : HarborData(n, x) \/ HarborClosed(n, x)
    /\ UNCHANGED <<slaveVars, nameVars, monitor, up, dn, gone, masterVars, bounds>>

SlaveStep(n) ==
    \/ Listen(n) \/ ReadW(n) \/ Ready(n) \/ ReadyNames(n)
    \/ DialOpened(n) \/ ReadyOpened(n) \/ MonitorMaster(n) \/ HarborText(n)
    \/ \E x \in Node : ReadyDials(n, x) \/ AcceptSlave(n, x)

MasterStep(n) == MasterHandshake(n) \/ MasterDispatch(n) \/ MasterDown(n)

System == \E n \in Node : HarborStep(n) \/ SlaveStep(n) \/ MasterStep(n)

Environment ==
    \E n \in Node :
        \/ \E k \in Name : Register(n, k) \/ QueryName(n, k)
        \/ \E x \in Node : \E kind \in {"link", "connect"} : Monitor(n, x, kind)
        \/ Send(n) \/ Isolate(n) \/ Crash(n)
        \/ \E x \in Node : Break(n, x)

Next == System \/ Environment

Spec == Init /\ [][Next]_vars
FairSpec == Spec /\ WF_vars(System)

-----------------------------------------------------------------------------
Status == {"WAIT", "HANDSHAKE", "HEADER", "DOWN"}

(* The harbor's and the slaves' state; a connection that is handed to the  *)
(* harbor has an entry that says so, and nothing waits in the queue of one *)
(* whose handshake is over.                                                *)
TypeOK ==
    /\ \A h, x \in Node :
           LET s == peer[h][x]
           IN  /\ s.status \in Status /\ s.fd \in BOOLEAN /\ s.cut \in BOOLEAN
               /\ s.status = "HEADER" => s.fd /\ s.queue = <<>>
               /\ s.wire # <<>> => s.fd /\ ~s.cut
    /\ name \in [Node -> [Name -> [value : Node \cup {None},
                                   queue : Seq({Message("name", 0, None)})]]]
    /\ phase \in [Node -> {"off", "hello", "waiting", "shaken", "connecting", "ready",
                           "down"}]
    /\ slaves \in [Node -> [Node -> {"nil", "up", "false"}]]
    /\ globalname \in [Node -> [Name -> Node \cup {None}]]
    /\ slave_node \in [Node -> {"nil", "up", "zero"}]

InSeq(m, s) == \E i \in DOMAIN s : s[i] = m
SaysName(s, k) == \E i \in DOMAIN s : s[i][1] = "N" /\ s[i][2] = k

(* Whoever waits at a slave waits for something that is to come: LINK for  *)
(* the end of a node that is connected, CONNECT for one that is not, and   *)
(* for a name that the master holds, who has asked for it (queryname) and  *)
(* a message to it in the harbor, for a question or an answer on its way.  *)
WaitersRemembered ==
    \A n \in Node : Alive(n) =>
        /\ \A x \in Node : /\ "link" \in monitor[n][x] => slaves[n][x] = "up"
                           /\ "connect" \in monitor[n][x] => slaves[n][x] # "up"
        /\ \A k \in Name :
               LET coming == InSeq(<<"Q", k>>, up[n]) \/ SaysName(dn[n], k)
               IN  n \notin gone /\ global_name[k] # None =>
                     /\ k \in queryname[n] => coming
                     /\ name[n][k].queue # <<>> =>
                            \/ coming \/ SaysName(box[n], k) \/ InSeq(<<"Q", k>>, text[n])
                            \/ globalname[n][k] # None /\ phase[n] # "ready"

(* Without faults every node that starts gets ready, and is connected to   *)
(* every other with the handshake over, unless a message that is too long  *)
(* has ended the connection.                                               *)
Meshed ==
    LET nodes == crowd.nodes
    IN  <>[](\/ faulty
             \/ \A n \in nodes :
                    /\ phase[n] = "ready"
                    /\ \A x \in nodes \ {n} : \/ peer[n][x].status = "HEADER"
                                                  \/ peer[n][x].cut)
=============================================================================
