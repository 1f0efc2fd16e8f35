----------------------------- MODULE Multicast -----------------------------
(***************************************************************************)
(* service/multicastd.lua, lualib/snownet/multicast.lua and the packages   *)
(* of lualib-src/lua-multicast.cc: one channel, from after its NEW.        *)
(*                                                                         *)
(* Each node has a multicastd.  That of the channel's owner knows which    *)
(* nodes have subscribers, and each knows the subscribers of its node.  A  *)
(* publication goes to the owner, from there to the nodes, and in each to  *)
(* its subscribers, which share one package with a count of references.    *)
(*                                                                         *)
(* A command of multicastd runs in one step, but for SUB on a node without *)
(* subscribers, which calls the owner and goes on with its answer.  The    *)
(* addresses of the other nodes (node_address) are taken as known.         *)
(***************************************************************************)
EXTENDS Integers, Sequences, FiniteSets

CONSTANTS
    Node, Owner,   \* the nodes, and the one that has made the channel
    Service,
    harbor,        \* harbor[s]: the node of s
    MaxAsked,      \* bound: what services do
    MaxPub,        \* bound: publications among it
    None

ASSUME MulticastAssumption ==
    /\ IsFiniteSet(Service) /\ Node \cap Service = {}
    /\ Owner \in Node /\ harbor \in [Service -> Node]
    /\ (\A group \in SUBSET Service : group # None) /\ (\A nodes \in SUBSET Node : nodes # None)
    /\ MaxAsked \in Nat /\ MaxPub \in Nat

Pub == 1..MaxPub

VARIABLES
    alive,         \* the services that have not exited
    chan,          \* chan[s]: s's object for the channel
    inbox,         \* inbox[s]: answers to s, and messages with their packages
    to,            \* to[n][x]: messages from x, a service or another multicastd,
                   \* to the multicastd of n
    channel,       \* channel[n]: the subscribers at n, or None
    channel_n,     \* channel_n[n]: their number
    remote,        \* channel_remote at the owner, or None
    calling,       \* calling[n]: services whose SUB waits for the owner
    reference,     \* reference[n][p]: of the package of publication p at n; 0
                   \* when it is freed
    handling,      \* handling[s]: publications that a dispatch function of s deals
                   \* with
    lost,          \* lost[s]: those whose package s will never close, though it
                   \* counts s
    asked, pubs,   \* bounds
    published,     \* publications at the owner while the channel was there
    handed,        \* handed[s]: how many of them have been sent to s, or were
                   \* before it subscribed
    crossed        \* the last subscriber of a node has once left while another
                   \* one's SUB was waiting for the owner

vars == <<alive, chan, inbox, to, channel, channel_n, remote, calling, reference,
          handling, lost, asked, pubs, published, handed, crossed>>

Init ==
    /\ alive = Service
    /\ chan = [s \in Service |-> [channel |-> TRUE, subscribe |-> FALSE, waits |-> {}]]
    /\ inbox = [s \in Service |-> <<>>]
    /\ to = [n \in Node |-> [x \in Node \cup Service |-> <<>>]]
    /\ channel = [n \in Node |-> IF n = Owner THEN {} ELSE None]
    /\ channel_n = [n \in Node |-> 0]
    /\ remote = None
    /\ calling = [n \in Node |-> {}]
    /\ reference = [n \in Node |-> [p \in Pub |-> 0]]
    /\ handling = [s \in Service |-> {}] /\ lost = [s \in Service |-> {}]
    /\ asked = 0 /\ pubs = 0
    /\ published = 0 /\ handed = [s \in Service |-> 0] /\ crossed = FALSE

daemonVars == <<channel, channel_n, remote, calling, published, handed, crossed>>

(* Messages: from a service s or a multicastd n to a multicastd.           *)
Queued(t, from, n, m) == [t EXCEPT ![n][from] = Append(@, m)]
Says(cmd, arg) == [cmd |-> cmd, arg |-> arg]

-----------------------------------------------------------------------------
(* multicast.lua: what a service does with its channel object.             *)

Act == asked < MaxAsked /\ asked' = asked + 1

Subscribe(s) ==
    /\ s \in alive /\ chan[s].channel /\ ~chan[s].subscribe /\ "SUB" \notin chan[s].waits
    /\ Act
    /\ chan' = [chan EXCEPT ![s].waits = @ \cup {"SUB"}]
    /\ to' = Queued(to, s, harbor[s], Says("SUB", s))
    /\ UNCHANGED <<alive, inbox, daemonVars, reference, handling, lost, pubs>>

Unsubscribe(s) ==
    /\ s \in alive /\ chan[s].channel /\ chan[s].subscribe
    /\ Act
    /\ chan' = [chan EXCEPT ![s].subscribe = FALSE]
    /\ to' = Queued(to, s, harbor[s], Says("USUB", s))
    /\ UNCHANGED <<alive, inbox, daemonVars, reference, handling, lost, pubs>>

Delete(s) ==
    /\ s \in alive /\ chan[s].channel
    /\ Act
    /\ chan' = [chan EXCEPT ![s].channel = FALSE, ![s].subscribe = FALSE]
    /\ to' = Queued(to, s, harbor[s], Says("DEL", None))
    /\ UNCHANGED <<alive, inbox, daemonVars, reference, handling, lost, pubs>>

Publish(s) ==
    /\ s \in alive /\ chan[s].channel /\ "PUB" \notin chan[s].waits
    /\ Act /\ pubs < MaxPub /\ pubs' = pubs + 1
    /\ chan' = [chan EXCEPT ![s].waits = @ \cup {"PUB"}]
    /\ to' = Queued(to, s, harbor[s], Says("PUB", pubs'))
    /\ UNCHANGED <<alive, inbox, daemonVars, reference, handling, lost>>

Brought(q) == {m.arg : m \in {q[k] : k \in {j \in DOMAIN q : q[j].cmd = "multicast"}}}

(* The end of a service collects its objects: __gc unsubscribes.  Nobody   *)
(* closes the packages of the messages that wait for it, or of those its   *)
(* dispatch functions deal with.  (What it still handles of its last batch *)
(* between snownet.exit and its end, it does here before its Exit.)        *)
Exit(s) ==
    /\ s \in alive /\ Act
    /\ alive' = alive \ {s}
    /\ inbox' = [inbox EXCEPT ![s] = <<>>]
    /\ handling' = [handling EXCEPT ![s] = {}]
    /\ lost' = [lost EXCEPT ![s] = @ \cup handling[s] \cup Brought(inbox[s])]
    /\ to' = IF chan[s].channel /\ chan[s].subscribe THEN Queued(to, s, harbor[s], Says("USUB", s)) ELSE to
    /\ UNCHANGED <<chan, daemonVars, reference, pubs>>

(* mc.close, which frees the package at 0.                                 *)
Closed(n, p) == [reference EXCEPT ![n][p] = @ - 1]

(* A mutant: a message that comes after unsubscribe is not closed.         *)
DroppedUnclosed(s, p) ==
    /\ ~chan[s].subscribe
    /\ UNCHANGED <<reference, handling, lost>>

(* dispatch_subscribe.  Of one that has unsubscribed: the message is       *)
(* dropped.                                                                *)
Dropped(s, p) ==
    /\ ~chan[s].subscribe
    /\ reference' = Closed(harbor[s], p)
    /\ UNCHANGED <<handling, lost>>

(* unpack comes before pcall protects anything: when it raises, mc.close   *)
(* is not reached.                                                         *)
Unpacked(s, p) ==
    /\ chan[s].subscribe
    /\ \/ handling' = [handling EXCEPT ![s] = @ \cup {p}] /\ UNCHANGED lost
       \/ lost' = [lost EXCEPT ![s] = @ \cup {p}] /\ UNCHANGED handling
    /\ UNCHANGED reference

(* The next message of a service: the answer to SUB or PUB, or a message.  *)
Receive(s) ==
    /\ inbox[s] # <<>>
    /\ inbox' = [inbox EXCEPT ![s] = Tail(@)]
    /\ LET m == Head(inbox[s])
       IN  \/ /\ m.cmd = "multicast" /\ (Dropped(s, m.arg) \/ Unpacked(s, m.arg))
              /\ UNCHANGED chan
           \/ /\ m.cmd # "multicast"
              /\ chan' = [chan EXCEPT ![s].waits = @ \ {m.cmd},
                                      ![s].subscribe = @ \/ m.cmd = "SUB"]
              /\ UNCHANGED <<reference, handling, lost>>
    /\ UNCHANGED <<alive, to, daemonVars, asked, pubs>>

(* The dispatch function, which may wait, has returned or raised.          *)
Handled(s, p) ==
    /\ p \in handling[s]
    /\ handling' = [handling EXCEPT ![s] = @ \ {p}]
    /\ reference' = Closed(harbor[s], p)
    /\ UNCHANGED <<alive, chan, inbox, to, daemonVars, lost, asked, pubs>>

-----------------------------------------------------------------------------
(* multicastd.lua                                                          *)

(* The multicastd of n takes the next message of x, which says cmd.        *)
Asked(n, x, cmd) == to[n][x] # <<>> /\ Head(to[n][x]).cmd = cmd
Rest(n, x) == [to EXCEPT ![n][x] = Tail(@)]
Arg(n, x) == Head(to[n][x]).arg

Answered(box, s, what) ==
    IF s \in alive THEN [box EXCEPT ![s] = Append(@, Says(what, None))] ELSE box

InFlight(n) == Cardinality({k \in DOMAIN to[n][Owner] : to[n][Owner][k].cmd = "multicast"})

(* s joins the subscribers of n.                                           *)
Join(n, group, s) ==
    /\ channel' = [channel EXCEPT ![n] = group \cup {s}]
    /\ channel_n' = [channel_n EXCEPT ![n] = IF s \in group THEN @ ELSE @ + 1]
    /\ handed' = IF s \in group THEN handed ELSE [handed EXCEPT ![s] = published - InFlight(n)]

(* SUB, where the channel is known or is this node's.                      *)
Sub(n, s) ==
    /\ Asked(n, s, "SUB") /\ (n = Owner \/ channel[n] # None)
    /\ to' = Rest(n, s)
    /\ IF channel[n] # None THEN Join(n, channel[n], s)
                            ELSE UNCHANGED <<channel, channel_n, handed>>
    /\ inbox' = Answered(inbox, s, "SUB")
    /\ UNCHANGED <<alive, chan, remote, calling, reference, handling, lost, asked, pubs,
                   published, crossed>>

SubCall(n, s) ==
    /\ Asked(n, s, "SUB") /\ n # Owner /\ channel[n] = None
    /\ to' = Queued(Rest(n, s), n, Owner, Says("SUBR", s))
    /\ calling' = [calling EXCEPT ![n] = @ \cup {s}]
    /\ UNCHANGED <<alive, chan, inbox, channel, channel_n, remote, reference, handling,
                   lost, asked, pubs, published, handed, crossed>>

Set(nodes) == IF nodes = None THEN {} ELSE nodes

(* SUBR, which answers true if there is no such channel.                   *)
SubR(n) ==
    /\ Asked(Owner, n, "SUBR")
    /\ to' = Queued(Rest(Owner, n), Owner, n,
                    Says(IF channel[Owner] = None THEN "none" ELSE "some", Arg(Owner, n)))
    /\ remote' = IF channel[Owner] = None THEN remote ELSE Set(remote) \cup {n}
    /\ UNCHANGED <<alive, chan, inbox, channel, channel_n, calling, reference, handling,
                   lost, asked, pubs, published, handed, crossed>>

(* A mutant: the double check after the call is missing.                   *)
SubAnsweredUnchecked(n) ==
    /\ Asked(n, Owner, "some")
    /\ LET s == Arg(n, Owner)
       IN  /\ channel' = [channel EXCEPT ![n] = {s}]
           /\ channel_n' = [channel_n EXCEPT ![n] = 1]
           /\ handed' = [handed EXCEPT ![s] = published - InFlight(n)]
           /\ calling' = [calling EXCEPT ![n] = @ \ {s}]
           /\ inbox' = Answered(inbox, s, "SUB")
    /\ to' = Rest(n, Owner)
    /\ UNCHANGED <<alive, chan, remote, reference, handling, lost, asked, pubs, published,
                   crossed>>

(* SUB goes on with the answer.                                            *)
SubAnswered(n) ==
    /\ Asked(n, Owner, "some") \/ Asked(n, Owner, "none")
    /\ LET s == Arg(n, Owner)
       IN  /\ IF Asked(n, Owner, "none") THEN UNCHANGED <<channel, channel_n, handed>>
              ELSE Join(n, Set(channel[n]), s)
           /\ calling' = [calling EXCEPT ![n] = @ \ {s}]
           /\ inbox' = Answered(inbox, s, "SUB")
    /\ to' = Rest(n, Owner)
    /\ UNCHANGED <<alive, chan, remote, reference, handling, lost, asked, pubs, published,
                   crossed>>

LastLeaves(n) == n # Owner /\ channel_n[n] = 1

(* A mutant: the number of subscribers is lowered for the last one only.   *)
LeaveUncounted(n, s) ==
    /\ channel' = [channel EXCEPT ![n] = IF LastLeaves(n) THEN None ELSE @ \ {s}]
    /\ channel_n' = [channel_n EXCEPT ![n] = IF LastLeaves(n) THEN 0 ELSE @]

Leave(n, s) ==
    /\ channel' = [channel EXCEPT ![n] = IF LastLeaves(n) THEN None ELSE @ \ {s}]
    /\ channel_n' = [channel_n EXCEPT ![n] = @ - 1]

(* USUB: the last subscriber of another node than the owner's takes the    *)
(* node off the owner's list.  Without the channel the assertion fails.    *)
Usub(n, s) ==
    /\ Asked(n, s, "USUB")
    /\ LET member == s \in Set(channel[n])
           last == member /\ LastLeaves(n)
       IN  /\ IF member THEN Leave(n, s) ELSE UNCHANGED <<channel, channel_n>>
           /\ to' = IF last THEN Queued(Rest(n, s), n, Owner, Says("USUBR", None))
                            ELSE Rest(n, s)
           /\ crossed' = (crossed \/ (last /\ calling[n] # {}))
    /\ UNCHANGED <<alive, chan, inbox, remote, calling, reference, handling, lost, asked,
                   pubs, published, handed>>

UsubR(n) ==
    /\ Asked(Owner, n, "USUBR")
    /\ to' = Rest(Owner, n)
    /\ remote' = IF remote = None THEN None ELSE remote \ {n}
    /\ UNCHANGED <<alive, chan, inbox, channel, channel_n, calling, reference, handling,
                   lost, asked, pubs, published, handed, crossed>>

Gone(n) == [channel EXCEPT ![n] = None]

(* DEL, from a service or another node.                                    *)
Del(n, x) ==
    /\ Asked(n, x, "DEL")
    /\ \/ /\ n # Owner
          /\ to' = Queued(Rest(n, x), n, Owner, Says("DEL", None))
          /\ UNCHANGED <<channel, channel_n, remote>>
       \/ /\ n = Owner
          /\ to' = [m \in Node |-> [Rest(n, x)[m] EXCEPT ![Owner] =
                       IF m \in Set(remote) THEN Append(@, Says("DELR", None)) ELSE @]]
          /\ channel' = Gone(n) /\ remote' = None
          /\ channel_n' = [channel_n EXCEPT ![n] = 0]
    /\ UNCHANGED <<alive, chan, inbox, calling, reference, handling, lost, asked, pubs,
                   published, handed, crossed>>

DelR(n) ==
    /\ Asked(n, Owner, "DELR")
    /\ to' = Rest(n, Owner)
    /\ channel' = Gone(n)
    /\ channel_n' = [channel_n EXCEPT ![n] = 0]
    /\ UNCHANGED <<alive, chan, inbox, remote, calling, reference, handling, lost, asked,
                   pubs, published, handed, crossed>>

(* publish of p at n: to the nodes that subscribe, if n is the owner, then *)
(* to the subscribers of n, each with a reference; a package for nobody is *)
(* bound and closed.  A PUB, x, is answered.                               *)
PublishAt(n, p, t, x) ==
    LET group == Set(channel[n])
    IN  /\ to' = IF n # Owner THEN t
                 ELSE [m \in Node |-> [t[m] EXCEPT ![Owner] =
                          IF m \in Set(remote) THEN Append(@, Says("multicast", p)) ELSE @]]
        /\ reference' = [reference EXCEPT ![n][p] = IF group = {} THEN 0 ELSE channel_n[n]]
        /\ LET box == [s \in Service |->
                  IF s \in group \cap alive THEN Append(inbox[s], Says("multicast", p))
                                            ELSE inbox[s]]
           IN  inbox' = IF x \in Service THEN Answered(box, x, "PUB") ELSE box
        /\ lost' = [s \in Service |-> IF s \in group \ alive THEN lost[s] \cup {p} ELSE lost[s]]
        /\ handed' = [s \in Service |-> IF s \in group THEN handed[s] + 1 ELSE handed[s]]
        /\ published' = IF n = Owner /\ channel[n] # None THEN published + 1 ELSE published

PubHere(n, x) ==
    /\ Asked(n, x, "multicast") \/ (n = Owner /\ Asked(n, x, "PUB"))
    /\ PublishAt(n, Arg(n, x), Rest(n, x), x)
    /\ UNCHANGED <<alive, chan, channel, channel_n, remote, calling, handling, asked, pubs,
                   crossed>>

PubRemote(n, s) ==
    /\ n # Owner /\ Asked(n, s, "PUB")
    /\ to' = Queued(Rest(n, s), n, Owner, Says("multicast", Arg(n, s)))
    /\ inbox' = Answered(inbox, s, "PUB")
    /\ UNCHANGED <<alive, chan, daemonVars, reference, handling, lost, asked, pubs>>

-----------------------------------------------------------------------------
Next ==
    \/ \E s \in Service : \/ Subscribe(s) \/ Unsubscribe(s) \/ Delete(s) \/ Publish(s)
                          \/ Exit(s) \/ Receive(s) \/ \E p \in Pub : Handled(s, p)
    \/ \E n \in Node : \/ SubR(n) \/ SubAnswered(n) \/ UsubR(n) \/ DelR(n)
                       \/ \E s \in Service : \/ Sub(n, s) \/ SubCall(n, s) \/ Usub(n, s)
                                             \/ PubRemote(n, s)
                       \/ \E x \in Node \cup Service : Del(n, x) \/ PubHere(n, x)

Spec == Init /\ [][Next]_vars
-----------------------------------------------------------------------------
(* The numbers of subscribers are those of the groups; who waits for the   *)
(* owner has asked it and has not been answered.                           *)
TypeOK ==
    /\ \A n \in Node :
           /\ channel[n] = None \/ channel[n] \subseteq {s \in Service : harbor[s] = n}
           /\ channel_n[n] = Cardinality(Set(channel[n]))
           /\ n # Owner => channel[n] # {}
           /\ \A s \in calling[n] : \E m \in {"SUBR", "some", "none"} :
                  \/ \E k \in DOMAIN to[Owner][n] : to[Owner][n][k] = Says(m, s)
                  \/ \E k \in DOMAIN to[n][Owner] : to[n][Owner][k] = Says(m, s)
    /\ remote = None \/ remote \subseteq Node \ {Owner}
    /\ chan \in [Service -> [channel : BOOLEAN, subscribe : BOOLEAN,
                             waits : SUBSET {"SUB", "PUB"}]]

(* The messages of n's services that point to the package of p.            *)
Copies(n, p) ==
    UNION {{s} \X {k \in DOMAIN inbox[s] : inbox[s][k] = Says("multicast", p)} :
           s \in {t \in Service : harbor[t] = n}}

Handling(n, p) == {s \in Service : harbor[s] = n /\ p \in handling[s]}
Lost(n, p)     == {s \in Service : harbor[s] = n /\ p \in lost[s]}

(* A package counts the messages on their way that point to it, the        *)
(* dispatch functions that deal with one, however long they wait, and the  *)
(* references that are lost: through joins, unsubscribing and deletion     *)
(* with messages on their way none is freed while it is in use, and one is *)
(* freed with the last of its uses unless the unpack of a service has      *)
(* raised, or a service has exited with it or without having been taken    *)
(* off the subscribers (multicast.lua:68-85, lua-multicast.cc).            *)
PackagesCounted ==
    \A n \in Node, p \in Pub :
        reference[n][p] = Cardinality(Copies(n, p)) + Cardinality(Handling(n, p))
                              + Cardinality(Lost(n, p))

(* While the channel is there, who has had the answer to SUB and has not   *)
(* unsubscribed is a subscriber, and has been sent everything that was     *)
(* published since but what is on its way to its node -- unless, on another*)
(* node than the owner's, the last subscriber left while a second SUB of   *)
(* the node was waiting for the owner: the owner forgets the node then,    *)
(* and the new subscriber gets nothing.                                    *)
NothingMissed ==
    \A s \in alive :
        LET n == harbor[s]
        IN  channel[Owner] # None /\ chan[s].subscribe =>
                /\ s \in Set(channel[n])
                /\ ~crossed \/ n = Owner => handed[s] = published - InFlight(n)
=============================================================================
