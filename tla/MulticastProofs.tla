-------------------------- MODULE MulticastProofs --------------------------
(***************************************************************************)
(* For any nodes, services and publications: the daemons agree on who has  *)
(* subscribed, a package counts its uses and the references that are lost, *)
(* and no subscriber misses a publication but where a crossing excuses it. *)
(***************************************************************************)
EXTENDS Multicast, FiniteSetTheorems, SequenceTheorems, TLAPS

Here(n) == {s \in Service : harbor[s] = n}

(* A message is in a queue; it is there once at most.                      *)
In(q, m)   == \E k \in DOMAIN q : q[k] = m
Once(q, m) == \A j, k \in DOMAIN q : q[j] = m /\ q[k] = m => j = k

(* A message c does not come behind a message b.                           *)
NotBehind(q, c, b) == \A j, k \in DOMAIN q : q[j] = b /\ q[k] = c => k < j

-----------------------------------------------------------------------------
(* What the daemon of n can be told by x.                                  *)
Publications == {Says("multicast", p) : p \in Pub}

FromService(s) ==
    {Says("SUB", s), Says("USUB", s), Says("DEL", None)} \cup {Says("PUB", p) : p \in Pub}

FromNode(n) ==
    {Says("SUBR", s) : s \in Here(n)} \cup {Says("USUBR", None), Says("DEL", None)}
        \cup Publications

FromOwner(n) ==
    {Says("some", s) : s \in Here(n)} \cup {Says("none", s) : s \in Here(n)}
        \cup {Says("DELR", None)} \cup Publications

Letters(n, x) ==
    IF x \in Service THEN IF harbor[x] = n THEN FromService(x) ELSE {}
    ELSE IF n = Owner /\ x # Owner THEN FromNode(x)
    ELSE IF n # Owner /\ x = Owner THEN FromOwner(n)
    ELSE {}

Answers == {Says("SUB", None), Says("PUB", None)} \cup Publications

Typed(t) ==
    /\ DOMAIN t = Node
    /\ \A n \in Node : /\ DOMAIN t[n] = Node \cup Service
                       /\ \A x \in Node \cup Service : t[n][x] \in Seq(Letters(n, x))

Shape ==
    /\ Typed(to)
    /\ alive \subseteq Service
    /\ chan \in [Service -> [channel : BOOLEAN, subscribe : BOOLEAN,
                             waits : SUBSET {"SUB", "PUB"}]]
    /\ inbox \in [Service -> Seq(Answers)]
    /\ channel \in [Node -> {None} \cup SUBSET Service]
    /\ channel_n \in [Node -> Int]
    /\ remote \in {None} \cup SUBSET (Node \ {Owner})
    /\ calling \in [Node -> SUBSET Service]
    /\ reference \in [Node -> [Pub -> Int]]
    /\ handling \in [Service -> SUBSET Pub] /\ lost \in [Service -> SUBSET Pub]
    /\ pubs \in 0..MaxPub
    /\ published \in Int /\ handed \in [Service -> Int] /\ crossed \in BOOLEAN

(* The subscribers of n, and their number                                  *)
GroupOK(n) ==
    /\ channel[n] = None \/ channel[n] \subseteq Here(n)
    /\ channel_n[n] = Cardinality(Set(channel[n]))
    /\ n # Owner => channel[n] # {}

(* What s has told its daemon, and the two queues between the owner and n  *)
Told(s)    == to[harbor[s]][s]
ToOwner(n) == to[Owner][n]
OfOwner(n) == to[n][Owner]

(* A SUB of s is on its way to the daemon, or the daemon asks the owner,   *)
(* or the answer is on its way to s, and it is in one place.               *)
Asks(s)     == In(Told(s), Says("SUB", s))
Waits(s)    == s \in calling[harbor[s]]
Has(s)      == In(inbox[s], Says("SUB", None))
Leaves(s)   == In(Told(s), Says("USUB", s))

Remotely(s) == In(ToOwner(harbor[s]), Says("SUBR", s))
Some(s)     == In(OfOwner(harbor[s]), Says("some", s))
Nobody(s)   == In(OfOwner(harbor[s]), Says("none", s))

AskedOnce(s) ==
    /\ Asks(s) \/ Waits(s) \/ Has(s) => "SUB" \in chan[s].waits
    /\ ~(Asks(s) /\ Waits(s)) /\ ~(Asks(s) /\ Has(s)) /\ ~(Waits(s) /\ Has(s))
    /\ Once(Told(s), Says("SUB", s)) /\ Once(inbox[s], Says("SUB", None))
    /\ Waits(s) <=> Remotely(s) \/ Some(s) \/ Nobody(s)
    /\ ~(Remotely(s) /\ Some(s)) /\ ~(Remotely(s) /\ Nobody(s)) /\ ~(Some(s) /\ Nobody(s))
    /\ Once(ToOwner(harbor[s]), Says("SUBR", s))
    /\ Once(OfOwner(harbor[s]), Says("some", s)) /\ Once(OfOwner(harbor[s]), Says("none", s))

(* Who is subscribed, or will be when it reads the answer, has not left    *)
(* and is a subscriber.                                                    *)
Subscribed(s) == s \in alive /\ chan[s].subscribe

MemberOK(s) ==
    /\ chan[s].subscribe => "SUB" \notin chan[s].waits
    /\ Subscribed(s) \/ Waits(s) \/ Has(s) => ~Leaves(s)
    /\ NotBehind(Told(s), Says("USUB", s), Says("SUB", s))
    /\ channel[Owner] # None /\ (Subscribed(s) \/ Has(s)) => s \in Set(channel[harbor[s]])

(* What the owner has said of the channel's end is so.                     *)
EndOK(n) ==
    In(OfOwner(n), Says("DELR", None)) \/ (\E s \in Here(n) : In(OfOwner(n), Says("none", s)))
        => channel[Owner] = None

(* The owner knows a node with subscribers, and that it has none is said   *)
(* after the last of them has left and before the next one asks.           *)
Some1(n) == \E s \in Here(n) : In(OfOwner(n), Says("some", s))
Left(n)  == In(ToOwner(n), Says("USUBR", None))

RemoteOK(n) ==
    n # Owner /\ channel[Owner] # None /\ ~crossed =>
        /\ channel[n] # None \/ Some1(n) => n \in Set(remote)
        /\ Left(n) => channel[n] = None /\ ~Some1(n)
        /\ \A s \in Here(n) : NotBehind(ToOwner(n), Says("USUBR", None), Says("SUBR", s))

(* A subscriber has been sent what was published but what is on its way to *)
(* its node.                                                               *)
HandedOK(n) ==
    channel[Owner] # None /\ (~crossed \/ n = Owner) =>
        \A s \in Set(channel[n]) : handed[s] = published - InFlight(n)

(* A publication is on its way to the owner, then to the nodes: nobody has *)
(* its package there yet.  A service that uses a package, or loses it, has *)
(* one reference.                                                          *)
Uses(s, p) == In(inbox[s], Says("multicast", p)) \/ p \in handling[s] \/ p \in lost[s]

UseOnce(s, p) ==
    /\ Once(inbox[s], Says("multicast", p))
    /\ In(inbox[s], Says("multicast", p)) => p \notin handling[s] /\ p \notin lost[s]
    /\ ~(p \in handling[s] /\ p \in lost[s])

Holding(n, p) == {s \in Here(n) : Uses(s, p)}
Unbound(n, p) == reference[n][p] = 0 /\ Holding(n, p) = {}

Written(s, p) == In(Told(s), Says("PUB", p))
Passed(n, p)  == In(ToOwner(n), Says("multicast", p))
Spread(n, p)  == In(OfOwner(n), Says("multicast", p))

PackageOK(p) ==
    /\ \A s \in Service : Once(Told(s), Says("PUB", p))
    /\ \A n \in Node : /\ Once(ToOwner(n), Says("multicast", p))
                       /\ Once(OfOwner(n), Says("multicast", p))
    /\ \A s \in Service : UseOnce(s, p)
    /\ \A s, t \in Service : Written(s, p) /\ Written(t, p) => s = t
    /\ \A m, n \in Node : Passed(m, p) /\ Passed(n, p) => m = n
    /\ \A s \in Service, n \in Node : ~(Written(s, p) /\ Passed(n, p))
    /\ (\E s \in Service : Written(s, p)) \/ (\E n \in Node : Passed(n, p)) \/ p > pubs =>
           \A n \in Node : Unbound(n, p) /\ ~Spread(n, p)
    /\ p > pubs => (\A s \in Service : ~Written(s, p)) /\ (\A n \in Node : ~Passed(n, p))
    /\ \A n \in Node : Spread(n, p) => Unbound(n, p)

CountOK(n, p) == reference[n][p] = Cardinality(Holding(n, p))

GroupsOK ==
    /\ calling[Owner] = {} /\ \A n \in Node : calling[n] \subseteq Here(n)
    /\ \A n \in Node : GroupOK(n)

NodeOK(n) == EndOK(n) /\ RemoteOK(n) /\ HandedOK(n)

AskedAll  == \A s \in Service : AskedOnce(s)
MemberAll == \A s \in Service : MemberOK(s)
EndAll    == \A n \in Node : EndOK(n)
NodeAll   == \A n \in Node : NodeOK(n)

(* The inductive invariant                                                 *)
Inv ==
    /\ Shape /\ GroupsOK
    /\ AskedAll /\ MemberAll /\ NodeAll
    /\ \A p \in Pub : PackageOK(p) /\ \A n \in Node : CountOK(n, p)
-----------------------------------------------------------------------------
(* Queues                                                                  *)

(* The messages of q that bring a publication                              *)
Flying(q) == Cardinality({k \in DOMAIN q : q[k].cmd = "multicast"})
Weight(m) == IF m.cmd = "multicast" THEN 1 ELSE 0

(* r is q with m at its end, or without m at its head, as far as In, Once, *)
(* NotBehind and Flying tell.                                              *)
Grown(q, r, m) ==
    /\ Flying(q) \in Nat /\ Flying(r) = Flying(q) + Weight(m)
    /\ \A x, y :
           /\ In(r, x) <=> In(q, x) \/ x = m
           /\ Once(q, x) /\ (x = m => ~In(q, x)) => Once(r, x)
           /\ NotBehind(q, x, y) /\ x # y /\ (x = m => ~In(q, y)) => NotBehind(r, x, y)

Shrunk(q, r, m) ==
    /\ Flying(r) \in Nat /\ Flying(q) = Flying(r) + Weight(m)
    /\ \A x, y :
           /\ In(q, x) <=> In(r, x) \/ x = m
           /\ Once(q, x) => Once(r, x) /\ (x = m => ~In(r, x))
           /\ NotBehind(q, x, y) => NotBehind(r, x, y) /\ (y = m => ~In(r, x))

LEMMA FlyingIs ==
  ASSUME NEW q, NEW n \in Nat, DOMAIN q = 1..n
  PROVE  Flying(q) \in Nat /\ IsFiniteSet({k \in DOMAIN q : q[k].cmd = "multicast"})
<1> DEFINE K == {k \in DOMAIN q : q[k].cmd = "multicast"}
<1>1. K \subseteq 1..n /\ IsFiniteSet(1..n)
  BY FS_Interval
<1> HIDE DEF K
<1>2. IsFiniteSet(K)
  BY <1>1, FS_Subset
<1>3. Cardinality(K) \in Nat
  BY <1>2, FS_CardinalityType
<1> QED
  BY <1>2, <1>3 DEF Flying, K

LEMMA AppendFlies ==
  ASSUME NEW T, NEW q \in Seq(T), NEW m
  PROVE  Flying(q) \in Nat /\ Flying(Append(q, m)) = Flying(q) + Weight(m)
<1> DEFINE r == Append(q, m)
           n == Len(q)
           K == {k \in DOMAIN q : q[k].cmd = "multicast"}
           L == {k \in DOMAIN r : r[k].cmd = "multicast"}
<1>1. /\ n \in Nat /\ DOMAIN q = 1..n /\ DOMAIN r = 1..n+1
      /\ r[n+1] = m /\ \A k \in 1..n : r[k] = q[k]
  OBVIOUS
<1> HIDE DEF r, n
<1>2. Flying(q) \in Nat /\ IsFiniteSet(K)
  BY <1>1, FlyingIs
<1>3. n+1 \notin K /\ L = IF m.cmd = "multicast" THEN K \cup {n+1} ELSE K
  BY <1>1
<1>4. Flying(q) = Cardinality(K) /\ Flying(r) = Cardinality(L)
  BY DEF Flying
<1> HIDE DEF K, L
<1>5. Cardinality(K \cup {n+1}) = Cardinality(K) + 1
  BY <1>2, <1>3, FS_AddElement
<1>6. Flying(r) = Flying(q) + Weight(m)
  BY <1>2, <1>3, <1>4, <1>5 DEF Weight
<1> QED
  BY <1>2, <1>6 DEF r

LEMMA TailFlies ==
  ASSUME NEW T, NEW q \in Seq(T), q # <<>>
  PROVE  Flying(Tail(q)) \in Nat /\ Flying(q) = Flying(Tail(q)) + Weight(Head(q))
<1> DEFINE r == Tail(q)
           m == Head(q)
           n == Len(r)
           K == {k \in DOMAIN r : r[k].cmd = "multicast"}
           P == {k + 1 : k \in K}
           L == {k \in DOMAIN q : q[k].cmd = "multicast"}
<1>1. /\ n \in Nat /\ DOMAIN r = 1..n /\ DOMAIN q = 1..n+1
      /\ q[1] = m /\ \A k \in 1..n : r[k] = q[k+1]
  OBVIOUS
<1> HIDE DEF r, m, n
<1>2. Flying(r) \in Nat /\ IsFiniteSet(K)
  BY <1>1, FlyingIs
<1>3. K \subseteq Nat /\ 1 \notin P
  BY <1>1
<1>4. L = IF m.cmd = "multicast" THEN P \cup {1} ELSE P
  <2>1. \A k \in 1..n+1 : k = 1 \/ (k - 1 \in 1..n /\ (k - 1) + 1 = k)
    BY <1>1
  <2>2. \A k \in 1..n+1 : k \in P <=> k # 1 /\ q[k].cmd = "multicast"
    <3> TAKE k \in 1..n+1
    <3>1. CASE k = 1
      BY <1>3, <3>1
    <3>2. CASE k # 1
      <4>1. k - 1 \in 1..n /\ (k - 1) + 1 = k /\ r[k-1] = q[k]
        BY <1>1, <2>1, <3>2
      <4>2. k \in P => q[k].cmd = "multicast"
        BY <1>1, <1>3
      <4>3. q[k].cmd = "multicast" => k \in P
        BY <1>1, <4>1
      <4> QED
        BY <3>2, <4>2, <4>3
    <3> QED
      BY <3>1, <3>2
  <2>3. P \subseteq 1..n+1 /\ 1 \in 1..n+1
    BY <1>1
  <2> HIDE DEF P, K
  <2> QED
    BY <1>1, <2>2, <2>3
<1>5. Cardinality(P) = Cardinality(K) /\ IsFiniteSet(P)
  <2>1. \A k, l \in K : k + 1 = l + 1 => k = l
    BY <1>3
  <2> DEFINE f == [k \in K |-> k + 1]
  <2>2. f \in Bijection(K, P)
    BY <2>1 DEF Bijection, Injection, Surjection, IsInjective
  <2> HIDE DEF f, K, P
  <2>3. ExistsBijection(K, P)
    BY <2>2 DEF ExistsBijection
  <2> QED
    BY <1>2, <2>3, FS_Bijection
<1>6. Flying(r) = Cardinality(K) /\ Flying(q) = Cardinality(L)
  BY DEF Flying
<1> HIDE DEF K, P, L
<1>7. Cardinality(P \cup {1}) = Cardinality(P) + 1
  BY <1>3, <1>5, FS_AddElement
<1>8. Flying(q) = Flying(r) + Weight(m)
  BY <1>2, <1>4, <1>5, <1>6, <1>7 DEF Weight
<1> QED
  BY <1>2, <1>8 DEF r, m

LEMMA AppendGrows ==
  ASSUME NEW T, NEW q \in Seq(T), NEW m
  PROVE  Grown(q, Append(q, m), m)
<1> DEFINE r == Append(q, m)
<1>1. /\ Len(q) \in Nat /\ DOMAIN q = 1..Len(q) /\ DOMAIN r = 1..Len(q)+1
      /\ r[Len(q)+1] = m /\ \A k \in 1..Len(q) : r[k] = q[k]
  OBVIOUS
<1> HIDE DEF r
<1> SUFFICES ASSUME NEW x, NEW y
             PROVE  /\ In(r, x) <=> In(q, x) \/ x = m
                    /\ Once(q, x) /\ (x = m => ~In(q, x)) => Once(r, x)
                    /\ NotBehind(q, x, y) /\ x # y /\ (x = m => ~In(q, y)) => NotBehind(r, x, y)
  BY AppendFlies DEF Grown, r
<1>2. In(r, x) <=> In(q, x) \/ x = m
  BY <1>1 DEF In
<1>3. Once(q, x) /\ (x = m => ~In(q, x)) => Once(r, x)
  BY <1>1 DEF In, Once
<1>4. NotBehind(q, x, y) /\ x # y /\ (x = m => ~In(q, y)) => NotBehind(r, x, y)
  BY <1>1 DEF In, NotBehind
<1> QED
  BY <1>2, <1>3, <1>4

LEMMA TailShrinks ==
  ASSUME NEW T, NEW q \in Seq(T), q # <<>>
  PROVE  Shrunk(q, Tail(q), Head(q)) /\ Tail(q) \in Seq(T) /\ Head(q) \in T /\ In(q, Head(q))
<1> DEFINE r == Tail(q)
           m == Head(q)
<1>1. /\ Len(q) \in Nat /\ Len(q) > 0 /\ DOMAIN q = 1..Len(q) /\ DOMAIN r = 1..Len(q)-1
      /\ q[1] = m /\ \A k \in 1..Len(q)-1 : r[k] = q[k+1]
      /\ r \in Seq(T) /\ m \in T
  OBVIOUS
<1> HIDE DEF r, m
<1>2. \A k \in 1..Len(q) : k = 1 \/ (k - 1 \in 1..Len(q)-1 /\ q[k] = r[k-1])
  BY <1>1
<1>3. In(q, m)
  BY <1>1 DEF In
<1> SUFFICES ASSUME NEW x, NEW y
             PROVE  /\ In(q, x) <=> In(r, x) \/ x = m
                    /\ Once(q, x) => Once(r, x) /\ (x = m => ~In(r, x))
                    /\ NotBehind(q, x, y) => NotBehind(r, x, y) /\ (y = m => ~In(r, x))
  BY <1>1, <1>3, TailFlies DEF Shrunk, r, m
<1>4. \A k \in DOMAIN r : k + 1 \in DOMAIN q /\ q[k+1] = r[k] /\ k + 1 # 1
  BY <1>1
<1>5. 1 \in DOMAIN q /\ q[1] = m /\ \A k \in DOMAIN r : k \in Nat /\ k >= 1
  BY <1>1
<1>6. In(q, x) <=> In(r, x) \/ x = m
  <2>1. In(q, x) => In(r, x) \/ x = m
    BY <1>1, <1>2 DEF In
  <2>2. In(r, x) \/ x = m => In(q, x)
    BY <1>4, <1>5 DEF In
  <2> QED
    BY <2>1, <2>2
<1>7. Once(q, x) => Once(r, x) /\ (x = m => ~In(r, x))
  <2> SUFFICES ASSUME Once(q, x) PROVE Once(r, x) /\ (x = m => ~In(r, x))
    OBVIOUS
  <2>1. Once(r, x)
    <3> SUFFICES ASSUME NEW j \in DOMAIN r, NEW k \in DOMAIN r, r[j] = x, r[k] = x PROVE j = k
      BY DEF Once
    <3>1. j + 1 = k + 1
      BY <1>4 DEF Once
    <3> QED
      BY <1>5, <3>1
  <2>2. x = m => ~In(r, x)
    BY <1>4, <1>5 DEF Once, In
  <2> QED
    BY <2>1, <2>2
<1>8. NotBehind(q, x, y) => NotBehind(r, x, y) /\ (y = m => ~In(r, x))
  <2> SUFFICES ASSUME NotBehind(q, x, y) PROVE NotBehind(r, x, y) /\ (y = m => ~In(r, x))
    OBVIOUS
  <2>1. NotBehind(r, x, y)
    <3> SUFFICES ASSUME NEW j \in DOMAIN r, NEW k \in DOMAIN r, r[j] = y, r[k] = x PROVE k < j
      BY DEF NotBehind
    <3>1. k + 1 < j + 1
      BY <1>4 DEF NotBehind
    <3> QED
      BY <1>5, <3>1
  <2>2. y = m => ~In(r, x)
    <3> SUFFICES ASSUME y = m, NEW k \in DOMAIN r, r[k] = x PROVE FALSE
      BY DEF In
    <3>1. k + 1 < 1
      BY <1>4, <1>5 DEF NotBehind
    <3> QED
      BY <1>5, <3>1
  <2> QED
    BY <2>1, <2>2
<1> QED
  BY <1>6, <1>7, <1>8

(* What is written to a queue, and what is taken from one                  *)
LEMMA SaidIs ==
  ASSUME NEW t, Typed(t), NEW n \in Node, NEW x \in Node \cup Service,
         NEW m \in Letters(n, x)
  PROVE  LET u == Queued(t, x, n, m)
         IN  /\ Typed(u)
             /\ Grown(t[n][x], u[n][x], m)
             /\ \A k \in Node, y \in Node \cup Service : <<k, y>> # <<n, x>> => u[k][y] = t[k][y]
<1> DEFINE u == Queued(t, x, n, m)
<1>1. DOMAIN u = Node /\ \A k \in Node : DOMAIN u[k] = Node \cup Service
  BY DEF Queued, Typed
<1>2. u[n][x] = Append(t[n][x], m)
  BY DEF Queued, Typed
<1>3. \A k \in Node, y \in Node \cup Service : <<k, y>> # <<n, x>> => u[k][y] = t[k][y]
  BY DEF Queued, Typed
<1>4. t[n][x] \in Seq(Letters(n, x))
  BY DEF Typed
<1> HIDE DEF u
<1>5. Grown(t[n][x], u[n][x], m) /\ u[n][x] \in Seq(Letters(n, x))
  BY <1>2, <1>4, AppendGrows
<1>6. Typed(u)
  BY <1>1, <1>3, <1>5 DEF Typed
<1> QED
  BY <1>3, <1>5, <1>6 DEF u

LEMMA RestIs ==
  ASSUME Typed(to), NEW n \in Node, NEW x \in Node \cup Service, to[n][x] # <<>>
  PROVE  LET u == Rest(n, x)
         IN  /\ Typed(u)
             /\ Head(to[n][x]) \in Letters(n, x)
             /\ Shrunk(to[n][x], u[n][x], Head(to[n][x]))
             /\ In(to[n][x], Head(to[n][x]))
             /\ \A k \in Node, y \in Node \cup Service : <<k, y>> # <<n, x>> => u[k][y] = to[k][y]
<1> DEFINE u == Rest(n, x)
<1>1. DOMAIN u = Node /\ \A k \in Node : DOMAIN u[k] = Node \cup Service
  BY DEF Rest, Typed
<1>2. u[n][x] = Tail(to[n][x])
  BY DEF Rest, Typed
<1>3. \A k \in Node, y \in Node \cup Service : <<k, y>> # <<n, x>> => u[k][y] = to[k][y]
  BY DEF Rest, Typed
<1>4. to[n][x] \in Seq(Letters(n, x))
  BY DEF Typed
<1> HIDE DEF u
<1>5. /\ Shrunk(to[n][x], u[n][x], Head(to[n][x])) /\ u[n][x] \in Seq(Letters(n, x))
      /\ Head(to[n][x]) \in Letters(n, x) /\ In(to[n][x], Head(to[n][x]))
  BY <1>2, <1>4, TailShrinks
<1>6. Typed(u)
  BY <1>1, <1>3, <1>5 DEF Typed
<1> QED
  BY <1>3, <1>5, <1>6 DEF u

LEMMA SaysIs ==
  \A c, d, a, b : Says(c, a) = Says(d, b) <=> c = d /\ a = b
  BY DEF Says
-----------------------------------------------------------------------------
(* What the steps do to the queues                                         *)

ToldBut(S) == \A s \in Service \ S : Told(s)' = Told(s)
UpBut(N)   == \A n \in Node \ N : ToOwner(n)' = ToOwner(n)
DownBut(N) == \A n \in Node \ N : OfOwner(n)' = OfOwner(n)

(* A queue of which only one place of `to' has changed                     *)
LEMMA OnePlace ==
  ASSUME NEW n \in Node, NEW x \in Node \cup Service,
         \A k \in Node, y \in Node \cup Service : <<k, y>> # <<n, x>> => to'[k][y] = to[k][y]
  PROVE  /\ x \in Service => ToldBut({x}) /\ UpBut({}) /\ DownBut({})
         /\ x \in Node => ToldBut({})
         /\ x \in Node /\ n = Owner /\ x # Owner => UpBut({x}) /\ DownBut({})
         /\ x = Owner /\ n # Owner => UpBut({}) /\ DownBut({n})
<1> USE MulticastAssumption DEF ToldBut, UpBut, DownBut, Told, ToOwner, OfOwner
<1>1. x \in Service => ToldBut({x}) /\ UpBut({}) /\ DownBut({})
  OBVIOUS
<1>2. x \in Node => ToldBut({})
  OBVIOUS
<1>3. x \in Node /\ n = Owner /\ x # Owner => UpBut({x}) /\ DownBut({})
  OBVIOUS
<1>4. x = Owner /\ n # Owner => UpBut({}) /\ DownBut({n})
  OBVIOUS
<1> QED
  BY <1>1, <1>2, <1>3, <1>4

(* Services and nodes are told apart by what they may say.                 *)
LEMMA LettersAre ==
  ASSUME NEW n \in Node, NEW x \in Node \cup Service, NEW m \in Letters(n, x)
  PROVE  \/ x \in Service /\ harbor[x] = n /\ m \in FromService(x)
         \/ x \in Node /\ n = Owner /\ x # Owner /\ m \in FromNode(x)
         \/ x = Owner /\ n # Owner /\ m \in FromOwner(n)
  BY MulticastAssumption DEF Letters

LEMMA MayBe ==
  /\ \A s \in Service : harbor[s] \in Node /\ Letters(harbor[s], s) = FromService(s)
  /\ \A n \in Node : n # Owner =>
         Letters(Owner, n) = FromNode(n) /\ Letters(n, Owner) = FromOwner(n)
  BY MulticastAssumption DEF Letters

(* A service sends to its daemon.                                          *)
LEMMA Telling ==
  ASSUME Shape, NEW s \in Service, NEW m \in FromService(s),
         to' = Queued(to, s, harbor[s], m)
  PROVE  /\ Typed(to') /\ Grown(Told(s), Told(s)', m)
         /\ ToldBut({s}) /\ UpBut({}) /\ DownBut({})
<1>1. harbor[s] \in Node /\ m \in Letters(harbor[s], s) /\ Typed(to)
  BY MayBe DEF Shape
<1>2. /\ Typed(to') /\ Grown(to[harbor[s]][s], to'[harbor[s]][s], m)
      /\ \A k \in Node, y \in Node \cup Service :
             <<k, y>> # <<harbor[s], s>> => to'[k][y] = to[k][y]
  BY <1>1, SaidIs
<1>3. ToldBut({s}) /\ UpBut({}) /\ DownBut({})
  BY <1>1, <1>2, OnePlace
<1> QED
  BY <1>2, <1>3 DEF Told

(* The daemon takes a message of a service, and may pass one on.           *)
Heard(s, cmd) == \E m \in FromService(s) :
    m.cmd = cmd /\ m = Head(Told(s)) /\ Shrunk(Told(s), Told(s)', m) /\ In(Told(s), m)

LEMMA Hearing ==
  ASSUME Shape, NEW n \in Node, NEW s \in Service, NEW cmd, Asked(n, s, cmd),
         to' = Rest(n, s)
  PROVE  /\ n = harbor[s] /\ Typed(to') /\ Heard(s, cmd)
         /\ ToldBut({s}) /\ UpBut({}) /\ DownBut({})
<1> DEFINE m == Head(to[n][s])
<1>1. to[n][s] # <<>> /\ m.cmd = cmd /\ Typed(to)
  BY DEF Asked, Shape
<1>2. /\ Typed(to') /\ m \in Letters(n, s) /\ Shrunk(to[n][s], to'[n][s], m) /\ In(to[n][s], m)
      /\ \A k \in Node, y \in Node \cup Service : <<k, y>> # <<n, s>> => to'[k][y] = to[k][y]
  BY <1>1, RestIs
<1> HIDE DEF m
<1>3. n = harbor[s] /\ m \in FromService(s)
  BY <1>2, LettersAre, MulticastAssumption
<1>4. ToldBut({s}) /\ UpBut({}) /\ DownBut({})
  BY <1>2, OnePlace
<1>5. Told(s) = to[n][s] /\ Told(s)' = to'[n][s]
  BY <1>3 DEF Told
<1> QED
  BY <1>1, <1>2, <1>3, <1>4, <1>5 DEF Heard, m

LEMMA Passing ==
  ASSUME Shape, NEW n \in Node, n # Owner, NEW s \in Service, NEW cmd, Asked(n, s, cmd),
         NEW l \in FromNode(n), to' = Queued(Rest(n, s), n, Owner, l)
  PROVE  /\ n = harbor[s] /\ Typed(to') /\ Heard(s, cmd)
         /\ Grown(ToOwner(n), ToOwner(n)', l)
         /\ ToldBut({s}) /\ UpBut({n}) /\ DownBut({})
<1> DEFINE m == Head(to[n][s])
           r == Rest(n, s)
<1>1. to[n][s] # <<>> /\ m.cmd = cmd /\ Typed(to) /\ Owner \in Node
  BY MulticastAssumption DEF Asked, Shape
<1>2. /\ Typed(r) /\ m \in Letters(n, s) /\ Shrunk(to[n][s], r[n][s], m) /\ In(to[n][s], m)
      /\ \A k \in Node, y \in Node \cup Service : <<k, y>> # <<n, s>> => r[k][y] = to[k][y]
  BY <1>1, RestIs
<1> HIDE DEF m, r
<1>3. n = harbor[s] /\ m \in FromService(s)
  BY <1>2, LettersAre, MulticastAssumption
<1>4. l \in Letters(Owner, n) /\ to' = Queued(r, n, Owner, l)
  BY MayBe DEF r
<1>5. /\ Typed(to') /\ Grown(r[Owner][n], to'[Owner][n], l)
      /\ \A k \in Node, y \in Node \cup Service : <<k, y>> # <<Owner, n>> => to'[k][y] = r[k][y]
  BY <1>1, <1>2, <1>4, SaidIs
<1>6. n # s
  BY MulticastAssumption
<1>7. /\ r[Owner][n] = to[Owner][n] /\ to'[n][s] = r[n][s]
      /\ \A k \in Node, y \in Node \cup Service :
             <<k, y>> # <<Owner, n>> /\ <<k, y>> # <<n, s>> => to'[k][y] = to[k][y]
  BY <1>1, <1>2, <1>5, <1>6
<1>8. ToldBut({s})
  BY <1>7, MulticastAssumption DEF ToldBut, Told
<1>9. UpBut({n})
  BY <1>1, <1>7, MulticastAssumption DEF UpBut, ToOwner
<1>10. DownBut({})
  BY <1>1, <1>7, MulticastAssumption DEF DownBut, OfOwner
<1>11. /\ Told(s) = to[n][s] /\ Told(s)' = to'[n][s]
       /\ ToOwner(n) = to[Owner][n] /\ ToOwner(n)' = to'[Owner][n]
  BY <1>3 DEF Told, ToOwner
<1> QED
  BY <1>1, <1>2, <1>3, <1>5, <1>7, <1>8, <1>9, <1>10, <1>11 DEF Heard, m

(* The owner takes a message of another node, and may answer it.           *)
HeardUp(n, cmd) == \E m \in FromNode(n) :
    m.cmd = cmd /\ m = Head(ToOwner(n)) /\ Shrunk(ToOwner(n), ToOwner(n)', m) /\ In(ToOwner(n), m)

LEMMA UpHearing ==
  ASSUME Shape, NEW n \in Node, NEW cmd, Asked(Owner, n, cmd), to' = Rest(Owner, n)
  PROVE  /\ n # Owner /\ Typed(to') /\ HeardUp(n, cmd)
         /\ ToldBut({}) /\ UpBut({n}) /\ DownBut({})
<1> DEFINE m == Head(to[Owner][n])
<1>1. to[Owner][n] # <<>> /\ m.cmd = cmd /\ Typed(to) /\ Owner \in Node
  BY MulticastAssumption DEF Asked, Shape
<1>2. /\ Typed(to') /\ m \in Letters(Owner, n) /\ Shrunk(to[Owner][n], to'[Owner][n], m)
      /\ In(to[Owner][n], m)
      /\ \A k \in Node, y \in Node \cup Service : <<k, y>> # <<Owner, n>> => to'[k][y] = to[k][y]
  BY <1>1, RestIs
<1> HIDE DEF m
<1>3. n # Owner /\ m \in FromNode(n)
  BY <1>1, <1>2, LettersAre, MulticastAssumption
<1>4. ToldBut({}) /\ UpBut({n}) /\ DownBut({})
  BY <1>1, <1>2, <1>3, MulticastAssumption DEF ToldBut, UpBut, DownBut, Told, ToOwner, OfOwner
<1>5. ToOwner(n) = to[Owner][n] /\ ToOwner(n)' = to'[Owner][n]
  BY DEF ToOwner
<1> QED
  BY <1>1, <1>2, <1>3, <1>4, <1>5 DEF HeardUp, m

LEMMA UpAnswering ==
  ASSUME Shape, NEW n \in Node, NEW cmd, Asked(Owner, n, cmd),
         NEW l \in FromOwner(n), to' = Queued(Rest(Owner, n), Owner, n, l)
  PROVE  /\ n # Owner /\ Typed(to') /\ HeardUp(n, cmd)
         /\ Grown(OfOwner(n), OfOwner(n)', l)
         /\ ToldBut({}) /\ UpBut({n}) /\ DownBut({n})
<1> DEFINE m == Head(to[Owner][n])
           r == Rest(Owner, n)
<1>1. to[Owner][n] # <<>> /\ m.cmd = cmd /\ Typed(to) /\ Owner \in Node
  BY MulticastAssumption DEF Asked, Shape
<1>2. /\ Typed(r) /\ m \in Letters(Owner, n) /\ Shrunk(to[Owner][n], r[Owner][n], m)
      /\ In(to[Owner][n], m)
      /\ \A k \in Node, y \in Node \cup Service : <<k, y>> # <<Owner, n>> => r[k][y] = to[k][y]
  BY <1>1, RestIs
<1> HIDE DEF m, r
<1>3. n # Owner /\ m \in FromNode(n)
  BY <1>1, <1>2, LettersAre, MulticastAssumption
<1>4. l \in Letters(n, Owner) /\ to' = Queued(r, Owner, n, l)
  BY <1>3, MayBe DEF r
<1>5. /\ Typed(to') /\ Grown(r[n][Owner], to'[n][Owner], l)
      /\ \A k \in Node, y \in Node \cup Service : <<k, y>> # <<n, Owner>> => to'[k][y] = r[k][y]
  BY <1>1, <1>2, <1>4, SaidIs
<1>7. /\ r[n][Owner] = to[n][Owner] /\ to'[Owner][n] = r[Owner][n]
      /\ \A k \in Node, y \in Node \cup Service :
             <<k, y>> # <<Owner, n>> /\ <<k, y>> # <<n, Owner>> => to'[k][y] = to[k][y]
  BY <1>1, <1>2, <1>3, <1>5
<1>8. ToldBut({})
  BY <1>1, <1>7, MulticastAssumption DEF ToldBut, Told
<1>9. UpBut({n})
  BY <1>1, <1>3, <1>7 DEF UpBut, ToOwner
<1>10. DownBut({n})
  BY <1>1, <1>3, <1>7 DEF DownBut, OfOwner
<1>11. /\ ToOwner(n) = to[Owner][n] /\ ToOwner(n)' = to'[Owner][n]
       /\ OfOwner(n) = to[n][Owner] /\ OfOwner(n)' = to'[n][Owner]
  BY DEF ToOwner, OfOwner
<1> QED
  BY <1>1, <1>2, <1>3, <1>5, <1>7, <1>8, <1>9, <1>10, <1>11 DEF HeardUp, m

(* A node takes a message of the owner.                                    *)
HeardDown(n, cmd) == \E m \in FromOwner(n) :
    m.cmd = cmd /\ m = Head(OfOwner(n)) /\ Shrunk(OfOwner(n), OfOwner(n)', m) /\ In(OfOwner(n), m)

LEMMA DownHearing ==
  ASSUME Shape, NEW n \in Node, NEW cmd, Asked(n, Owner, cmd), to' = Rest(n, Owner)
  PROVE  /\ n # Owner /\ Typed(to') /\ HeardDown(n, cmd)
         /\ ToldBut({}) /\ UpBut({}) /\ DownBut({n})
<1> DEFINE m == Head(to[n][Owner])
<1>1. to[n][Owner] # <<>> /\ m.cmd = cmd /\ Typed(to) /\ Owner \in Node
  BY MulticastAssumption DEF Asked, Shape
<1>2. /\ Typed(to') /\ m \in Letters(n, Owner) /\ Shrunk(to[n][Owner], to'[n][Owner], m)
      /\ In(to[n][Owner], m)
      /\ \A k \in Node, y \in Node \cup Service : <<k, y>> # <<n, Owner>> => to'[k][y] = to[k][y]
  BY <1>1, RestIs
<1> HIDE DEF m
<1>3. n # Owner /\ m \in FromOwner(n)
  BY <1>1, <1>2, LettersAre, MulticastAssumption
<1>4. ToldBut({}) /\ UpBut({}) /\ DownBut({n})
  BY <1>1, <1>2, <1>3, OnePlace
<1>5. OfOwner(n) = to[n][Owner] /\ OfOwner(n)' = to'[n][Owner]
  BY DEF OfOwner
<1> QED
  BY <1>1, <1>2, <1>3, <1>4, <1>5 DEF HeardDown, m

(* The owner takes a message and tells the nodes it knows.                 *)
Spreading(x, l) ==
    to' = [m \in Node |-> [Rest(Owner, x)[m] EXCEPT ![Owner] =
              IF m \in Set(remote) THEN Append(@, l) ELSE @]]

Reached(l) == \A n \in Node : IF n \in Set(remote) THEN Grown(OfOwner(n), OfOwner(n)', l)
                                                   ELSE OfOwner(n)' = OfOwner(n)

LEMMA SpreadingDoes ==
  ASSUME Shape, NEW x \in Node \cup Service, NEW cmd, Asked(Owner, x, cmd),
         NEW l, l \in {Says("DELR", None)} \cup Publications, Spreading(x, l)
  PROVE  /\ Typed(to') /\ Reached(l)
         /\ \/ x \in Service /\ harbor[x] = Owner /\ Heard(x, cmd) /\ ToldBut({x}) /\ UpBut({})
            \/ x \in Node \ {Owner} /\ HeardUp(x, cmd) /\ ToldBut({}) /\ UpBut({x})
<1> DEFINE m == Head(to[Owner][x])
           r == Rest(Owner, x)
<1>1. /\ to[Owner][x] # <<>> /\ m.cmd = cmd /\ Typed(to) /\ Owner \in Node
      /\ remote \in {None} \cup SUBSET (Node \ {Owner})
  BY MulticastAssumption DEF Asked, Shape
<1>2. /\ Typed(r) /\ m \in Letters(Owner, x) /\ Shrunk(to[Owner][x], r[Owner][x], m)
      /\ In(to[Owner][x], m)
      /\ \A k \in Node, y \in Node \cup Service : <<k, y>> # <<Owner, x>> => r[k][y] = to[k][y]
  BY <1>1, RestIs
<1> HIDE DEF m, r
<1>3. to' = [k \in Node |-> [r[k] EXCEPT ![Owner] =
                IF k \in Set(remote) THEN Append(@, l) ELSE @]]
  BY DEF Spreading, r
<1>4. Set(remote) \subseteq Node \ {Owner}
  BY <1>1 DEF Set
<1>5. \A k \in Node : DOMAIN r[k] = Node \cup Service
  BY <1>2 DEF Typed
<1>6. /\ DOMAIN to' = Node /\ \A k \in Node : DOMAIN to'[k] = Node \cup Service
      /\ \A k \in Node, y \in Node \cup Service : y # Owner => to'[k][y] = r[k][y]
      /\ \A k \in Node : k \notin Set(remote) => to'[k][Owner] = r[k][Owner]
      /\ \A k \in Set(remote) : to'[k][Owner] = Append(r[k][Owner], l)
  BY <1>1, <1>3, <1>4, <1>5
<1>7. \A k \in Set(remote) : /\ r[k][Owner] \in Seq(Letters(k, Owner))
                             /\ l \in Letters(k, Owner)
                             /\ r[k][Owner] = to[k][Owner]
  <2> TAKE k \in Set(remote)
  <2>1. k \in Node /\ k # Owner
    BY <1>4
  <2>2. l \in Letters(k, Owner)
    BY <2>1, MayBe DEF FromOwner
  <2> QED
    BY <1>1, <1>2, <2>1, <2>2 DEF Typed
<1>8. \A k \in Set(remote) : /\ Grown(to[k][Owner], to'[k][Owner], l)
                             /\ to'[k][Owner] \in Seq(Letters(k, Owner))
  <2> TAKE k \in Set(remote)
  <2> DEFINE q == r[k][Owner]
  <2>1. q \in Seq(Letters(k, Owner)) /\ l \in Letters(k, Owner) /\ q = to[k][Owner]
    BY <1>7
  <2>2. to'[k][Owner] = Append(q, l)
    BY <1>6
  <2> HIDE DEF q
  <2>3. Grown(q, Append(q, l), l) /\ Append(q, l) \in Seq(Letters(k, Owner))
    BY <2>1, AppendGrows
  <2> QED
    BY <2>1, <2>2, <2>3
<1>9. Typed(to')
  BY <1>1, <1>2, <1>6, <1>8 DEF Typed
<1>10. \/ x \in Service /\ harbor[x] = Owner /\ m \in FromService(x)
       \/ x \in Node /\ x # Owner /\ m \in FromNode(x)
  BY <1>1, <1>2, LettersAre
<1>11. x # Owner
  BY <1>10, MulticastAssumption
<1>12. Reached(l)
  BY <1>1, <1>2, <1>6, <1>8, <1>11 DEF Reached, OfOwner
<1>13. to'[Owner][x] = r[Owner][x]
  BY <1>1, <1>6, <1>11
<1>14. \A k \in Node, y \in Node \cup Service :
           <<k, y>> # <<Owner, x>> /\ y # Owner => to'[k][y] = to[k][y]
  BY <1>2, <1>6
<1>15. ASSUME x \in Service, harbor[x] = Owner, m \in FromService(x)
       PROVE  Heard(x, cmd) /\ ToldBut({x}) /\ UpBut({})
  <2>1. ToldBut({x})
    BY <1>14, MulticastAssumption DEF ToldBut, Told
  <2>2. UpBut({})
    <3> SUFFICES ASSUME NEW k \in Node PROVE to'[Owner][k] = to[Owner][k]
      BY DEF UpBut, ToOwner
    <3>1. k # x
      BY <1>15, MulticastAssumption
    <3>2. CASE k = Owner
      BY <1>1, <1>2, <1>4, <1>6, <3>1, <3>2
    <3> QED
      BY <1>1, <1>14, <3>1, <3>2
  <2>3. Told(x) = to[Owner][x] /\ Told(x)' = to'[Owner][x]
    BY <1>15 DEF Told
  <2> QED
    BY <1>1, <1>2, <1>13, <1>15, <2>1, <2>2, <2>3 DEF Heard, m
<1>16. ASSUME x \in Node, x # Owner, m \in FromNode(x)
       PROVE  HeardUp(x, cmd) /\ ToldBut({}) /\ UpBut({x})
  <2>1. ToldBut({})
    BY <1>14, <1>16, MulticastAssumption DEF ToldBut, Told
  <2>2. UpBut({x})
    <3> SUFFICES ASSUME NEW k \in Node, k # x PROVE to'[Owner][k] = to[Owner][k]
      BY DEF UpBut, ToOwner
    <3>2. CASE k = Owner
      BY <1>1, <1>2, <1>4, <1>6, <3>2
    <3> QED
      BY <1>1, <1>14, <3>2
  <2>3. ToOwner(x) = to[Owner][x] /\ ToOwner(x)' = to'[Owner][x]
    BY DEF ToOwner
  <2> QED
    BY <1>1, <1>2, <1>13, <1>16, <2>1, <2>2, <2>3 DEF HeardUp, m
<1> QED
  BY <1>9, <1>10, <1>12, <1>15, <1>16
-----------------------------------------------------------------------------
(* What the letters say                                                    *)

LEMMA ToldKinds ==
  ASSUME NEW s \in Service, NEW m \in FromService(s)
  PROVE  /\ m.cmd = "SUB" => m = Says("SUB", s)
         /\ m.cmd = "USUB" => m = Says("USUB", s)
         /\ m.cmd = "DEL" => m = Says("DEL", None)
         /\ m.cmd = "PUB" => \E p \in Pub : m = Says("PUB", p) /\ m.arg = p
         /\ m.cmd # "multicast"
  BY DEF FromService, Says

LEMMA UpKinds ==
  ASSUME NEW n \in Node, NEW m \in FromNode(n)
  PROVE  /\ m.cmd = "SUBR" => \E s \in Here(n) : m = Says("SUBR", s) /\ m.arg = s
         /\ m.cmd = "USUBR" => m = Says("USUBR", None)
         /\ m.cmd = "DEL" => m = Says("DEL", None)
         /\ m.cmd = "multicast" => \E p \in Pub : m = Says("multicast", p) /\ m.arg = p
         /\ m.cmd # "PUB"
  BY DEF FromNode, Publications, Says

LEMMA DownKinds ==
  ASSUME NEW n \in Node, NEW m \in FromOwner(n)
  PROVE  /\ m.cmd = "some" => \E s \in Here(n) : m = Says("some", s) /\ m.arg = s
         /\ m.cmd = "none" => \E s \in Here(n) : m = Says("none", s) /\ m.arg = s
         /\ m.cmd = "DELR" => m = Says("DELR", None)
         /\ m.cmd = "multicast" => \E p \in Pub : m = Says("multicast", p) /\ m.arg = p
         /\ m.cmd \notin {"PUB", "DEL"}
  BY DEF FromOwner, Publications, Says

LEMMA LettersSaid ==
  /\ \A s \in Service : {Says("SUB", s), Says("USUB", s), Says("DEL", None)} \subseteq FromService(s)
  /\ \A s \in Service, p \in Pub : Says("PUB", p) \in FromService(s)
  /\ \A n \in Node : \A s \in Here(n) : Says("SUBR", s) \in FromNode(n)
  /\ \A n \in Node : {Says("USUBR", None), Says("DEL", None)} \subseteq FromNode(n)
  /\ \A n \in Node, p \in Pub : Says("multicast", p) \in FromNode(n)
  /\ \A n \in Node : \A s \in Here(n) : {Says("some", s), Says("none", s)} \subseteq FromOwner(n)
  BY DEF FromService, FromNode, FromOwner, Publications

(* What a service gets, if it is there                                     *)
Got(s, m) == IF s \in alive THEN Grown(inbox[s], inbox'[s], m) ELSE inbox'[s] = inbox[s]
InboxBut(S) == \A t \in Service \ S : inbox'[t] = inbox[t]

LEMMA Answering ==
  ASSUME Shape, NEW s \in Service, NEW c \in {"SUB", "PUB"}, inbox' = Answered(inbox, s, c)
  PROVE  inbox' \in [Service -> Seq(Answers)] /\ Got(s, Says(c, None)) /\ InboxBut({s})
<1> DEFINE m == Says(c, None)
<1>1. inbox \in [Service -> Seq(Answers)] /\ m \in Answers
  BY DEF Shape, Answers
<1>2. inbox' = IF s \in alive THEN [inbox EXCEPT ![s] = Append(@, m)] ELSE inbox
  BY DEF Answered
<1> HIDE DEF m
<1>3. inbox[s] \in Seq(Answers) /\ Append(inbox[s], m) \in Seq(Answers)
      /\ Grown(inbox[s], Append(inbox[s], m), m)
  BY <1>1, AppendGrows
<1>4. inbox' \in [Service -> Seq(Answers)] /\ Got(s, m) /\ InboxBut({s})
  BY <1>1, <1>2, <1>3 DEF Got, InboxBut
<1> QED
  BY <1>4 DEF m

(* dispatch_subscribe, with its three ends                                 *)
Received(s, p) == Dropped(s, p) \/ Unpacked(s, p)

LEMMA ReceiveDoes ==
  ASSUME Shape, NEW s \in Service, Receive(s)
  PROVE  /\ inbox' \in [Service -> Seq(Answers)] /\ InboxBut({s})
         /\ \E m \in Answers :
               /\ Shrunk(inbox[s], inbox'[s], m) /\ In(inbox[s], m)
               /\ \/ /\ \E p \in Pub : m = Says("multicast", p) /\ Received(s, p)
                     /\ UNCHANGED chan
                  \/ /\ \E c \in {"SUB", "PUB"} :
                           /\ m = Says(c, None)
                           /\ chan' = [chan EXCEPT ![s].waits = @ \ {c},
                                                   ![s].subscribe = @ \/ c = "SUB"]
                     /\ UNCHANGED <<reference, handling, lost>>
<1> DEFINE m == Head(inbox[s])
<1>1. inbox \in [Service -> Seq(Answers)] /\ inbox[s] # <<>>
      /\ inbox' = [inbox EXCEPT ![s] = Tail(@)]
  BY DEF Receive, Shape
<1>2. /\ Shrunk(inbox[s], Tail(inbox[s]), m) /\ Tail(inbox[s]) \in Seq(Answers)
      /\ m \in Answers /\ In(inbox[s], m)
  BY <1>1, TailShrinks
<1>3. inbox'[s] = Tail(inbox[s]) /\ inbox' \in [Service -> Seq(Answers)] /\ InboxBut({s})
  BY <1>1, <1>2 DEF InboxBut
<1>4. \/ m.cmd = "multicast" /\ Received(s, m.arg) /\ UNCHANGED chan
      \/ /\ m.cmd # "multicast"
         /\ chan' = [chan EXCEPT ![s].waits = @ \ {m.cmd}, ![s].subscribe = @ \/ m.cmd = "SUB"]
         /\ UNCHANGED <<reference, handling, lost>>
  BY DEF Receive, Received
<1> HIDE DEF m
<1>5. \/ \E p \in Pub : m = Says("multicast", p)
      \/ \E c \in {"SUB", "PUB"} : m = Says(c, None)
  BY <1>2 DEF Answers, Publications
<1>6. CASE \E p \in Pub : m = Says("multicast", p)
  <2>1. PICK p \in Pub : m = Says("multicast", p)
    BY <1>6
  <2>2. m.cmd = "multicast" /\ m.arg = p
    BY <2>1 DEF Says
  <2>3. Received(s, p) /\ UNCHANGED chan
    BY <1>4, <2>2
  <2> QED
    BY <1>2, <1>3, <2>1, <2>3
<1>7. CASE \E c \in {"SUB", "PUB"} : m = Says(c, None)
  <2>1. PICK c \in {"SUB", "PUB"} : m = Says(c, None)
    BY <1>7
  <2>2. m.cmd = c /\ c # "multicast"
    BY <2>1 DEF Says
  <2>3. /\ chan' = [chan EXCEPT ![s].waits = @ \ {c}, ![s].subscribe = @ \/ c = "SUB"]
        /\ UNCHANGED <<reference, handling, lost>>
    BY <1>4, <2>2
  <2> QED
    BY <1>2, <1>3, <2>1, <2>3
<1> QED
  BY <1>5, <1>6, <1>7

LEMMA ReceivedDoes ==
  ASSUME Shape, NEW s \in Service, NEW p \in Pub, Received(s, p)
  PROVE  \/ /\ reference' = [reference EXCEPT ![harbor[s]][p] = @ - 1]
            /\ UNCHANGED <<handling, lost>>
         \/ handling' = [handling EXCEPT ![s] = @ \cup {p}] /\ UNCHANGED <<reference, lost>>
         \/ lost' = [lost EXCEPT ![s] = @ \cup {p}] /\ UNCHANGED <<reference, handling>>
  BY DEF Received, Dropped, Unpacked, Closed

LEMMA HandledDoes ==
  ASSUME NEW s \in Service, NEW p \in Pub, Handled(s, p)
  PROVE  /\ UNCHANGED <<alive, chan, inbox, to, channel, channel_n, remote, calling, published,
                        handed, crossed, pubs, lost>>
         /\ p \in handling[s] /\ handling' = [handling EXCEPT ![s] = @ \ {p}]
         /\ reference' = [reference EXCEPT ![harbor[s]][p] = @ - 1]
         /\ ToldBut({}) /\ UpBut({}) /\ DownBut({})
<1>1. /\ UNCHANGED <<alive, chan, inbox, to, channel, channel_n, remote, calling, published,
                     handed, crossed, pubs, lost>>
      /\ p \in handling[s] /\ handling' = [handling EXCEPT ![s] = @ \ {p}]
      /\ reference' = [reference EXCEPT ![harbor[s]][p] = @ - 1]
  BY DEF Handled, Closed, daemonVars
<1>2. to' = to
  BY <1>1
<1>3. ToldBut({}) /\ UpBut({}) /\ DownBut({})
  BY <1>2 DEF ToldBut, UpBut, DownBut, Told, ToOwner, OfOwner
<1> QED
  BY <1>1, <1>3

(* A service that takes the answer to a SUB is subscribed.                 *)
LEMMA AnswerTaken ==
  ASSUME Shape, NEW s \in Service, NEW c \in {"SUB", "PUB"},
         chan' = [chan EXCEPT ![s].waits = @ \ {c}, ![s].subscribe = @ \/ c = "SUB"]
  PROVE  /\ chan' \in [Service -> [channel : BOOLEAN, subscribe : BOOLEAN,
                                   waits : SUBSET {"SUB", "PUB"}]]
         /\ chan'[s].waits = chan[s].waits \ {c}
         /\ chan'[s].subscribe <=> (chan[s].subscribe \/ c = "SUB")
         /\ \A t \in Service \ {s} : chan'[t] = chan[t]
<1> DEFINE C == [channel : BOOLEAN, subscribe : BOOLEAN, waits : SUBSET {"SUB", "PUB"}]
<1>1. chan \in [Service -> C] /\ chan[s] \in C
  BY DEF Shape
<1>2. chan'[s] = [chan[s] EXCEPT !.waits = @ \ {c}, !.subscribe = @ \/ c = "SUB"]
  BY <1>1
<1>3. chan'[s] \in C
  BY <1>1, <1>2
<1> QED
  BY <1>1, <1>2, <1>3
-----------------------------------------------------------------------------
(* What the daemons do                                                     *)

Takes(q, r, m) == In(q, m) /\ Shrunk(q, r, m)

LEMMA HeardIs ==
  ASSUME NEW s \in Service
  PROVE  /\ Heard(s, "SUB") => Takes(Told(s), Told(s)', Says("SUB", s))
         /\ Heard(s, "USUB") => Takes(Told(s), Told(s)', Says("USUB", s))
         /\ Heard(s, "DEL") => Takes(Told(s), Told(s)', Says("DEL", None))
         /\ Heard(s, "PUB") => \E p \in Pub :
                Takes(Told(s), Told(s)', Says("PUB", p)) /\ p = Head(Told(s)).arg
         /\ ~Heard(s, "multicast")
<1>1. Heard(s, "SUB") => Takes(Told(s), Told(s)', Says("SUB", s))
  BY ToldKinds DEF Heard, Takes
<1>2. Heard(s, "USUB") => Takes(Told(s), Told(s)', Says("USUB", s))
  BY ToldKinds DEF Heard, Takes
<1>3. Heard(s, "DEL") => Takes(Told(s), Told(s)', Says("DEL", None))
  BY ToldKinds DEF Heard, Takes
<1>4. Heard(s, "PUB") => \E p \in Pub :
          Takes(Told(s), Told(s)', Says("PUB", p)) /\ p = Head(Told(s)).arg
  BY ToldKinds DEF Heard, Takes
<1>5. ~Heard(s, "multicast")
  BY ToldKinds DEF Heard
<1> QED
  BY <1>1, <1>2, <1>3, <1>4, <1>5

LEMMA HeardUpIs ==
  ASSUME NEW n \in Node
  PROVE  /\ HeardUp(n, "SUBR") => \E s \in Here(n) :
                Takes(ToOwner(n), ToOwner(n)', Says("SUBR", s)) /\ s = Head(ToOwner(n)).arg
         /\ HeardUp(n, "USUBR") => Takes(ToOwner(n), ToOwner(n)', Says("USUBR", None))
         /\ HeardUp(n, "DEL") => Takes(ToOwner(n), ToOwner(n)', Says("DEL", None))
         /\ HeardUp(n, "multicast") => \E p \in Pub :
                Takes(ToOwner(n), ToOwner(n)', Says("multicast", p)) /\ p = Head(ToOwner(n)).arg
         /\ ~HeardUp(n, "PUB")
<1>1. HeardUp(n, "SUBR") => \E s \in Here(n) :
          Takes(ToOwner(n), ToOwner(n)', Says("SUBR", s)) /\ s = Head(ToOwner(n)).arg
  BY UpKinds DEF HeardUp, Takes
<1>2. HeardUp(n, "USUBR") => Takes(ToOwner(n), ToOwner(n)', Says("USUBR", None))
  BY UpKinds DEF HeardUp, Takes
<1>3. HeardUp(n, "DEL") => Takes(ToOwner(n), ToOwner(n)', Says("DEL", None))
  BY UpKinds DEF HeardUp, Takes
<1>4. HeardUp(n, "multicast") => \E p \in Pub :
          Takes(ToOwner(n), ToOwner(n)', Says("multicast", p)) /\ p = Head(ToOwner(n)).arg
  BY UpKinds DEF HeardUp, Takes
<1>5. ~HeardUp(n, "PUB")
  BY UpKinds DEF HeardUp
<1> QED
  BY <1>1, <1>2, <1>3, <1>4, <1>5

LEMMA HeardDownIs ==
  ASSUME NEW n \in Node
  PROVE  /\ \A c \in {"some", "none"} : HeardDown(n, c) => \E s \in Here(n) :
                Takes(OfOwner(n), OfOwner(n)', Says(c, s)) /\ s = Head(OfOwner(n)).arg
         /\ HeardDown(n, "DELR") => Takes(OfOwner(n), OfOwner(n)', Says("DELR", None))
         /\ HeardDown(n, "multicast") => \E p \in Pub :
                Takes(OfOwner(n), OfOwner(n)', Says("multicast", p)) /\ p = Head(OfOwner(n)).arg
<1>1. \A c \in {"some", "none"} : HeardDown(n, c) => \E s \in Here(n) :
          Takes(OfOwner(n), OfOwner(n)', Says(c, s)) /\ s = Head(OfOwner(n)).arg
  BY DownKinds DEF HeardDown, Takes
<1>2. HeardDown(n, "DELR") => Takes(OfOwner(n), OfOwner(n)', Says("DELR", None))
  BY DownKinds DEF HeardDown, Takes
<1>3. HeardDown(n, "multicast") => \E p \in Pub :
          Takes(OfOwner(n), OfOwner(n)', Says("multicast", p)) /\ p = Head(OfOwner(n)).arg
  BY DownKinds DEF HeardDown, Takes
<1> QED
  BY <1>1, <1>2, <1>3

LEMMA SubDoes ==
  ASSUME Shape, NEW n \in Node, NEW s \in Service, Sub(n, s)
  PROVE  /\ n = harbor[s] /\ Typed(to') /\ Takes(Told(s), Told(s)', Says("SUB", s))
         /\ ToldBut({s}) /\ UpBut({}) /\ DownBut({})
         /\ inbox' \in [Service -> Seq(Answers)] /\ Got(s, Says("SUB", None)) /\ InboxBut({s})
         /\ \/ channel[n] # None /\ Join(n, channel[n], s)
            \/ n = Owner /\ channel[n] = None /\ UNCHANGED <<channel, channel_n, handed>>
<1>1. Asked(n, s, "SUB") /\ to' = Rest(n, s) /\ inbox' = Answered(inbox, s, "SUB")
  BY DEF Sub
<1>2. /\ n = harbor[s] /\ Typed(to') /\ Heard(s, "SUB")
      /\ ToldBut({s}) /\ UpBut({}) /\ DownBut({})
  BY <1>1, Hearing
<1>3. inbox' \in [Service -> Seq(Answers)] /\ Got(s, Says("SUB", None)) /\ InboxBut({s})
  BY <1>1, Answering
<1>4. \/ channel[n] # None /\ Join(n, channel[n], s)
      \/ n = Owner /\ channel[n] = None /\ UNCHANGED <<channel, channel_n, handed>>
  BY DEF Sub
<1> QED
  BY <1>2, <1>3, <1>4, HeardIs

LEMMA SubCallDoes ==
  ASSUME Shape, NEW n \in Node, NEW s \in Service, SubCall(n, s)
  PROVE  /\ n = harbor[s] /\ n # Owner /\ s \in Here(n)
         /\ Typed(to') /\ Takes(Told(s), Told(s)', Says("SUB", s))
         /\ Grown(ToOwner(n), ToOwner(n)', Says("SUBR", s))
         /\ ToldBut({s}) /\ UpBut({n}) /\ DownBut({})
<1>1. Asked(n, s, "SUB") /\ n # Owner /\ to' = Queued(Rest(n, s), n, Owner, Says("SUBR", s))
  BY DEF SubCall
<1>2. Asked(n, s, "SUB") => harbor[s] = n
  <2>1. Asked(n, s, "SUB") => to[n][s] # <<>> /\ to[n][s] \in Seq(Letters(n, s))
    BY DEF Asked, Shape, Typed
  <2> QED
    BY <2>1 DEF Letters
<1> DEFINE l == Says("SUBR", s)
<1>3. l \in FromNode(n) /\ s \in Here(n)
  BY <1>1, <1>2, LettersSaid DEF Here
<1>4. to' = Queued(Rest(n, s), n, Owner, l)
  BY <1>1
<1> HIDE DEF l
<1>5. /\ n = harbor[s] /\ Typed(to') /\ Heard(s, "SUB") /\ Grown(ToOwner(n), ToOwner(n)', l)
      /\ ToldBut({s}) /\ UpBut({n}) /\ DownBut({})
  BY <1>1, <1>3, <1>4, Passing
<1> QED
  BY <1>1, <1>3, <1>5, HeardIs DEF l

LEMMA SubRDoes ==
  ASSUME Shape, NEW n \in Node, SubR(n)
  PROVE  /\ n # Owner /\ Typed(to') /\ ToldBut({}) /\ UpBut({n}) /\ DownBut({n})
         /\ \E s \in Here(n), c \in {"some", "none"} :
               /\ c = "none" <=> channel[Owner] = None
               /\ Takes(ToOwner(n), ToOwner(n)', Says("SUBR", s))
               /\ Grown(OfOwner(n), OfOwner(n)', Says(c, s))
<1>1. PICK c \in {"some", "none"} : c = IF channel[Owner] = None THEN "none" ELSE "some"
  OBVIOUS
<1> DEFINE s == Head(ToOwner(n)).arg
<1>2. Asked(Owner, n, "SUBR") /\ to' = Queued(Rest(Owner, n), Owner, n, Says(c, s))
  BY <1>1 DEF SubR, Arg, ToOwner
<1>3. s \in Here(n)
  <2> DEFINE m == Head(to[Owner][n])
  <2>1. to[Owner][n] # <<>> /\ m.cmd = "SUBR" /\ to[Owner][n] \in Seq(Letters(Owner, n))
    BY <1>2, MulticastAssumption DEF Asked, Shape, Typed
  <2>2. m \in Letters(Owner, n)
    BY <2>1, TailShrinks
  <2> HIDE DEF m
  <2>3. m \in FromNode(n)
    BY <2>2, LettersAre, MulticastAssumption
  <2>4. m.arg \in Here(n)
    BY <2>1, <2>3, UpKinds
  <2> QED
    BY <2>4 DEF m, ToOwner
<1> DEFINE l == Says(c, s)
<1>4. l \in FromOwner(n)
  BY <1>3, LettersSaid
<1>5. to' = Queued(Rest(Owner, n), Owner, n, l)
  BY <1>2
<1> HIDE DEF l
<1>6. /\ n # Owner /\ Typed(to') /\ HeardUp(n, "SUBR") /\ Grown(OfOwner(n), OfOwner(n)', l)
      /\ ToldBut({}) /\ UpBut({n}) /\ DownBut({n})
  BY <1>2, <1>4, <1>5, UpAnswering
<1>7. Takes(ToOwner(n), ToOwner(n)', Says("SUBR", s))
  BY <1>6, HeardUpIs
<1> HIDE DEF s
<1> QED
  BY <1>1, <1>3, <1>6, <1>7 DEF l

LEMMA SubAnsweredDoes ==
  ASSUME Shape, NEW n \in Node, SubAnswered(n)
  PROVE  /\ n # Owner /\ Typed(to') /\ ToldBut({}) /\ UpBut({}) /\ DownBut({n})
         /\ inbox' \in [Service -> Seq(Answers)]
         /\ \E s \in Here(n), c \in {"some", "none"} :
               /\ Takes(OfOwner(n), OfOwner(n)', Says(c, s))
               /\ IF c = "none" THEN UNCHANGED <<channel, channel_n, handed>>
                                ELSE Join(n, Set(channel[n]), s)
               /\ calling' = [calling EXCEPT ![n] = @ \ {s}]
               /\ Got(s, Says("SUB", None)) /\ InboxBut({s})
<1>1. PICK c \in {"some", "none"} : Asked(n, Owner, c)
  BY DEF SubAnswered
<1>2. to' = Rest(n, Owner)
  BY DEF SubAnswered
<1>3. /\ n # Owner /\ Typed(to') /\ HeardDown(n, c)
      /\ ToldBut({}) /\ UpBut({}) /\ DownBut({n})
  BY <1>1, <1>2, DownHearing
<1>4. PICK s \in Here(n) : Takes(OfOwner(n), OfOwner(n)', Says(c, s)) /\ s = Head(OfOwner(n)).arg
  BY <1>3, HeardDownIs
<1>5. s = Arg(n, Owner) /\ s \in Service
  BY <1>4 DEF Arg, OfOwner, Here
<1>6. Asked(n, Owner, "none") <=> c = "none"
  BY <1>1 DEF Asked
<1>7. /\ IF c = "none" THEN UNCHANGED <<channel, channel_n, handed>>
                       ELSE Join(n, Set(channel[n]), s)
      /\ calling' = [calling EXCEPT ![n] = @ \ {s}]
      /\ inbox' = Answered(inbox, s, "SUB")
  BY <1>5, <1>6 DEF SubAnswered
<1>8. inbox' \in [Service -> Seq(Answers)] /\ Got(s, Says("SUB", None)) /\ InboxBut({s})
  BY <1>5, <1>7, Answering
<1> QED
  BY <1>3, <1>4, <1>7, <1>8

LEMMA UsubDoes ==
  ASSUME Shape, NEW n \in Node, NEW s \in Service, Usub(n, s)
  PROVE  LET last == s \in Set(channel[n]) /\ LastLeaves(n)
         IN  /\ n = harbor[s] /\ Typed(to') /\ Takes(Told(s), Told(s)', Says("USUB", s))
             /\ ToldBut({s}) /\ DownBut({})
             /\ \/ last /\ Grown(ToOwner(n), ToOwner(n)', Says("USUBR", None)) /\ UpBut({n})
                \/ ~last /\ UpBut({})
<1> DEFINE last == s \in Set(channel[n]) /\ LastLeaves(n)
<1>1. /\ Asked(n, s, "USUB")
      /\ to' = IF last THEN Queued(Rest(n, s), n, Owner, Says("USUBR", None)) ELSE Rest(n, s)
  BY DEF Usub
<1>2. CASE last
  <2> DEFINE l == Says("USUBR", None)
  <2>1. l \in FromNode(n) /\ to' = Queued(Rest(n, s), n, Owner, l) /\ n # Owner
    BY <1>1, <1>2, LettersSaid DEF LastLeaves
  <2> HIDE DEF l, last
  <2>2. /\ n = harbor[s] /\ Typed(to') /\ Heard(s, "USUB") /\ Grown(ToOwner(n), ToOwner(n)', l)
        /\ ToldBut({s}) /\ UpBut({n}) /\ DownBut({})
    BY <1>1, <2>1, Passing
  <2> QED
    BY <1>2, <2>2, HeardIs DEF l, last
<1>3. CASE ~last
  <2>1. /\ n = harbor[s] /\ Typed(to') /\ Heard(s, "USUB")
        /\ ToldBut({s}) /\ UpBut({}) /\ DownBut({})
    BY <1>1, <1>3, Hearing
  <2> QED
    BY <1>3, <2>1, HeardIs
<1> QED
  BY <1>2, <1>3

LEMMA UsubRDoes ==
  ASSUME Shape, NEW n \in Node, UsubR(n)
  PROVE  /\ n # Owner /\ Typed(to') /\ Takes(ToOwner(n), ToOwner(n)', Says("USUBR", None))
         /\ ToldBut({}) /\ UpBut({n}) /\ DownBut({})
<1>1. Asked(Owner, n, "USUBR") /\ to' = Rest(Owner, n)
  BY DEF UsubR
<1> QED
  BY <1>1, UpHearing, HeardUpIs

LEMMA DelRDoes ==
  ASSUME Shape, NEW n \in Node, DelR(n)
  PROVE  /\ n # Owner /\ Typed(to') /\ Takes(OfOwner(n), OfOwner(n)', Says("DELR", None))
         /\ ToldBut({}) /\ UpBut({}) /\ DownBut({n})
<1>1. Asked(n, Owner, "DELR") /\ to' = Rest(n, Owner)
  BY DEF DelR
<1> QED
  BY <1>1, DownHearing, HeardDownIs

LEMMA DelDoes ==
  ASSUME Shape, NEW n \in Node, NEW x \in Node \cup Service, Del(n, x)
  PROVE  /\ Typed(to')
         /\ \/ /\ n # Owner /\ x \in Service /\ n = harbor[x]
               /\ Takes(Told(x), Told(x)', Says("DEL", None))
               /\ Grown(ToOwner(n), ToOwner(n)', Says("DEL", None))
               /\ ToldBut({x}) /\ UpBut({n}) /\ DownBut({})
               /\ UNCHANGED <<channel, channel_n, remote>>
            \/ /\ n = Owner /\ Reached(Says("DELR", None))
               /\ \/ /\ x \in Service /\ harbor[x] = Owner /\ ToldBut({x}) /\ UpBut({})
                     /\ Takes(Told(x), Told(x)', Says("DEL", None))
                  \/ /\ x \in Node \ {Owner} /\ ToldBut({}) /\ UpBut({x})
                     /\ Takes(ToOwner(x), ToOwner(x)', Says("DEL", None))
               /\ channel' = Gone(Owner) /\ remote' = None
               /\ channel_n' = [channel_n EXCEPT ![Owner] = 0]
<1>1. Asked(n, x, "DEL")
  BY DEF Del
<1>2. ASSUME n # Owner
      PROVE  /\ to' = Queued(Rest(n, x), n, Owner, Says("DEL", None))
             /\ UNCHANGED <<channel, channel_n, remote>>
  BY <1>2 DEF Del
<1>3. ASSUME n = Owner
      PROVE  /\ Spreading(x, Says("DELR", None))
             /\ channel' = Gone(Owner) /\ remote' = None
             /\ channel_n' = [channel_n EXCEPT ![Owner] = 0]
  BY <1>3 DEF Del, Spreading
<1>4. CASE n # Owner
  <2>1. x \in Service
    <3> DEFINE m == Head(to[n][x])
    <3>1. to[n][x] # <<>> /\ m.cmd = "DEL" /\ to[n][x] \in Seq(Letters(n, x))
      BY <1>1, MulticastAssumption DEF Asked, Shape, Typed
    <3>2. m \in Letters(n, x)
      BY <3>1, TailShrinks
    <3> HIDE DEF m
    <3> QED
      BY <1>4, <3>1, <3>2, LettersAre, DownKinds
  <2> DEFINE l == Says("DEL", None)
  <2>2. l \in FromNode(n)
    BY LettersSaid
  <2>3. to' = Queued(Rest(n, x), n, Owner, l)
    BY <1>2, <1>4
  <2> HIDE DEF l
  <2>4. /\ n = harbor[x] /\ Typed(to') /\ Heard(x, "DEL") /\ Grown(ToOwner(n), ToOwner(n)', l)
        /\ ToldBut({x}) /\ UpBut({n}) /\ DownBut({})
    BY <1>1, <1>4, <2>1, <2>2, <2>3, Passing
  <2> QED
    BY <1>2, <1>4, <2>1, <2>4, HeardIs DEF l
<1>5. CASE n = Owner
  <2> DEFINE l == Says("DELR", None)
  <2>1. l \in {Says("DELR", None)} \cup Publications /\ Spreading(x, l) /\ Asked(Owner, x, "DEL")
    BY <1>1, <1>3, <1>5
  <2> HIDE DEF l
  <2>2. /\ Typed(to') /\ Reached(l)
        /\ \/ x \in Service /\ harbor[x] = Owner /\ Heard(x, "DEL") /\ ToldBut({x}) /\ UpBut({})
           \/ x \in Node \ {Owner} /\ HeardUp(x, "DEL") /\ ToldBut({}) /\ UpBut({x})
    BY <2>1, SpreadingDoes
  <2> QED
    BY <1>3, <1>5, <2>2, HeardIs, HeardUpIs DEF l
<1> QED
  BY <1>4, <1>5

(* What the subscribers of n get of the publication p, and x, if a service *)
Delivered(n, p, x) ==
    /\ inbox' \in [Service -> Seq(Answers)]
    /\ \A t \in Service : \A y :
          /\ In(inbox'[t], y) <=> \/ In(inbox[t], y)
                                  \/ t \in Set(channel[n]) \cap alive /\ y = Says("multicast", p)
                                  \/ t = x /\ t \in alive /\ y = Says("PUB", None)
          /\ Once(inbox[t], y) /\ y # Says("PUB", None)
                /\ (t \in Set(channel[n]) /\ y = Says("multicast", p) => ~In(inbox[t], y))
             => Once(inbox'[t], y)
    /\ reference' = [reference EXCEPT ![n][p] = IF Set(channel[n]) = {} THEN 0 ELSE channel_n[n]]
    /\ handed' = [s \in Service |-> IF s \in Set(channel[n]) THEN handed[s] + 1 ELSE handed[s]]
    /\ UNCHANGED handling
    /\ lost' = [s \in Service |-> IF s \in Set(channel[n]) \ alive THEN lost[s] \cup {p} ELSE lost[s]]

LEMMA Delivering ==
  ASSUME Shape, NEW n \in Node, NEW p \in Pub, NEW x \in Node \cup Service, NEW t,
         PublishAt(n, p, t, x), UNCHANGED handling
  PROVE  Delivered(n, p, x)
<1> DEFINE m == Says("multicast", p)
           a == Says("PUB", None)
           group == Set(channel[n])
           box == [s \in Service |-> IF s \in group \cap alive THEN Append(inbox[s], m) ELSE inbox[s]]
<1>1. inbox \in [Service -> Seq(Answers)] /\ m \in Answers /\ a \in Answers
  BY DEF Shape, Answers, Publications
<1>2. inbox' = IF x \in Service THEN Answered(box, x, "PUB") ELSE box
  BY DEF PublishAt
<1>3. /\ reference' = [reference EXCEPT ![n][p] = IF group = {} THEN 0 ELSE channel_n[n]]
      /\ handed' = [s \in Service |-> IF s \in group THEN handed[s] + 1 ELSE handed[s]]
      /\ lost' = [s \in Service |-> IF s \in group \ alive THEN lost[s] \cup {p} ELSE lost[s]]
  BY DEF PublishAt
<1>4. inbox' = [s \in Service |-> IF s = x /\ s \in alive THEN Append(box[s], a) ELSE box[s]]
  BY <1>2 DEF Answered
<1>5. m # a
  BY DEF Says
<1> HIDE DEF m, a, group
<1>6. ASSUME NEW s \in Service
      PROVE  /\ box[s] \in Seq(Answers)
             /\ IF s \in group \cap alive THEN Grown(inbox[s], box[s], m) ELSE box[s] = inbox[s]
  BY <1>1, AppendGrows
<1> HIDE DEF box
<1>7. ASSUME NEW s \in Service
      PROVE  /\ inbox'[s] \in Seq(Answers)
             /\ IF s = x /\ s \in alive THEN Grown(box[s], inbox'[s], a) ELSE inbox'[s] = box[s]
  BY <1>1, <1>4, <1>6, AppendGrows
<1>8. inbox' \in [Service -> Seq(Answers)]
  BY <1>4, <1>7
<1>9. ASSUME NEW s \in Service, NEW y
      PROVE  /\ In(inbox'[s], y) <=> \/ In(inbox[s], y)
                                     \/ s \in group \cap alive /\ y = m
                                     \/ s = x /\ s \in alive /\ y = a
             /\ Once(inbox[s], y) /\ y # a /\ (s \in group /\ y = m => ~In(inbox[s], y))
                   => Once(inbox'[s], y)
  BY <1>5, <1>6, <1>7 DEF Grown
<1> QED
  BY <1>3, <1>8, <1>9 DEF Delivered, m, a, group

LEMMA PubHereDoes ==
  ASSUME Shape, NEW n \in Node, NEW x \in Node \cup Service, PubHere(n, x)
  PROVE  /\ Typed(to')
         /\ \E p \in Pub :
               /\ Delivered(n, p, x)
               /\ \/ /\ n # Owner /\ x = Owner
                     /\ Takes(OfOwner(n), OfOwner(n)', Says("multicast", p))
                     /\ ToldBut({}) /\ UpBut({}) /\ DownBut({n}) /\ UNCHANGED published
                  \/ /\ n = Owner /\ Reached(Says("multicast", p))
                     /\ \/ /\ x \in Service /\ harbor[x] = Owner /\ ToldBut({x}) /\ UpBut({})
                           /\ Takes(Told(x), Told(x)', Says("PUB", p))
                        \/ /\ x \in Node \ {Owner} /\ ToldBut({}) /\ UpBut({x})
                           /\ Takes(ToOwner(x), ToOwner(x)', Says("multicast", p))
                     /\ published' = IF channel[Owner] # None THEN published + 1 ELSE published
<1> DEFINE p == Arg(n, x)
<1>1. PublishAt(n, p, Rest(n, x), x) /\ UNCHANGED handling
  BY DEF PubHere
<1>2. CASE n # Owner
  <2>1. Asked(n, x, "multicast") /\ to' = Rest(n, x)
    BY <1>2 DEF PubHere, PublishAt
  <2>2. x = Owner
    <3> DEFINE m == Head(to[n][x])
    <3>1. to[n][x] # <<>> /\ m.cmd = "multicast" /\ to[n][x] \in Seq(Letters(n, x))
      BY <2>1, MulticastAssumption DEF Asked, Shape, Typed
    <3>2. m \in Letters(n, x)
      BY <3>1, TailShrinks
    <3> HIDE DEF m
    <3> QED
      BY <1>2, <3>1, <3>2, LettersAre, ToldKinds
  <2>3. /\ Typed(to') /\ HeardDown(n, "multicast")
        /\ ToldBut({}) /\ UpBut({}) /\ DownBut({n})
    BY <2>1, <2>2, DownHearing
  <2>4. Takes(OfOwner(n), OfOwner(n)', Says("multicast", p)) /\ p \in Pub
    BY <2>2, <2>3, HeardDownIs DEF OfOwner, Arg
  <2>5. published' = published
    BY <1>2 DEF PubHere, PublishAt
  <2> HIDE DEF p
  <2>6. Delivered(n, p, x)
    BY <1>1, <2>4, Delivering
  <2> QED
    BY <1>2, <2>2, <2>3, <2>4, <2>5, <2>6
<1>3. CASE n = Owner
  <2>1. Asked(Owner, x, "multicast") \/ Asked(Owner, x, "PUB")
    BY <1>3 DEF PubHere
  <2>2. PICK cmd \in {"multicast", "PUB"} : Asked(Owner, x, cmd)
    BY <2>1
  <2> DEFINE l == Says("multicast", p)
  <2>3. Spreading(x, l)
    BY <1>3 DEF PubHere, PublishAt, Spreading
  <2>4. published' = IF channel[Owner] # None THEN published + 1 ELSE published
    BY <1>3 DEF PubHere, PublishAt
  <2>5. p = Head(to[Owner][x]).arg
    BY <1>3 DEF Arg
  <2> HIDE DEF p
  <2>6. p \in Pub
    <3> DEFINE m == Head(to[Owner][x])
    <3>1. to[Owner][x] # <<>> /\ m.cmd = cmd /\ to[Owner][x] \in Seq(Letters(Owner, x))
      BY <2>2, MulticastAssumption DEF Asked, Shape, Typed
    <3>2. m \in Letters(Owner, x) /\ p = m.arg
      BY <2>5, <3>1, TailShrinks
    <3> HIDE DEF m
    <3>3. CASE x \in Service /\ m \in FromService(x)
      BY <3>1, <3>2, <3>3, ToldKinds
    <3>4. CASE x \in Node /\ m \in FromNode(x)
      BY <3>1, <3>2, <3>4, UpKinds
    <3> QED
      BY <3>2, <3>3, <3>4, LettersAre, MulticastAssumption
  <2>7. l \in {Says("DELR", None)} \cup Publications
    BY <2>6 DEF Publications
  <2> HIDE DEF l
  <2>8. /\ Typed(to') /\ Reached(l)
        /\ \/ x \in Service /\ harbor[x] = Owner /\ Heard(x, cmd) /\ ToldBut({x}) /\ UpBut({})
           \/ x \in Node \ {Owner} /\ HeardUp(x, cmd) /\ ToldBut({}) /\ UpBut({x})
    BY <2>2, <2>3, <2>7, SpreadingDoes
  <2>9. \/ /\ x \in Service /\ harbor[x] = Owner /\ ToldBut({x}) /\ UpBut({})
           /\ Takes(Told(x), Told(x)', Says("PUB", p))
        \/ /\ x \in Node \ {Owner} /\ ToldBut({}) /\ UpBut({x})
           /\ Takes(ToOwner(x), ToOwner(x)', Says("multicast", p))
    <3>1. CASE x \in Service /\ harbor[x] = Owner /\ Heard(x, cmd) /\ ToldBut({x}) /\ UpBut({})
      <4>1. cmd = "PUB"
        BY <3>1, HeardIs
      <4>2. p = Head(Told(x)).arg
        BY <2>5, <3>1 DEF Told
      <4> QED
        BY <3>1, <4>1, <4>2, HeardIs
    <3>2. CASE x \in Node \ {Owner} /\ HeardUp(x, cmd) /\ ToldBut({}) /\ UpBut({x})
      <4>1. cmd = "multicast"
        BY <3>2, HeardUpIs
      <4>2. p = Head(ToOwner(x)).arg
        BY <2>5 DEF ToOwner
      <4> QED
        BY <3>2, <4>1, <4>2, HeardUpIs
    <3> QED
      BY <2>8, <3>1, <3>2
  <2>10. Delivered(n, p, x)
    BY <1>1, <2>6, Delivering
  <2> QED
    BY <1>3, <2>4, <2>6, <2>8, <2>9, <2>10 DEF l
<1> QED
  BY <1>2, <1>3

LEMMA PubRemoteDoes ==
  ASSUME Shape, NEW n \in Node, NEW s \in Service, PubRemote(n, s)
  PROVE  /\ n # Owner /\ n = harbor[s] /\ Typed(to')
         /\ \E p \in Pub : /\ Takes(Told(s), Told(s)', Says("PUB", p))
                           /\ Grown(ToOwner(n), ToOwner(n)', Says("multicast", p))
         /\ ToldBut({s}) /\ UpBut({n}) /\ DownBut({})
         /\ inbox' \in [Service -> Seq(Answers)] /\ Got(s, Says("PUB", None)) /\ InboxBut({s})
<1> DEFINE p == Arg(n, s)
           l == Says("multicast", p)
<1>1. /\ n # Owner /\ Asked(n, s, "PUB") /\ to' = Queued(Rest(n, s), n, Owner, l)
      /\ inbox' = Answered(inbox, s, "PUB")
  BY DEF PubRemote
<1>2. p \in Pub /\ n = harbor[s]
  <2> DEFINE m == Head(to[n][s])
  <2>1. to[n][s] # <<>> /\ m.cmd = "PUB" /\ to[n][s] \in Seq(Letters(n, s)) /\ p = m.arg
    BY <1>1, MulticastAssumption DEF Asked, Shape, Typed, Arg
  <2>2. m \in Letters(n, s)
    BY <2>1, TailShrinks
  <2> HIDE DEF m, p
  <2> QED
    BY <2>1, <2>2, LettersAre, ToldKinds, MulticastAssumption
<1>3. l \in FromNode(n)
  BY <1>2, LettersSaid
<1>4. p = Head(Told(s)).arg
  BY <1>2 DEF Arg, Told
<1> HIDE DEF l, p
<1>5. /\ Typed(to') /\ Heard(s, "PUB") /\ Grown(ToOwner(n), ToOwner(n)', l)
      /\ ToldBut({s}) /\ UpBut({n}) /\ DownBut({})
  BY <1>1, <1>3, Passing
<1>6. inbox' \in [Service -> Seq(Answers)] /\ Got(s, Says("PUB", None)) /\ InboxBut({s})
  BY <1>1, Answering
<1>7. Takes(Told(s), Told(s)', Says("PUB", p))
  BY <1>4, <1>5, HeardIs
<1> QED
  BY <1>1, <1>2, <1>5, <1>6, <1>7 DEF l
-----------------------------------------------------------------------------
(* Types                                                                   *)

LEMMA ServiceShape ==
  ASSUME Shape, NEW s \in Service,
         Subscribe(s) \/ Unsubscribe(s) \/ Delete(s) \/ Publish(s)
  PROVE  Shape'
<1>1. UNCHANGED <<alive, inbox, daemonVars, reference, handling, lost>>
  BY DEF Subscribe, Unsubscribe, Delete, Publish
<1>2. pubs \in 0..MaxPub /\ pubs' \in 0..MaxPub
  BY MulticastAssumption DEF Subscribe, Unsubscribe, Delete, Publish, Shape
<1>3. Typed(to')
  <2>1. PICK m \in FromService(s) : to' = Queued(to, s, harbor[s], m)
    <3>1. CASE Subscribe(s) \/ Unsubscribe(s) \/ Delete(s)
      BY <3>1, LettersSaid DEF Subscribe, Unsubscribe, Delete
    <3>2. CASE Publish(s)
      <4>1. pubs' \in Pub
        BY <1>2, <3>2, MulticastAssumption DEF Publish, Pub
      <4> QED
        BY <3>2, <4>1, LettersSaid DEF Publish
    <3> QED
      BY <3>1, <3>2
  <2> QED
    BY <2>1, Telling
<1>4. chan' \in [Service -> [channel : BOOLEAN, subscribe : BOOLEAN,
                             waits : SUBSET {"SUB", "PUB"}]]
  <2> DEFINE C == [channel : BOOLEAN, subscribe : BOOLEAN, waits : SUBSET {"SUB", "PUB"}]
  <2>1. chan \in [Service -> C] /\ chan[s] \in C
    BY DEF Shape
  <2>2. \E r \in C : chan' = [chan EXCEPT ![s] = r]
    <3>1. CASE Subscribe(s)
      <4>1. [chan[s] EXCEPT !.waits = @ \cup {"SUB"}] \in C
        BY <2>1
      <4> QED
        BY <3>1, <4>1 DEF Subscribe
    <3>2. CASE Unsubscribe(s)
      <4>1. [chan[s] EXCEPT !.subscribe = FALSE] \in C
        BY <2>1
      <4> QED
        BY <3>2, <4>1 DEF Unsubscribe
    <3>3. CASE Delete(s)
      <4>1. [chan[s] EXCEPT !.channel = FALSE, !.subscribe = FALSE] \in C
        BY <2>1
      <4>2. chan' = [chan EXCEPT ![s] = [chan[s] EXCEPT !.channel = FALSE, !.subscribe = FALSE]]
        BY <2>1, <3>3 DEF Delete
      <4> QED
        BY <4>1, <4>2
    <3>4. CASE Publish(s)
      <4>1. [chan[s] EXCEPT !.waits = @ \cup {"PUB"}] \in C
        BY <2>1
      <4> QED
        BY <3>4, <4>1 DEF Publish
    <3> QED
      BY <3>1, <3>2, <3>3, <3>4
  <2> QED
    BY <2>1, <2>2
<1> QED
  BY <1>1, <1>2, <1>3, <1>4 DEF Shape, daemonVars

LEMMA ExitDoes ==
  ASSUME Shape, NEW s \in Service, Exit(s)
  PROVE  /\ Typed(to') /\ UpBut({}) /\ DownBut({})
         /\ \/ chan[s].subscribe /\ Grown(Told(s), Told(s)', Says("USUB", s)) /\ ToldBut({s})
            \/ ToldBut({})
         /\ ~chan[s].subscribe => ToldBut({})
<1>1. CASE chan[s].channel /\ chan[s].subscribe
  <2> DEFINE m == Says("USUB", s)
  <2>1. to' = Queued(to, s, harbor[s], m) /\ m \in FromService(s)
    BY <1>1, LettersSaid DEF Exit
  <2> HIDE DEF m
  <2>2. Typed(to') /\ Grown(Told(s), Told(s)', m) /\ ToldBut({s}) /\ UpBut({}) /\ DownBut({})
    BY <2>1, Telling
  <2> QED
    BY <1>1, <2>2 DEF m
<1>2. CASE ~(chan[s].channel /\ chan[s].subscribe)
  <2>1. to' = to
    BY <1>2 DEF Exit
  <2> QED
    BY <2>1 DEF Shape, ToldBut, UpBut, DownBut, Told, ToOwner, OfOwner
<1> QED
  BY <1>1, <1>2

(* The publications of the messages that a service loses at its exit       *)
LEMMA BroughtIs ==
  ASSUME NEW q \in Seq(Answers)
  PROVE  /\ Brought(q) \subseteq Pub
         /\ \A p : p \in Brought(q) <=> In(q, Says("multicast", p))
<1>1. ASSUME NEW k \in DOMAIN q, q[k].cmd = "multicast"
      PROVE  q[k].arg \in Pub /\ q[k] = Says("multicast", q[k].arg)
  <2>1. q[k] \in Answers
    OBVIOUS
  <2>2. q[k] \in Publications
    BY <1>1, <2>1 DEF Answers, Says
  <2>3. PICK p \in Pub : q[k] = Says("multicast", p)
    BY <2>2 DEF Publications
  <2> QED
    BY <2>3 DEF Says
<1>2. \A p : p \in Brought(q) <=> \E k \in DOMAIN q : q[k].cmd = "multicast" /\ q[k].arg = p
  BY DEF Brought
<1>3. \A p : Says("multicast", p).cmd = "multicast" /\ Says("multicast", p).arg = p
  BY DEF Says
<1> QED
  BY <1>1, <1>2, <1>3 DEF In

LEMMA JoinTyped ==
  ASSUME Shape, NEW n \in Node, NEW s \in Service, NEW group \in SUBSET Service, Join(n, group, s)
  PROVE  /\ channel' \in [Node -> {None} \cup SUBSET Service] /\ channel_n' \in [Node -> Int]
         /\ handed' \in [Service -> Int]
<1>1. group \cup {s} \in SUBSET Service
  OBVIOUS
<1>2. channel' \in [Node -> {None} \cup SUBSET Service]
  BY <1>1 DEF Join, Shape
<1>3. channel_n' \in [Node -> Int]
  BY DEF Join, Shape
<1>4. published - InFlight(n) \in Int
  <2> DEFINE q == to[n][Owner]
             K == {k \in DOMAIN q : q[k].cmd = "multicast"}
  <2>1. Len(q) \in Nat /\ DOMAIN q = 1..Len(q)
    BY MulticastAssumption DEF Shape, Typed
  <2> HIDE DEF q
  <2>2. IsFiniteSet(K)
    <3>1. K \subseteq 1..Len(q) /\ IsFiniteSet(1..Len(q))
      BY <2>1, FS_Interval
    <3> QED
      BY <3>1, FS_Subset
  <2> HIDE DEF K
  <2>3. Cardinality(K) \in Int
    BY <2>2, FS_CardinalityType
  <2> QED
    BY <2>3 DEF InFlight, K, q, Shape
<1>5. handed' \in [Service -> Int]
  BY <1>4 DEF Join, Shape
<1> QED
  BY <1>2, <1>3, <1>5

LEMMA ShapeStep ==
  ASSUME Shape, Next
  PROVE  Shape'
<1> DEFINE C == [channel : BOOLEAN, subscribe : BOOLEAN, waits : SUBSET {"SUB", "PUB"}]
<1>1. ASSUME NEW s \in Service,
             Subscribe(s) \/ Unsubscribe(s) \/ Delete(s) \/ Publish(s) PROVE Shape'
  BY <1>1, ServiceShape
<1>2. ASSUME NEW s \in Service, Exit(s) PROVE Shape'
  <2>1. inbox' \in [Service -> Seq(Answers)] /\ alive' \subseteq Service
    BY <1>2 DEF Exit, Shape
  <2>2. handling' \in [Service -> SUBSET Pub] /\ lost' \in [Service -> SUBSET Pub]
    <3>1. inbox[s] \in Seq(Answers) /\ handling[s] \in SUBSET Pub /\ lost[s] \in SUBSET Pub
      BY DEF Shape
    <3>2. lost[s] \cup handling[s] \cup Brought(inbox[s]) \in SUBSET Pub
      BY <3>1, BroughtIs
    <3> QED
      BY <1>2, <3>2 DEF Exit, Shape
  <2> QED
    BY <1>2, <2>1, <2>2, ExitDoes DEF Exit, daemonVars, Shape
<1>3. ASSUME NEW s \in Service, Receive(s) PROVE Shape'
  <2>1. inbox' \in [Service -> Seq(Answers)]
    BY <1>3, ReceiveDoes
  <2>2. /\ reference' \in [Node -> [Pub -> Int]]
        /\ handling' \in [Service -> SUBSET Pub] /\ lost' \in [Service -> SUBSET Pub]
        /\ chan' \in [Service -> C]
    <3> DEFINE Hands == handling' \in [Service -> SUBSET Pub] /\ lost' \in [Service -> SUBSET Pub]
    <3>1. PICK m \in Answers :
               \/ /\ \E p \in Pub : m = Says("multicast", p) /\ Received(s, p)
                  /\ UNCHANGED chan
               \/ /\ \E c \in {"SUB", "PUB"} :
                        chan' = [chan EXCEPT ![s].waits = @ \ {c},
                                             ![s].subscribe = @ \/ c = "SUB"]
                  /\ UNCHANGED <<reference, handling, lost>>
      BY <1>3, ReceiveDoes
    <3>2. ASSUME NEW p \in Pub, Received(s, p), UNCHANGED chan
          PROVE  reference' \in [Node -> [Pub -> Int]] /\ Hands /\ chan' \in [Service -> C]
      <4>1. /\ reference \in [Node -> [Pub -> Int]] /\ chan \in [Service -> C] /\ harbor[s] \in Node
            /\ handling \in [Service -> SUBSET Pub] /\ lost \in [Service -> SUBSET Pub]
            /\ handling[s] \cup {p} \in SUBSET Pub /\ lost[s] \cup {p} \in SUBSET Pub
        BY MulticastAssumption DEF Shape
      <4>2. reference' \in [Node -> [Pub -> Int]] /\ Hands
        <5>1. CASE /\ reference' = [reference EXCEPT ![harbor[s]][p] = @ - 1]
                   /\ UNCHANGED <<handling, lost>>
          BY <4>1, <5>1
        <5>2. CASE handling' = [handling EXCEPT ![s] = @ \cup {p}] /\ UNCHANGED <<reference, lost>>
          BY <4>1, <5>2
        <5>3. CASE lost' = [lost EXCEPT ![s] = @ \cup {p}] /\ UNCHANGED <<reference, handling>>
          BY <4>1, <5>3
        <5> QED
          BY <3>2, <5>1, <5>2, <5>3, ReceivedDoes
      <4> QED
        BY <3>2, <4>1, <4>2
    <3>3. ASSUME NEW c \in {"SUB", "PUB"}, UNCHANGED <<reference, handling, lost>>,
                 chan' = [chan EXCEPT ![s].waits = @ \ {c}, ![s].subscribe = @ \/ c = "SUB"]
          PROVE  reference' \in [Node -> [Pub -> Int]] /\ Hands /\ chan' \in [Service -> C]
      BY <3>3, AnswerTaken DEF Shape
    <3> QED
      BY <3>1, <3>2, <3>3
  <2>3. UNCHANGED <<alive, to, daemonVars, asked, pubs>>
    BY <1>3 DEF Receive
  <2> QED
    BY <2>1, <2>2, <2>3 DEF daemonVars, Shape
<1>4. ASSUME NEW n \in Node, NEW s \in Service, Sub(n, s) PROVE Shape'
  <2>1. /\ channel' \in [Node -> {None} \cup SUBSET Service] /\ channel_n' \in [Node -> Int]
        /\ handed' \in [Service -> Int]
    <3>1. CASE channel[n] # None /\ Join(n, channel[n], s)
      <4>1. channel[n] \in SUBSET Service
        BY <3>1 DEF Shape
      <4> QED
        BY <3>1, <4>1, JoinTyped
    <3>2. CASE UNCHANGED <<channel, channel_n, handed>>
      BY <3>2 DEF Shape
    <3> QED
      BY <1>4, <3>1, <3>2, SubDoes
  <2> QED
    BY <1>4, <2>1, SubDoes DEF Sub, Shape
<1>5. ASSUME NEW n \in Node, NEW s \in Service, SubCall(n, s) PROVE Shape'
  <2>1. calling' \in [Node -> SUBSET Service]
    BY <1>5 DEF SubCall, Shape
  <2> QED
    BY <1>5, <2>1, SubCallDoes DEF SubCall, Shape
<1>6. ASSUME NEW n \in Node, SubR(n) PROVE Shape'
  <2>1. n # Owner
    BY <1>6, SubRDoes
  <2>2. remote' \in {None} \cup SUBSET (Node \ {Owner})
    BY <1>6, <2>1 DEF SubR, Set, Shape
  <2> QED
    BY <1>6, <2>2, SubRDoes DEF SubR, Shape
<1>7. ASSUME NEW n \in Node, SubAnswered(n) PROVE Shape'
  <2>1. PICK s \in Here(n), c \in {"some", "none"} :
            /\ IF c = "none" THEN UNCHANGED <<channel, channel_n, handed>>
                             ELSE Join(n, Set(channel[n]), s)
            /\ calling' = [calling EXCEPT ![n] = @ \ {s}]
    BY <1>7, SubAnsweredDoes
  <2>2. s \in Service /\ Set(channel[n]) \in SUBSET Service
    BY DEF Here, Set, Shape
  <2>3. /\ channel' \in [Node -> {None} \cup SUBSET Service] /\ channel_n' \in [Node -> Int]
        /\ handed' \in [Service -> Int]
    <3>1. CASE c = "none"
      BY <2>1, <3>1 DEF Shape
    <3>2. CASE c # "none"
      BY <2>1, <2>2, <3>2, JoinTyped
    <3> QED
      BY <3>1, <3>2
  <2>4. calling' \in [Node -> SUBSET Service]
    BY <2>1 DEF Shape
  <2> QED
    BY <1>7, <2>3, <2>4, SubAnsweredDoes DEF SubAnswered, Shape
<1>8. ASSUME NEW n \in Node, NEW s \in Service, Usub(n, s) PROVE Shape'
  <2>1. Typed(to')
    BY <1>8, UsubDoes
  <2>2. channel' \in [Node -> {None} \cup SUBSET Service] /\ channel_n' \in [Node -> Int]
    <3>1. CASE s \in Set(channel[n])
      <4>1. channel[n] \in SUBSET Service
        BY <3>1 DEF Set, Shape
      <4>2. Leave(n, s)
        BY <1>8, <3>1 DEF Usub
      <4> QED
        BY <4>1, <4>2 DEF Leave, Shape
    <3>2. CASE s \notin Set(channel[n])
      BY <1>8, <3>2 DEF Usub, Shape
    <3> QED
      BY <3>1, <3>2
  <2>3. crossed' \in BOOLEAN
    BY <1>8 DEF Usub
  <2> QED
    BY <1>8, <2>1, <2>2, <2>3 DEF Usub, Shape
<1>9. ASSUME NEW n \in Node, UsubR(n) PROVE Shape'
  <2>1. remote' \in {None} \cup SUBSET (Node \ {Owner})
    BY <1>9 DEF UsubR, Shape
  <2> QED
    BY <1>9, <2>1, UsubRDoes DEF UsubR, Shape
<1>10. ASSUME NEW n \in Node, NEW x \in Node \cup Service, Del(n, x) PROVE Shape'
  <2>1. Typed(to')
    BY <1>10, DelDoes
  <2>2. /\ channel' \in [Node -> {None} \cup SUBSET Service] /\ channel_n' \in [Node -> Int]
        /\ remote' \in {None} \cup SUBSET (Node \ {Owner})
    <3>1. CASE UNCHANGED <<channel, channel_n, remote>>
      BY <3>1 DEF Shape
    <3>2. CASE /\ channel' = Gone(Owner) /\ remote' = None
               /\ channel_n' = [channel_n EXCEPT ![Owner] = 0]
      <4>1. channel' \in [Node -> {None} \cup SUBSET Service]
        BY <3>2 DEF Gone, Shape
      <4>2. channel_n \in [Node -> Int]
        BY DEF Shape
      <4> DEFINE z == 0
      <4>3. z \in Int /\ channel_n' = [channel_n EXCEPT ![Owner] = z]
        BY <3>2
      <4> HIDE DEF z
      <4>4. channel_n' \in [Node -> Int]
        BY <4>2, <4>3
      <4> QED
        BY <3>2, <4>1, <4>4
    <3> QED
      BY <1>10, <3>1, <3>2, DelDoes
  <2> QED
    BY <1>10, <2>1, <2>2 DEF Del, Shape
<1>11. ASSUME NEW n \in Node, DelR(n) PROVE Shape'
  <2>1. channel' \in [Node -> {None} \cup SUBSET Service] /\ channel_n' \in [Node -> Int]
    BY <1>11 DEF DelR, Gone, Shape
  <2> QED
    BY <1>11, <2>1, DelRDoes DEF DelR, Shape
<1>12. ASSUME NEW n \in Node, NEW x \in Node \cup Service, PubHere(n, x) PROVE Shape'
  <2>1. PICK p \in Pub : Delivered(n, p, x)
    BY <1>12, PubHereDoes
  <2>2. /\ inbox' \in [Service -> Seq(Answers)] /\ reference' \in [Node -> [Pub -> Int]]
        /\ handed' \in [Service -> Int]
    BY <2>1 DEF Delivered, Shape
  <2>3. published' \in Int
    BY <1>12 DEF PubHere, PublishAt, Shape
  <2>4. handling' \in [Service -> SUBSET Pub] /\ lost' \in [Service -> SUBSET Pub]
    BY <2>1 DEF Delivered, Shape
  <2> QED
    BY <1>12, <2>2, <2>3, <2>4, PubHereDoes DEF PubHere, Shape
<1>13. ASSUME NEW n \in Node, NEW s \in Service, PubRemote(n, s) PROVE Shape'
  BY <1>13, PubRemoteDoes DEF PubRemote, daemonVars, Shape
<1>14. ASSUME NEW s \in Service, NEW p \in Pub, Handled(s, p) PROVE Shape'
  <2>1. /\ handling' = [handling EXCEPT ![s] = @ \ {p}]
        /\ reference' = [reference EXCEPT ![harbor[s]][p] = @ - 1]
        /\ UNCHANGED <<alive, chan, inbox, to, channel, channel_n, remote, calling, published,
                       handed, crossed, pubs, lost>>
    BY <1>14, HandledDoes
  <2>2. reference' \in [Node -> [Pub -> Int]]
    <3>1. reference \in [Node -> [Pub -> Int]] /\ harbor[s] \in Node
      BY MulticastAssumption DEF Shape
    <3> QED
      BY <2>1, <3>1
  <2>3. handling' \in [Service -> SUBSET Pub]
    BY <2>1 DEF Shape
  <2> QED
    BY <2>1, <2>2, <2>3 DEF Shape
<1> QED
  BY <1>14, <1>1, <1>2, <1>3, <1>4, <1>5, <1>6, <1>7, <1>8, <1>9, <1>10, <1>11, <1>12, <1>13 DEF Next
-----------------------------------------------------------------------------
(* The subscribers of the nodes                                            *)

GroupBut(N) == \A n \in Node \ N : channel'[n] = channel[n] /\ channel_n'[n] = channel_n[n]

LEMMA NotNone ==
  ASSUME NEW g, g \subseteq Service \/ g \subseteq Node
  PROVE  g # None
<1>1. CASE g \subseteq Service
  BY <1>1, MulticastAssumption
<1>2. CASE g \subseteq Node
  BY <1>2, MulticastAssumption
<1> QED
  BY <1>1, <1>2

LEMMA HereIsFinite == \A n \in Node : IsFiniteSet(Here(n)) /\ Here(n) \subseteq Service
<1> TAKE n \in Node
<1>1. Here(n) \subseteq Service
  BY DEF Here
<1> QED
  BY <1>1, MulticastAssumption, FS_Subset

LEMMA SetIs ==
  ASSUME Shape, NEW n \in Node, GroupOK(n)
  PROVE  /\ Set(channel[n]) \subseteq Here(n) /\ IsFiniteSet(Set(channel[n]))
         /\ channel[n] # None => Set(channel[n]) = channel[n]
         /\ channel[n] = None => Set(channel[n]) = {}
         /\ channel_n[n] = Cardinality(Set(channel[n])) /\ channel_n[n] \in Nat
<1>1. Set(channel[n]) \subseteq Here(n)
  BY DEF GroupOK, Set
<1>2. IsFiniteSet(Set(channel[n]))
  BY <1>1, HereIsFinite, FS_Subset
<1>3. Cardinality(Set(channel[n])) \in Nat
  BY <1>2, FS_CardinalityType
<1> QED
  BY <1>1, <1>2, <1>3 DEF Set, GroupOK

LEMMA JoinDoes ==
  ASSUME Shape, NEW n \in Node, GroupOK(n), NEW s \in Here(n), Join(n, Set(channel[n]), s)
  PROVE  /\ GroupOK(n)' /\ GroupBut({n})
         /\ channel'[n] # None /\ Set(channel'[n]) = Set(channel[n]) \cup {s}
         /\ \A t \in Service : t \in Set(channel[n]) \/ t # s => handed'[t] = handed[t]
         /\ s \notin Set(channel[n]) => handed'[s] = published - InFlight(n)
<1> DEFINE group == Set(channel[n])
           g == group \cup {s}
<1>1. /\ group \subseteq Here(n) /\ IsFiniteSet(group)
      /\ channel_n[n] = Cardinality(group) /\ channel_n[n] \in Nat
  BY SetIs
<1>2. /\ channel' = [channel EXCEPT ![n] = g]
      /\ channel_n' = [channel_n EXCEPT ![n] = IF s \in group THEN @ ELSE @ + 1]
      /\ handed' = IF s \in group THEN handed ELSE [handed EXCEPT ![s] = published - InFlight(n)]
  BY DEF Join
<1>3. s \in Service /\ g \subseteq Service /\ g \subseteq Here(n)
  BY <1>1, HereIsFinite
<1>4. g # None
  BY <1>3, MulticastAssumption
<1>5. /\ channel'[n] = g /\ GroupBut({n})
      /\ channel_n'[n] = IF s \in group THEN channel_n[n] ELSE channel_n[n] + 1
  BY <1>2 DEF Shape, GroupBut
<1> HIDE DEF group
<1>6. Cardinality(g) = IF s \in group THEN Cardinality(group) ELSE Cardinality(group) + 1
  BY <1>1, FS_AddElement
<1>7. Set(channel'[n]) = g
  BY <1>4, <1>5 DEF Set
<1>8. GroupOK(n)'
  <2>1. channel_n'[n] = Cardinality(g)
    BY <1>1, <1>5, <1>6
  <2>2. g # {}
    OBVIOUS
  <2>3. Here(n)' = Here(n) /\ Set(channel[n])' = g
    BY <1>7 DEF Here, Set
  <2> HIDE DEF g
  <2> QED
    BY <1>3, <1>5, <2>1, <2>2, <2>3 DEF GroupOK
<1>9. \A t \in Service : t \in group \/ t # s => handed'[t] = handed[t]
  BY <1>2 DEF Shape
<1>10. s \notin group => handed'[s] = published - InFlight(n)
  BY <1>2, <1>3 DEF Shape
<1> QED
  BY <1>4, <1>5, <1>7, <1>8, <1>9, <1>10 DEF group

LEMMA LeaveDoes ==
  ASSUME Shape, NEW n \in Node, GroupOK(n), NEW s \in Set(channel[n]), Leave(n, s)
  PROVE  /\ GroupOK(n)' /\ GroupBut({n}) /\ channel[n] # None
         /\ Set(channel'[n]) = Set(channel[n]) \ {s}
         /\ channel'[n] = None <=> LastLeaves(n)
         /\ LastLeaves(n) => Set(channel[n]) = {s}
<1> DEFINE group == Set(channel[n])
           g == group \ {s}
<1>1. /\ group \subseteq Here(n) /\ IsFiniteSet(group) /\ channel[n] # None /\ channel[n] = group
      /\ channel_n[n] = Cardinality(group) /\ channel_n[n] \in Nat
  BY SetIs DEF Set
<1>2. /\ channel' = [channel EXCEPT ![n] = IF LastLeaves(n) THEN None ELSE g]
      /\ channel_n' = [channel_n EXCEPT ![n] = @ - 1]
  BY <1>1 DEF Leave
<1>3. g \subseteq Service /\ g \subseteq Here(n)
  BY <1>1, HereIsFinite
<1>4. g # None
  BY <1>3, MulticastAssumption
<1>5. /\ channel'[n] = IF LastLeaves(n) THEN None ELSE g
      /\ GroupBut({n}) /\ channel_n'[n] = channel_n[n] - 1
  BY <1>2 DEF Shape, GroupBut
<1> HIDE DEF group
<1>6. Cardinality(g) = Cardinality(group) - 1 /\ IsFiniteSet(g)
  BY <1>1, FS_RemoveElement DEF group
<1>7. Cardinality(g) = 0 <=> g = {}
  BY <1>6, FS_EmptySet
<1>8. LastLeaves(n) <=> n # Owner /\ g = {}
  BY <1>1, <1>6, <1>7 DEF LastLeaves
<1>9. Set(channel'[n]) = g
  BY <1>4, <1>5, <1>8 DEF Set
<1>10. GroupOK(n)'
  <2>1. channel_n'[n] = Cardinality(g)
    BY <1>1, <1>5, <1>6
  <2>2. Here(n)' = Here(n) /\ Set(channel[n])' = g
    BY <1>9 DEF Here, Set
  <2>3. \A k : k \subseteq Service => k # None
    BY MulticastAssumption
  <2>4. {} # None
    BY <2>3
  <2> HIDE DEF g
  <2> QED
    BY <1>3, <1>5, <1>8, <2>1, <2>2, <2>4 DEF GroupOK
<1>11. LastLeaves(n) => group = {s}
  BY <1>8 DEF group
<1> QED
  BY <1>1, <1>4, <1>5, <1>9, <1>10, <1>11 DEF group

LEMMA GroupKept ==
  ASSUME NEW n \in Node, GroupOK(n), channel'[n] = channel[n], channel_n'[n] = channel_n[n]
  PROVE  GroupOK(n)'
  BY DEF GroupOK, Here, Set

(* A group that is dissolved                                               *)
LEMMA GoneDoes ==
  ASSUME Shape, NEW n \in Node, channel' = Gone(n), channel_n' = [channel_n EXCEPT ![n] = 0]
  PROVE  GroupOK(n)' /\ GroupBut({n}) /\ channel'[n] = None
<1>1. channel'[n] = None /\ channel_n'[n] = 0 /\ GroupBut({n})
  BY DEF Gone, GroupBut, Shape
<1>2. Set(channel[n])' = {} /\ Cardinality({}) = 0 /\ {} # None
  BY <1>1, FS_EmptySet, MulticastAssumption DEF Set
<1> QED
  BY <1>1, <1>2 DEF GroupOK

LEMMA GroupsStep ==
  ASSUME Shape, GroupsOK, Next
  PROVE  GroupsOK'
<1>0. ASSUME UNCHANGED <<channel, channel_n, calling>> PROVE GroupsOK'
  BY <1>0, GroupKept DEF GroupsOK, Here
<1>1. ASSUME NEW n \in Node, GroupOK(n)', GroupBut({n}), UNCHANGED calling PROVE GroupsOK'
  BY <1>1, GroupKept DEF GroupsOK, GroupBut, Here
<1>2. ASSUME NEW s \in Service, \/ Subscribe(s) \/ Unsubscribe(s) \/ Delete(s) \/ Publish(s)
                                \/ Exit(s) \/ Receive(s)
      PROVE  UNCHANGED <<channel, channel_n, calling>>
  BY <1>2 DEF Subscribe, Unsubscribe, Delete, Publish, Exit, Receive, daemonVars
<1>3. ASSUME NEW n \in Node, NEW s \in Service, Sub(n, s) PROVE GroupsOK'
  <2>1. n = harbor[s] /\ s \in Here(n) /\ GroupOK(n) /\ UNCHANGED calling
    BY <1>3, SubDoes DEF Here, GroupsOK, Sub
  <2>2. CASE channel[n] # None /\ Join(n, channel[n], s)
    <3>1. Join(n, Set(channel[n]), s)
      BY <2>1, <2>2, SetIs
    <3> QED
      BY <1>1, <2>1, <3>1, JoinDoes
  <2>3. CASE UNCHANGED <<channel, channel_n, handed>>
    BY <1>0, <2>1, <2>3
  <2> QED
    BY <1>3, <2>2, <2>3, SubDoes
<1>4. ASSUME NEW n \in Node, NEW s \in Service, SubCall(n, s) PROVE GroupsOK'
  <2>1. n # Owner /\ s \in Here(n)
    BY <1>4, SubCallDoes
  <2>2. calling' = [calling EXCEPT ![n] = @ \cup {s}] /\ UNCHANGED <<channel, channel_n>>
    BY <1>4 DEF SubCall
  <2>3. calling'[Owner] = {} /\ \A k \in Node : calling'[k] \subseteq Here(k)
    BY <2>1, <2>2, MulticastAssumption DEF GroupsOK, Shape
  <2> QED
    BY <2>2, <2>3, GroupKept DEF GroupsOK, Here
<1>5. ASSUME NEW n \in Node, SubR(n) \/ UsubR(n) PROVE UNCHANGED <<channel, channel_n, calling>>
  BY <1>5 DEF SubR, UsubR
<1>6. ASSUME NEW n \in Node, SubAnswered(n) PROVE GroupsOK'
  <2>1. PICK s \in Here(n), c \in {"some", "none"} :
            /\ IF c = "none" THEN UNCHANGED <<channel, channel_n, handed>>
                             ELSE Join(n, Set(channel[n]), s)
            /\ calling' = [calling EXCEPT ![n] = @ \ {s}]
    BY <1>6, SubAnsweredDoes
  <2>2. calling'[Owner] = {} /\ \A k \in Node : calling'[k] \subseteq Here(k)
    BY <2>1, MulticastAssumption DEF GroupsOK, Shape
  <2>3. \A k \in Node : GroupOK(k)'
    <3>1. CASE c = "none"
      BY <2>1, <3>1, GroupKept DEF GroupsOK
    <3>2. CASE c # "none"
      <4>1. GroupOK(n)' /\ GroupBut({n})
        BY <2>1, <3>2, JoinDoes DEF GroupsOK
      <4> QED
        BY <4>1, GroupKept DEF GroupBut, GroupsOK
    <3> QED
      BY <3>1, <3>2
  <2> QED
    BY <2>2, <2>3 DEF GroupsOK, Here
<1>7. ASSUME NEW n \in Node, NEW s \in Service, Usub(n, s) PROVE GroupsOK'
  <2>1. UNCHANGED calling /\ GroupOK(n)
    BY <1>7 DEF Usub, GroupsOK
  <2>2. CASE s \in Set(channel[n])
    <3>1. Leave(n, s)
      BY <1>7, <2>2 DEF Usub
    <3> QED
      BY <1>1, <2>1, <2>2, <3>1, LeaveDoes
  <2>3. CASE s \notin Set(channel[n])
    BY <1>0, <1>7, <2>3 DEF Usub
  <2> QED
    BY <2>2, <2>3
<1>8. ASSUME NEW n \in Node, NEW x \in Node \cup Service, Del(n, x) PROVE GroupsOK'
  <2>1. UNCHANGED calling
    BY <1>8 DEF Del
  <2>2. CASE UNCHANGED <<channel, channel_n, remote>>
    BY <1>0, <2>1, <2>2
  <2>3. CASE channel' = Gone(Owner) /\ channel_n' = [channel_n EXCEPT ![Owner] = 0]
    BY <1>1, <2>1, <2>3, GoneDoes, MulticastAssumption
  <2> QED
    BY <1>8, <2>2, <2>3, DelDoes
<1>9. ASSUME NEW n \in Node, DelR(n) PROVE GroupsOK'
  BY <1>1, <1>9, GoneDoes DEF DelR
<1>10. ASSUME NEW n \in Node, NEW x \in Node \cup Service, PubHere(n, x)
       PROVE  UNCHANGED <<channel, channel_n, calling>>
  BY <1>10 DEF PubHere
<1>11. ASSUME NEW n \in Node, NEW s \in Service, PubRemote(n, s)
       PROVE  UNCHANGED <<channel, channel_n, calling>>
  BY <1>11 DEF PubRemote, daemonVars
<1>12. ASSUME NEW s \in Service, NEW p \in Pub, Handled(s, p)
       PROVE  UNCHANGED <<channel, channel_n, calling>>
  BY <1>12, HandledDoes
<1> QED
  BY <1>12, <1>0, <1>2, <1>3, <1>4, <1>5, <1>6, <1>7, <1>8, <1>9, <1>10, <1>11 DEF Next
-----------------------------------------------------------------------------
(* A SUB is in one place                                                   *)

(* What happens between q and r concerns m not, or takes it away at most.  *)
Quiet(q, r, m) == (In(r, m) <=> In(q, m)) /\ (Once(q, m) => Once(r, m))
Calm(q, r, m)  == (In(r, m) => In(q, m)) /\ (Once(q, m) => Once(r, m))

LEMMA QuietIs ==
  ASSUME NEW q, NEW r, NEW m, NEW l, l # m, Grown(q, r, l) \/ Shrunk(q, r, l)
  PROVE  Quiet(q, r, m) /\ Calm(q, r, m)
  BY DEF Grown, Shrunk, Quiet, Calm

LEMMA SameIsQuiet ==
  ASSUME NEW q, NEW r, NEW m, r = q
  PROVE  Quiet(q, r, m) /\ Calm(q, r, m)
  BY DEF Quiet, Calm

CalmTold(t)  == Calm(Told(t), Told(t)', Says("SUB", t))
CalmInbox(t) == Calm(inbox[t], inbox'[t], Says("SUB", None))
QuietUp(t)   == Quiet(ToOwner(harbor[t]), ToOwner(harbor[t])', Says("SUBR", t))
QuietDown(t) == \A c \in {"some", "none"} :
                    Quiet(OfOwner(harbor[t]), OfOwner(harbor[t])', Says(c, t))
SameCall(t)  == t \in calling'[harbor[t]] <=> t \in calling[harbor[t]]
StillAsks(t) == "SUB" \in chan[t].waits => "SUB" \in chan'[t].waits

LEMMA AskedKept ==
  ASSUME NEW t \in Service, AskedOnce(t), CalmTold(t), CalmInbox(t), QuietUp(t), QuietDown(t),
         SameCall(t), StillAsks(t)
  PROVE  AskedOnce(t)'
<1>1. (Asks(t)' => Asks(t)) /\ (Has(t)' => Has(t)) /\ (Waits(t)' <=> Waits(t))
  BY DEF CalmTold, CalmInbox, SameCall, Calm, Asks, Has, Waits
<1>2. /\ Once(Told(t), Says("SUB", t)) => Once(Told(t), Says("SUB", t))'
      /\ Once(inbox[t], Says("SUB", None)) => Once(inbox[t], Says("SUB", None))'
  BY DEF CalmTold, CalmInbox, Calm, Says, Once
<1>3. /\ Remotely(t)' <=> Remotely(t)
      /\ Once(ToOwner(harbor[t]), Says("SUBR", t)) => Once(ToOwner(harbor[t]), Says("SUBR", t))'
  BY DEF QuietUp, Quiet, Remotely, Says, In, Once
<1>4. /\ (Some(t)' <=> Some(t)) /\ (Nobody(t)' <=> Nobody(t))
      /\ Once(OfOwner(harbor[t]), Says("some", t)) => Once(OfOwner(harbor[t]), Says("some", t))'
      /\ Once(OfOwner(harbor[t]), Says("none", t)) => Once(OfOwner(harbor[t]), Says("none", t))'
  BY DEF QuietDown, Quiet, Some, Nobody, Says, In, Once
<1> QED
  BY <1>1, <1>2, <1>3, <1>4 DEF AskedOnce, StillAsks

LEMMA ToldCalm ==
  ASSUME NEW t \in Service, NEW s, ToldBut({s}), t # s
  PROVE  CalmTold(t)
  BY SameIsQuiet DEF CalmTold, ToldBut

LEMMA ToldsCalm ==
  ASSUME NEW t \in Service, NEW s, NEW l, ToldBut({s}), l # Says("SUB", t),
         Grown(Told(s), Told(s)', l) \/ Shrunk(Told(s), Told(s)', l)
  PROVE  CalmTold(t)
<1>1. CASE t = s
  BY <1>1, QuietIs DEF CalmTold
<1>2. CASE t # s
  BY <1>2, ToldCalm
<1> QED
  BY <1>1, <1>2

LEMMA UpQuiet ==
  ASSUME NEW t \in Service, NEW n \in Node, NEW l, UpBut({n}), l # Says("SUBR", t),
         Grown(ToOwner(n), ToOwner(n)', l) \/ Shrunk(ToOwner(n), ToOwner(n)', l)
  PROVE  QuietUp(t)
<1> PICK h \in Node : h = harbor[t]
  BY MulticastAssumption
<1>1. CASE h = n
  <2>1. Quiet(ToOwner(n), ToOwner(n)', Says("SUBR", t))
    BY QuietIs
  <2> QED
    BY <1>1, <2>1 DEF QuietUp
<1>2. CASE h # n
  <2>1. ToOwner(h)' = ToOwner(h)
    BY <1>2 DEF UpBut
  <2>2. Quiet(ToOwner(h), ToOwner(h)', Says("SUBR", t))
    BY <2>1, SameIsQuiet
  <2> QED
    BY <2>2 DEF QuietUp
<1> QED
  BY <1>1, <1>2

LEMMA DownQuiet ==
  ASSUME NEW t \in Service, NEW n \in Node, NEW l, DownBut({n}),
         l # Says("some", t), l # Says("none", t),
         Grown(OfOwner(n), OfOwner(n)', l) \/ Shrunk(OfOwner(n), OfOwner(n)', l)
  PROVE  QuietDown(t)
<1> PICK h \in Node : h = harbor[t]
  BY MulticastAssumption
<1> SUFFICES ASSUME NEW c \in {"some", "none"}
             PROVE  Quiet(OfOwner(h), OfOwner(h)', Says(c, t))
  BY DEF QuietDown
<1>1. CASE h = n
  BY <1>1, QuietIs
<1>2. CASE h # n
  <2>1. OfOwner(h)' = OfOwner(h)
    BY <1>2 DEF DownBut
  <2> QED
    BY <2>1, SameIsQuiet
<1> QED
  BY <1>1, <1>2

LEMMA ReachedQuiet ==
  ASSUME NEW t \in Service, NEW l, Reached(l), l # Says("some", t), l # Says("none", t)
  PROVE  QuietDown(t)
<1> PICK h \in Node : h = harbor[t]
  BY MulticastAssumption
<1> SUFFICES ASSUME NEW c \in {"some", "none"}
             PROVE  Quiet(OfOwner(h), OfOwner(h)', Says(c, t))
  BY DEF QuietDown
<1>1. Grown(OfOwner(h), OfOwner(h)', l) \/ OfOwner(h)' = OfOwner(h)
  BY DEF Reached
<1> QED
  BY <1>1, QuietIs, SameIsQuiet

LEMMA NothingSaid ==
  ASSUME NEW t \in Service
  PROVE  /\ ToldBut({}) => CalmTold(t)
         /\ UpBut({}) => QuietUp(t)
         /\ DownBut({}) => QuietDown(t)
         /\ UNCHANGED inbox => CalmInbox(t)
<1> PICK h \in Node : h = harbor[t]
  BY MulticastAssumption
<1>1. ToldBut({}) => CalmTold(t)
  BY SameIsQuiet DEF CalmTold, ToldBut
<1>2. UpBut({}) => QuietUp(t)
  <2>1. UpBut({}) => Quiet(ToOwner(h), ToOwner(h)', Says("SUBR", t))
    BY SameIsQuiet DEF UpBut
  <2> QED
    BY <2>1 DEF QuietUp
<1>3. DownBut({}) => QuietDown(t)
  <2>1. DownBut({}) => \A c : Quiet(OfOwner(h), OfOwner(h)', Says(c, t))
    BY SameIsQuiet DEF DownBut
  <2> QED
    BY <2>1 DEF QuietDown
<1>4. UNCHANGED inbox => CalmInbox(t)
  BY SameIsQuiet DEF CalmInbox
<1> QED
  BY <1>1, <1>2, <1>3, <1>4

LEMMA InboxCalm ==
  ASSUME NEW t \in Service, NEW s \in Service, NEW m, m # Says("SUB", None) \/ t # s, InboxBut({s}),
         Got(s, m) \/ Shrunk(inbox[s], inbox'[s], m)
  PROVE  CalmInbox(t)
<1>1. CASE t = s
  BY <1>1, QuietIs, SameIsQuiet DEF CalmInbox, Got
<1>2. CASE t # s
  BY <1>2, SameIsQuiet DEF CalmInbox, InboxBut
<1> QED
  BY <1>1, <1>2

(* AskedOnce of the queues and places it is about                          *)
AskedWith(told, box, up, down, asks, calls, t) ==
    LET A == In(told, Says("SUB", t))
        H == In(box, Says("SUB", None))
        R == In(up, Says("SUBR", t))
        S == In(down, Says("some", t))
        N == In(down, Says("none", t))
    IN  /\ A \/ calls \/ H => asks
        /\ ~(A /\ calls) /\ ~(A /\ H) /\ ~(calls /\ H)
        /\ Once(told, Says("SUB", t)) /\ Once(box, Says("SUB", None))
        /\ calls <=> R \/ S \/ N
        /\ ~(R /\ S) /\ ~(R /\ N) /\ ~(S /\ N)
        /\ Once(up, Says("SUBR", t))
        /\ Once(down, Says("some", t)) /\ Once(down, Says("none", t))

LEMMA AskedIs ==
  ASSUME NEW t \in Service, NEW n \in Node, n = harbor[t]
  PROVE  /\ AskedOnce(t) <=> AskedWith(Told(t), inbox[t], ToOwner(n), OfOwner(n),
                                       "SUB" \in chan[t].waits, t \in calling[n], t)
         /\ AskedOnce(t)' <=> AskedWith(Told(t)', inbox'[t], ToOwner(n)', OfOwner(n)',
                                        "SUB" \in chan'[t].waits, t \in calling'[n], t)
<1>1. AskedOnce(t) <=> AskedWith(Told(t), inbox[t], ToOwner(n), OfOwner(n),
                                 "SUB" \in chan[t].waits, t \in calling[n], t)
  BY DEF AskedOnce, AskedWith, Asks, Waits, Has, Remotely, Some, Nobody
<1>2. AskedOnce(t)' <=> AskedWith(Told(t)', inbox'[t], ToOwner(n)', OfOwner(n)',
                                  "SUB" \in chan'[t].waits, t \in calling'[n], t)
  BY DEF AskedOnce, AskedWith, Asks, Waits, Has, Remotely, Some, Nobody, In, Once, Says
<1> QED
  BY <1>1, <1>2

(* A step that does not touch what is said of t                            *)
Calmly(t) == /\ CalmTold(t) /\ CalmInbox(t) /\ QuietUp(t) /\ QuietDown(t)
             /\ SameCall(t) /\ StillAsks(t)

LEMMA Distinct ==
  /\ \A s, t, p : \A c \in {"USUB", "DEL", "PUB", "multicast", "USUBR", "DELR"} :
         /\ Says(c, p) # Says("SUB", t) /\ Says(c, p) # Says("SUBR", t)
         /\ Says(c, p) # Says("some", t) /\ Says(c, p) # Says("none", t)
  /\ \A s, t : s # t => \A c \in {"SUB", "SUBR", "some", "none"} : Says(c, s) # Says(c, t)
  /\ \A s, t : Says("some", s) # Says("none", t)
  BY DEF Says

LEMMA AskedSubscribe ==
  ASSUME Shape, NEW s \in Service, AskedOnce(s), Subscribe(s)
  PROVE  AskedOnce(s)'
<1> PICK n \in Node : n = harbor[s]
  BY MulticastAssumption
<1> DEFINE l == Says("SUB", s)
<1>1. to' = Queued(to, s, harbor[s], l) /\ l \in FromService(s)
  BY LettersSaid DEF Subscribe
<1> HIDE DEF l
<1>2. Grown(Told(s), Told(s)', l) /\ UpBut({}) /\ DownBut({})
  BY <1>1, Telling
<1>3. ToOwner(n)' = ToOwner(n) /\ OfOwner(n)' = OfOwner(n) /\ inbox' = inbox /\ calling' = calling
  BY <1>2 DEF UpBut, DownBut, Subscribe, daemonVars
<1>4. "SUB" \notin chan[s].waits /\ "SUB" \in chan'[s].waits
  BY DEF Subscribe, Shape
<1>5. AskedWith(Told(s), inbox[s], ToOwner(n), OfOwner(n), "SUB" \in chan[s].waits, s \in calling[n], s)
  BY AskedIs
<1>6. AskedWith(Told(s)', inbox[s], ToOwner(n), OfOwner(n), TRUE, s \in calling[n], s)
  BY <1>2, <1>4, <1>5 DEF AskedWith, Grown, l
<1>7. AskedWith(Told(s)', inbox'[s], ToOwner(n)', OfOwner(n)', "SUB" \in chan'[s].waits, s \in calling'[n], s)
  BY <1>3, <1>4, <1>6
<1> QED
  BY <1>7, AskedIs

LEMMA AskedReceive ==
  ASSUME Shape, NEW s \in Service, AskedOnce(s), Receive(s),
         Shrunk(inbox[s], inbox'[s], Says("SUB", None)), In(inbox[s], Says("SUB", None)),
         "SUB" \notin chan'[s].waits
  PROVE  AskedOnce(s)'
<1> PICK n \in Node : n = harbor[s]
  BY MulticastAssumption
<1>1. /\ ToOwner(n)' = ToOwner(n) /\ OfOwner(n)' = OfOwner(n) /\ Told(s)' = Told(s)
      /\ calling' = calling
  BY DEF Receive, daemonVars, ToOwner, OfOwner, Told
<1>2. AskedWith(Told(s), inbox[s], ToOwner(n), OfOwner(n), "SUB" \in chan[s].waits, s \in calling[n], s)
  BY AskedIs
<1>3. AskedWith(Told(s), inbox'[s], ToOwner(n), OfOwner(n), "SUB" \in chan'[s].waits, s \in calling[n], s)
  BY <1>2 DEF AskedWith, Shrunk
<1>4. AskedWith(Told(s)', inbox'[s], ToOwner(n)', OfOwner(n)', "SUB" \in chan'[s].waits, s \in calling'[n], s)
  BY <1>1, <1>3
<1> QED
  BY <1>4, AskedIs

LEMMA AskedSub ==
  ASSUME Shape, NEW n \in Node, NEW s \in Service, AskedOnce(s), Sub(n, s)
  PROVE  AskedOnce(s)'
<1>1. /\ n = harbor[s] /\ Takes(Told(s), Told(s)', Says("SUB", s)) /\ UpBut({}) /\ DownBut({})
      /\ Got(s, Says("SUB", None))
  BY SubDoes
<1>2. /\ ToOwner(n)' = ToOwner(n) /\ OfOwner(n)' = OfOwner(n) /\ chan' = chan /\ calling' = calling
  BY <1>1 DEF Sub, UpBut, DownBut
<1>3. AskedWith(Told(s), inbox[s], ToOwner(n), OfOwner(n), "SUB" \in chan[s].waits, s \in calling[n], s)
  BY <1>1, AskedIs
<1>4. AskedWith(Told(s)', inbox[s], ToOwner(n), OfOwner(n), "SUB" \in chan[s].waits, s \in calling[n], s)
      /\ ~In(Told(s)', Says("SUB", s)) /\ ~In(inbox[s], Says("SUB", None)) /\ s \notin calling[n]
      /\ "SUB" \in chan[s].waits
  BY <1>1, <1>3 DEF AskedWith, Takes, Shrunk
<1>5. AskedWith(Told(s)', inbox'[s], ToOwner(n), OfOwner(n), "SUB" \in chan[s].waits, s \in calling[n], s)
  BY <1>1, <1>4 DEF AskedWith, Got, Grown
<1>6. AskedWith(Told(s)', inbox'[s], ToOwner(n)', OfOwner(n)', "SUB" \in chan'[s].waits, s \in calling'[n], s)
  BY <1>2, <1>5
<1> QED
  BY <1>1, <1>6, AskedIs

LEMMA AskedSubCall ==
  ASSUME Shape, NEW n \in Node, NEW s \in Service, AskedOnce(s), SubCall(n, s)
  PROVE  AskedOnce(s)'
<1>1. /\ n = harbor[s] /\ Takes(Told(s), Told(s)', Says("SUB", s)) /\ DownBut({})
      /\ Grown(ToOwner(n), ToOwner(n)', Says("SUBR", s))
  BY SubCallDoes
<1>2. OfOwner(n)' = OfOwner(n) /\ chan' = chan /\ inbox' = inbox /\ s \in calling'[n]
  BY <1>1 DEF SubCall, DownBut, Shape
<1>3. AskedWith(Told(s), inbox[s], ToOwner(n), OfOwner(n), "SUB" \in chan[s].waits, s \in calling[n], s)
  BY <1>1, AskedIs
<1>4. AskedWith(Told(s)', inbox[s], ToOwner(n), OfOwner(n), "SUB" \in chan[s].waits, s \in calling[n], s)
      /\ ~In(Told(s)', Says("SUB", s)) /\ ~In(inbox[s], Says("SUB", None)) /\ s \notin calling[n]
      /\ "SUB" \in chan[s].waits
  BY <1>1, <1>3 DEF AskedWith, Takes, Shrunk
<1>5. AskedWith(Told(s)', inbox[s], ToOwner(n)', OfOwner(n), "SUB" \in chan[s].waits, TRUE, s)
  BY <1>1, <1>4 DEF AskedWith, Grown
<1>6. AskedWith(Told(s)', inbox'[s], ToOwner(n)', OfOwner(n)', "SUB" \in chan'[s].waits, s \in calling'[n], s)
  BY <1>2, <1>5
<1> QED
  BY <1>1, <1>6, AskedIs

LEMMA AskedSubR ==
  ASSUME Shape, NEW n \in Node, NEW s \in Here(n), AskedOnce(s), NEW c \in {"some", "none"},
         ToldBut({}), UNCHANGED <<inbox, chan, calling>>,
         Takes(ToOwner(n), ToOwner(n)', Says("SUBR", s)), Grown(OfOwner(n), OfOwner(n)', Says(c, s))
  PROVE  AskedOnce(s)'
<1>1. s \in Service /\ n = harbor[s] /\ Told(s)' = Told(s)
  BY DEF Here, ToldBut
<1>2. AskedWith(Told(s), inbox[s], ToOwner(n), OfOwner(n), "SUB" \in chan[s].waits, s \in calling[n], s)
  BY <1>1, AskedIs
<1>3. AskedWith(Told(s), inbox[s], ToOwner(n)', OfOwner(n)', "SUB" \in chan[s].waits, s \in calling[n], s)
  <2>1. /\ In(ToOwner(n), Says("SUBR", s)) /\ ~In(ToOwner(n)', Says("SUBR", s))
        /\ Once(ToOwner(n)', Says("SUBR", s)) /\ s \in calling[n]
        /\ ~In(OfOwner(n), Says("some", s)) /\ ~In(OfOwner(n), Says("none", s))
    BY <1>2 DEF AskedWith, Takes, Shrunk
  <2>2. Says("some", s) # Says("none", s)
    BY Distinct
  <2>3. /\ In(OfOwner(n)', Says("some", s)) <=> c = "some"
        /\ In(OfOwner(n)', Says("none", s)) <=> c = "none"
        /\ Once(OfOwner(n)', Says("some", s)) /\ Once(OfOwner(n)', Says("none", s))
    <3>1. CASE c = "some"
      BY <1>2, <2>1, <2>2, <3>1 DEF AskedWith, Grown
    <3>2. CASE c = "none"
      BY <1>2, <2>1, <2>2, <3>2 DEF AskedWith, Grown
    <3> QED
      BY <3>1, <3>2
  <2> QED
    BY <1>2, <2>1, <2>3 DEF AskedWith
<1>4. AskedWith(Told(s)', inbox'[s], ToOwner(n)', OfOwner(n)', "SUB" \in chan'[s].waits, s \in calling'[n], s)
  BY <1>1, <1>3
<1> QED
  BY <1>1, <1>4, AskedIs

LEMMA AskedAnswered ==
  ASSUME Shape, NEW n \in Node, NEW s \in Here(n), AskedOnce(s), NEW c \in {"some", "none"},
         ToldBut({}), UpBut({}), UNCHANGED chan,
         Takes(OfOwner(n), OfOwner(n)', Says(c, s)),
         calling' = [calling EXCEPT ![n] = @ \ {s}], Got(s, Says("SUB", None))
  PROVE  AskedOnce(s)'
<1>1. s \in Service /\ n = harbor[s] /\ Told(s)' = Told(s) /\ ToOwner(n)' = ToOwner(n)
  BY DEF Here, ToldBut, UpBut
<1>2. AskedWith(Told(s), inbox[s], ToOwner(n), OfOwner(n), "SUB" \in chan[s].waits, s \in calling[n], s)
  BY <1>1, AskedIs
<1>3. s \notin calling'[n]
  BY DEF Shape
<1>4. /\ s \in calling[n] /\ "SUB" \in chan[s].waits
      /\ ~In(Told(s), Says("SUB", s)) /\ ~In(inbox[s], Says("SUB", None))
      /\ ~In(ToOwner(n), Says("SUBR", s))
      /\ ~In(OfOwner(n)', Says("some", s)) /\ ~In(OfOwner(n)', Says("none", s))
      /\ Once(OfOwner(n)', Says("some", s)) /\ Once(OfOwner(n)', Says("none", s))
  <2>1. Says("some", s) # Says("none", s)
    BY Distinct
  <2>2. CASE c = "some"
    BY <1>2, <2>1, <2>2 DEF AskedWith, Takes, Shrunk
  <2>3. CASE c = "none"
    BY <1>2, <2>1, <2>3 DEF AskedWith, Takes, Shrunk
  <2> QED
    BY <2>2, <2>3
<1>5. Once(inbox'[s], Says("SUB", None))
  BY <1>2, <1>4 DEF AskedWith, Got, Grown
<1>6. AskedWith(Told(s), inbox'[s], ToOwner(n), OfOwner(n)', "SUB" \in chan[s].waits, s \in calling'[n], s)
  BY <1>2, <1>3, <1>4, <1>5 DEF AskedWith
<1>7. AskedWith(Told(s)', inbox'[s], ToOwner(n)', OfOwner(n)', "SUB" \in chan'[s].waits, s \in calling'[n], s)
  BY <1>1, <1>6
<1> QED
  BY <1>1, <1>7, AskedIs

LEMMA ServiceCalm ==
  ASSUME Shape, NEW s \in Service, NEW t \in Service,
         Unsubscribe(s) \/ Delete(s) \/ Publish(s) \/ (Subscribe(s) /\ t # s)
  PROVE  Calmly(t)
<1>1. UNCHANGED <<inbox, calling>>
  BY DEF Subscribe, Unsubscribe, Delete, Publish, daemonVars
<1>2. StillAsks(t)
  <2>1. chan \in [Service -> [channel : BOOLEAN, subscribe : BOOLEAN, waits : SUBSET {"SUB", "PUB"}]]
    BY DEF Shape
  <2>2. CASE Subscribe(s)
    BY <2>1, <2>2 DEF Subscribe, StillAsks
  <2>3. CASE Unsubscribe(s)
    BY <2>1, <2>3 DEF Unsubscribe, StillAsks
  <2>4. CASE Delete(s)
    BY <2>1, <2>4 DEF Delete, StillAsks
  <2>5. CASE Publish(s)
    BY <2>1, <2>5 DEF Publish, StillAsks
  <2> QED
    BY <2>2, <2>3, <2>4, <2>5
<1>3. PICK m \in FromService(s) : to' = Queued(to, s, harbor[s], m) /\ (m = Says("SUB", t) => t # s)
  <2>1. CASE Subscribe(s) /\ t # s
    BY <2>1, LettersSaid DEF Subscribe
  <2>2. CASE Unsubscribe(s) \/ Delete(s)
    BY <2>2, LettersSaid, Distinct DEF Unsubscribe, Delete
  <2>3. CASE Publish(s)
    <3>1. pubs' \in Pub
      BY <2>3, MulticastAssumption DEF Publish, Pub, Shape
    <3> QED
      BY <2>3, <3>1, LettersSaid, Distinct DEF Publish
  <2> QED
    BY <2>1, <2>2, <2>3
<1>4. Grown(Told(s), Told(s)', m) /\ ToldBut({s}) /\ UpBut({}) /\ DownBut({})
  BY <1>3, Telling
<1>5. CalmTold(t)
  BY <1>3, <1>4, ToldCalm, ToldsCalm
<1> QED
  BY <1>1, <1>2, <1>4, <1>5, NothingSaid DEF Calmly, SameCall

LEMMA ExitCalm ==
  ASSUME Shape, NEW s \in Service, NEW t \in Service, Exit(s)
  PROVE  Calmly(t)
<1>1. UNCHANGED <<chan, calling>> /\ inbox' = [inbox EXCEPT ![s] = <<>>]
  BY DEF Exit, daemonVars
<1>2. CalmInbox(t)
  <2>1. CASE t = s
    <3>1. inbox'[t] = <<>>
      BY <1>1, <2>1 DEF Shape
    <3>2. \A m : ~In(<<>>, m) /\ Once(<<>>, m)
      BY DEF In, Once
    <3> QED
      BY <3>1, <3>2 DEF CalmInbox, Calm
  <2>2. CASE t # s
    <3>1. inbox'[t] = inbox[t]
      BY <1>1, <2>2 DEF Shape
    <3> QED
      BY <3>1, SameIsQuiet DEF CalmInbox
  <2> QED
    BY <2>1, <2>2
<1>3. CalmTold(t) /\ QuietUp(t) /\ QuietDown(t)
  <2>1. UpBut({}) /\ DownBut({})
    BY ExitDoes
  <2>2. CASE ToldBut({})
    BY <2>1, <2>2, NothingSaid
  <2>3. CASE Grown(Told(s), Told(s)', Says("USUB", s)) /\ ToldBut({s})
    <3>1. Says("USUB", s) # Says("SUB", t)
      BY Distinct
    <3> QED
      BY <2>1, <2>3, <3>1, NothingSaid, ToldsCalm
  <2> QED
    BY <2>2, <2>3, ExitDoes
<1> QED
  BY <1>1, <1>2, <1>3 DEF Calmly, SameCall, StillAsks

LEMMA ReceiveCalm ==
  ASSUME Shape, NEW s \in Service, NEW t \in Service, Receive(s),
         ~(Shrunk(inbox[s], inbox'[s], Says("SUB", None)) /\ In(inbox[s], Says("SUB", None))
           /\ "SUB" \notin chan'[s].waits /\ t = s)
  PROVE  Calmly(t)
<1>1. /\ UNCHANGED <<to, calling>> /\ InboxBut({s})
  BY ReceiveDoes DEF Receive, daemonVars
<1>2. CalmTold(t) /\ QuietUp(t) /\ QuietDown(t)
  BY <1>1, NothingSaid DEF ToldBut, UpBut, DownBut, Told, ToOwner, OfOwner
<1>3. PICK m \in Answers :
               /\ Shrunk(inbox[s], inbox'[s], m) /\ In(inbox[s], m)
               /\ \/ /\ \E p \in Pub : m = Says("multicast", p) /\ Received(s, p)
                     /\ UNCHANGED chan
                  \/ /\ \E c \in {"SUB", "PUB"} :
                           /\ m = Says(c, None)
                           /\ chan' = [chan EXCEPT ![s].waits = @ \ {c},
                                                   ![s].subscribe = @ \/ c = "SUB"]
                     /\ UNCHANGED <<reference, handling, lost>>
  BY ReceiveDoes
<1>4. CalmInbox(t) /\ StillAsks(t)
  <2>1. ASSUME NEW p \in Pub, m = Says("multicast", p), UNCHANGED chan
        PROVE  CalmInbox(t) /\ StillAsks(t)
    <3>1. m # Says("SUB", None)
      BY <2>1, Distinct
    <3> QED
      BY <1>1, <1>3, <2>1, <3>1, InboxCalm DEF StillAsks
  <2>2. ASSUME NEW c \in {"SUB", "PUB"}, m = Says(c, None),
               chan' = [chan EXCEPT ![s].waits = @ \ {c}, ![s].subscribe = @ \/ c = "SUB"]
        PROVE  CalmInbox(t) /\ StillAsks(t)
    <3>1. chan'[s].waits = chan[s].waits \ {c} /\ \A x \in Service \ {s} : chan'[x] = chan[x]
      BY <2>2, AnswerTaken
    <3>2. CASE t # s
      BY <1>1, <1>3, <3>1, <3>2, InboxCalm DEF StillAsks
    <3>3. CASE t = s /\ c = "PUB"
      <4>1. m # Says("SUB", None)
        BY <2>2, <3>3, Distinct
      <4> QED
        BY <1>1, <1>3, <3>1, <3>3, <4>1, InboxCalm DEF StillAsks
    <3>4. CASE t = s /\ c = "SUB"
      <4>1. "SUB" \notin chan'[s].waits
        BY <3>1, <3>4
      <4> QED
        BY <1>3, <2>2, <3>4, <4>1
    <3> QED
      BY <3>2, <3>3, <3>4
  <2> QED
    BY <1>3, <2>1, <2>2
<1> QED
  BY <1>1, <1>2, <1>4 DEF Calmly, SameCall

LEMMA HandledCalm ==
  ASSUME NEW s \in Service, NEW p \in Pub, Handled(s, p), NEW t \in Service
  PROVE  Calmly(t)
  BY HandledDoes, NothingSaid DEF Calmly, SameCall, StillAsks

LEMMA SubCalm ==
  ASSUME Shape, NEW n \in Node, NEW s \in Service, NEW t \in Service, t # s,
         Sub(n, s) \/ SubCall(n, s)
  PROVE  Calmly(t)
<1>1. CASE Sub(n, s)
  <2>1. ToldBut({s}) /\ UpBut({}) /\ DownBut({}) /\ Got(s, Says("SUB", None)) /\ InboxBut({s})
    BY <1>1, SubDoes
  <2>2. UNCHANGED <<chan, calling>>
    BY <1>1 DEF Sub
  <2> QED
    BY <2>1, <2>2, NothingSaid, ToldCalm, InboxCalm DEF Calmly, SameCall, StillAsks
<1>2. CASE SubCall(n, s)
  <2>1. /\ ToldBut({s}) /\ UpBut({n}) /\ DownBut({})
        /\ Grown(ToOwner(n), ToOwner(n)', Says("SUBR", s))
    BY <1>2, SubCallDoes
  <2>2. UNCHANGED <<chan, inbox>> /\ SameCall(t)
    BY <1>2 DEF SubCall, SameCall, Shape
  <2>3. Says("SUBR", s) # Says("SUBR", t)
    BY Distinct
  <2>4. QuietUp(t)
    BY <2>1, <2>3, UpQuiet
  <2> QED
    BY <2>1, <2>2, <2>4, NothingSaid, ToldCalm DEF Calmly, StillAsks
<1> QED
  BY <1>1, <1>2

(* What a daemon does about other things than SUB                          *)
LEMMA UsubCalm ==
  ASSUME Shape, NEW n \in Node, NEW s \in Service, NEW t \in Service, Usub(n, s)
  PROVE  Calmly(t)
<1>1. UNCHANGED <<chan, calling, inbox>>
  BY DEF Usub
<1>2. /\ Takes(Told(s), Told(s)', Says("USUB", s)) /\ ToldBut({s}) /\ DownBut({})
      /\ \/ Grown(ToOwner(n), ToOwner(n)', Says("USUBR", None)) /\ UpBut({n})
         \/ UpBut({})
  BY UsubDoes
<1>3. /\ Says("USUB", s) # Says("SUB", t) /\ Says("USUBR", None) # Says("SUBR", t)
  BY Distinct
<1>4. CalmTold(t)
  BY <1>2, <1>3, ToldsCalm DEF Takes
<1>5. QuietUp(t)
  BY <1>2, <1>3, UpQuiet, NothingSaid
<1> QED
  BY <1>1, <1>2, <1>4, <1>5, NothingSaid DEF Calmly, SameCall, StillAsks

LEMMA DelCalm ==
  ASSUME Shape, NEW n \in Node, NEW x \in Node \cup Service, NEW t \in Service, Del(n, x)
  PROVE  Calmly(t)
<1>1. UNCHANGED <<chan, calling, inbox>>
  BY DEF Del
<1>2. /\ Says("DEL", None) # Says("SUB", t) /\ Says("DEL", None) # Says("SUBR", t)
      /\ Says("DELR", None) # Says("some", t) /\ Says("DELR", None) # Says("none", t)
  BY Distinct
<1>3. CASE /\ n # Owner /\ x \in Service
           /\ Takes(Told(x), Told(x)', Says("DEL", None))
           /\ Grown(ToOwner(n), ToOwner(n)', Says("DEL", None))
           /\ ToldBut({x}) /\ UpBut({n}) /\ DownBut({})
  <2>1. CalmTold(t) /\ QuietUp(t) /\ QuietDown(t)
    BY <1>2, <1>3, ToldsCalm, UpQuiet, NothingSaid DEF Takes
  <2> QED
    BY <1>1, <2>1, NothingSaid DEF Calmly, SameCall, StillAsks
<1>4. CASE /\ Reached(Says("DELR", None))
           /\ \/ /\ x \in Service /\ ToldBut({x}) /\ UpBut({})
                 /\ Takes(Told(x), Told(x)', Says("DEL", None))
              \/ /\ x \in Node \ {Owner} /\ ToldBut({}) /\ UpBut({x})
                 /\ Takes(ToOwner(x), ToOwner(x)', Says("DEL", None))
  <2>1. QuietDown(t)
    BY <1>2, <1>4, ReachedQuiet
  <2>2. CalmTold(t) /\ QuietUp(t)
    BY <1>2, <1>4, ToldsCalm, UpQuiet, NothingSaid DEF Takes
  <2> QED
    BY <1>1, <2>1, <2>2, NothingSaid DEF Calmly, SameCall, StillAsks
<1> QED
  BY <1>3, <1>4, DelDoes

LEMMA PubCalm ==
  ASSUME Shape, NEW n \in Node, NEW x \in Node \cup Service, NEW t \in Service, PubHere(n, x)
  PROVE  Calmly(t)
<1>1. UNCHANGED <<chan, calling>>
  BY DEF PubHere
<1>2. PICK p \in Pub :
          /\ Delivered(n, p, x)
          /\ \/ /\ n # Owner /\ x = Owner
                /\ Takes(OfOwner(n), OfOwner(n)', Says("multicast", p))
                /\ ToldBut({}) /\ UpBut({}) /\ DownBut({n})
             \/ /\ n = Owner /\ Reached(Says("multicast", p))
                /\ \/ /\ x \in Service /\ ToldBut({x}) /\ UpBut({})
                      /\ Takes(Told(x), Told(x)', Says("PUB", p))
                   \/ /\ x \in Node \ {Owner} /\ ToldBut({}) /\ UpBut({x})
                      /\ Takes(ToOwner(x), ToOwner(x)', Says("multicast", p))
  BY PubHereDoes
<1>3. /\ Says("PUB", p) # Says("SUB", t) /\ Says("multicast", p) # Says("SUBR", t)
      /\ Says("multicast", p) # Says("some", t) /\ Says("multicast", p) # Says("none", t)
      /\ Says("multicast", p) # Says("SUB", None) /\ Says("PUB", None) # Says("SUB", None)
  BY Distinct
<1>4. CalmInbox(t)
  BY <1>2, <1>3 DEF Delivered, CalmInbox, Calm
<1>5. CASE /\ Takes(OfOwner(n), OfOwner(n)', Says("multicast", p))
           /\ ToldBut({}) /\ UpBut({}) /\ DownBut({n})
  <2>1. CalmTold(t) /\ QuietUp(t) /\ QuietDown(t)
    BY <1>3, <1>5, DownQuiet, NothingSaid DEF Takes
  <2> QED
    BY <1>1, <1>4, <2>1 DEF Calmly, SameCall, StillAsks
<1>6. CASE /\ Reached(Says("multicast", p))
           /\ \/ /\ x \in Service /\ ToldBut({x}) /\ UpBut({})
                 /\ Takes(Told(x), Told(x)', Says("PUB", p))
              \/ /\ x \in Node \ {Owner} /\ ToldBut({}) /\ UpBut({x})
                 /\ Takes(ToOwner(x), ToOwner(x)', Says("multicast", p))
  <2>1. QuietDown(t)
    BY <1>3, <1>6, ReachedQuiet
  <2>2. CalmTold(t) /\ QuietUp(t)
    BY <1>3, <1>6, ToldsCalm, UpQuiet, NothingSaid DEF Takes
  <2> QED
    BY <1>1, <1>4, <2>1, <2>2 DEF Calmly, SameCall, StillAsks
<1> QED
  BY <1>2, <1>5, <1>6

LEMMA OthersCalm ==
  ASSUME Shape, NEW n \in Node, NEW t \in Service,
         UsubR(n) \/ DelR(n) \/ \E s \in Service : PubRemote(n, s)
  PROVE  Calmly(t)
<1>1. CASE UsubR(n)
  <2>1. /\ Takes(ToOwner(n), ToOwner(n)', Says("USUBR", None))
        /\ ToldBut({}) /\ UpBut({n}) /\ DownBut({}) /\ UNCHANGED <<chan, calling, inbox>>
    BY <1>1, UsubRDoes DEF UsubR
  <2>2. Says("USUBR", None) # Says("SUBR", t)
    BY Distinct
  <2>3. QuietUp(t)
    BY <2>1, <2>2, UpQuiet DEF Takes
  <2> QED
    BY <2>1, <2>3, NothingSaid DEF Calmly, SameCall, StillAsks
<1>2. CASE DelR(n)
  <2>1. /\ Takes(OfOwner(n), OfOwner(n)', Says("DELR", None))
        /\ ToldBut({}) /\ UpBut({}) /\ DownBut({n}) /\ UNCHANGED <<chan, calling, inbox>>
    BY <1>2, DelRDoes DEF DelR
  <2>2. Says("DELR", None) # Says("some", t) /\ Says("DELR", None) # Says("none", t)
    BY Distinct
  <2>3. QuietDown(t)
    BY <2>1, <2>2, DownQuiet DEF Takes
  <2> QED
    BY <2>1, <2>3, NothingSaid DEF Calmly, SameCall, StillAsks
<1>3. ASSUME NEW s \in Service, PubRemote(n, s) PROVE Calmly(t)
  <2>1. PICK p \in Pub : /\ Takes(Told(s), Told(s)', Says("PUB", p))
                         /\ Grown(ToOwner(n), ToOwner(n)', Says("multicast", p))
    BY <1>3, PubRemoteDoes
  <2>2. /\ ToldBut({s}) /\ UpBut({n}) /\ DownBut({}) /\ UNCHANGED <<chan, calling>>
        /\ Got(s, Says("PUB", None)) /\ InboxBut({s})
    BY <1>3, PubRemoteDoes DEF PubRemote, daemonVars
  <2>3. /\ Says("PUB", p) # Says("SUB", t) /\ Says("multicast", p) # Says("SUBR", t)
        /\ Says("PUB", None) # Says("SUB", None)
    BY Distinct
  <2>4. CalmTold(t) /\ QuietUp(t) /\ CalmInbox(t)
    BY <2>1, <2>2, <2>3, ToldsCalm, UpQuiet, InboxCalm DEF Takes
  <2> QED
    BY <2>2, <2>4, NothingSaid DEF Calmly, SameCall, StillAsks
<1> QED
  BY <1>1, <1>2, <1>3

LEMMA AskedStep ==
  ASSUME Shape, AskedAll, Next
  PROVE  AskedAll'
<1>0. ASSUME NEW t \in Service, Calmly(t) PROVE AskedOnce(t)'
  BY <1>0, AskedKept DEF Calmly, AskedAll
<1>00. ASSUME NEW s \in Service, AskedOnce(s)', \A t \in Service : t # s => Calmly(t) PROVE AskedAll'
  BY <1>0, <1>00 DEF AskedAll
<1>1. ASSUME NEW s \in Service, Subscribe(s) PROVE AskedAll'
  <2>1. AskedOnce(s)'
    BY <1>1, AskedSubscribe DEF AskedAll
  <2>2. \A t \in Service : t # s => Calmly(t)
    BY <1>1, ServiceCalm
  <2> QED
    BY <1>00, <2>1, <2>2
<1>2. ASSUME NEW s \in Service, Unsubscribe(s) \/ Delete(s) \/ Publish(s) \/ Exit(s) PROVE AskedAll'
  BY <1>0, <1>2, ServiceCalm, ExitCalm DEF AskedAll
<1>3. ASSUME NEW s \in Service, Receive(s) PROVE AskedAll'
  <2> SUFFICES ASSUME NEW t \in Service PROVE AskedOnce(t)'
    BY DEF AskedAll
  <2> DEFINE A == Shrunk(inbox[s], inbox'[s], Says("SUB", None)) /\ In(inbox[s], Says("SUB", None))
                  /\ "SUB" \notin chan'[s].waits
  <2>1. CASE A /\ t = s
    BY <1>3, <2>1, AskedReceive DEF AskedAll
  <2>2. CASE ~(A /\ t = s)
    <3>1. Calmly(t)
      BY <1>3, <2>2, ReceiveCalm
    <3> QED
      BY <1>0, <3>1
  <2> QED
    BY <2>1, <2>2
<1>4. ASSUME NEW n \in Node, NEW s \in Service, Sub(n, s) \/ SubCall(n, s) PROVE AskedAll'
  <2>1. AskedOnce(s)'
    BY <1>4, AskedSub, AskedSubCall DEF AskedAll
  <2>2. \A t \in Service : t # s => Calmly(t)
    BY <1>4, SubCalm
  <2> QED
    BY <1>00, <2>1, <2>2
<1>5. ASSUME NEW n \in Node, SubR(n) PROVE AskedAll'
  <2>1. PICK s \in Here(n), c \in {"some", "none"} :
               /\ Takes(ToOwner(n), ToOwner(n)', Says("SUBR", s))
               /\ Grown(OfOwner(n), OfOwner(n)', Says(c, s))
    BY <1>5, SubRDoes
  <2>2. /\ ToldBut({}) /\ UpBut({n}) /\ DownBut({n}) /\ UNCHANGED <<inbox, chan, calling>>
        /\ s \in Service
    BY <1>5, SubRDoes DEF SubR, Here
  <2>3. AskedOnce(s)'
    BY <2>1, <2>2, AskedSubR DEF AskedAll
  <2>4. ASSUME NEW t \in Service, t # s PROVE Calmly(t)
    <3>1. /\ Says("SUBR", s) # Says("SUBR", t)
          /\ Says(c, s) # Says("some", t) /\ Says(c, s) # Says("none", t)
      BY <2>4, Distinct
    <3>2. QuietUp(t) /\ QuietDown(t)
      BY <2>1, <2>2, <3>1, UpQuiet, DownQuiet DEF Takes
    <3> QED
      BY <2>2, <3>2, NothingSaid DEF Calmly, SameCall, StillAsks
  <2> QED
    BY <1>00, <2>2, <2>3, <2>4
<1>6. ASSUME NEW n \in Node, SubAnswered(n) PROVE AskedAll'
  <2>1. PICK s \in Here(n), c \in {"some", "none"} :
               /\ Takes(OfOwner(n), OfOwner(n)', Says(c, s))
               /\ calling' = [calling EXCEPT ![n] = @ \ {s}]
               /\ Got(s, Says("SUB", None)) /\ InboxBut({s})
    BY <1>6, SubAnsweredDoes
  <2>2. /\ ToldBut({}) /\ UpBut({}) /\ DownBut({n}) /\ UNCHANGED chan
        /\ s \in Service
    BY <1>6, SubAnsweredDoes DEF SubAnswered, Here
  <2>3. AskedOnce(s)'
    BY <2>1, <2>2, AskedAnswered DEF AskedAll
  <2>4. ASSUME NEW t \in Service, t # s PROVE Calmly(t)
    <3>1. Says(c, s) # Says("some", t) /\ Says(c, s) # Says("none", t)
      BY <2>4, Distinct
    <3>2. QuietDown(t) /\ CalmInbox(t)
      BY <2>1, <2>2, <2>4, <3>1, DownQuiet, InboxCalm DEF Takes
    <3>3. SameCall(t)
      BY <2>1, <2>4 DEF SameCall, Shape
    <3> QED
      BY <2>2, <3>2, <3>3, NothingSaid DEF Calmly, StillAsks
  <2> QED
    BY <1>00, <2>2, <2>3, <2>4
<1>7. ASSUME NEW n \in Node, NEW s \in Service, Usub(n, s) PROVE AskedAll'
  BY <1>0, <1>7, UsubCalm DEF AskedAll
<1>8. ASSUME NEW n \in Node, NEW x \in Node \cup Service, Del(n, x) \/ PubHere(n, x) PROVE AskedAll'
  BY <1>0, <1>8, DelCalm, PubCalm DEF AskedAll
<1>9. ASSUME NEW n \in Node, UsubR(n) \/ DelR(n) \/ \E s \in Service : PubRemote(n, s) PROVE AskedAll'
  BY <1>0, <1>9, OthersCalm DEF AskedAll
<1>10. ASSUME NEW s \in Service, NEW p \in Pub, Handled(s, p) PROVE AskedAll'
  BY <1>0, <1>10, HandledCalm DEF AskedAll
<1> QED
  BY <1>10, <1>1, <1>2, <1>3, <1>4, <1>5, <1>6, <1>7, <1>8, <1>9 DEF Next
-----------------------------------------------------------------------------
(* Who is subscribed is a subscriber                                       *)

(* While the channel is there only an USUB takes a subscriber away.        *)
Stays(t) == channel'[Owner] # None =>
    channel[Owner] # None
        /\ \A h \in Node : h = harbor[t] /\ t \in Set(channel[h]) => t \in Set(channel'[h])

LEMMA SameGroups ==
  ASSUME NEW t, UNCHANGED channel
  PROVE  Stays(t)
  BY DEF Stays

LEMMA JoinStays ==
  ASSUME Shape, NEW n \in Node, GroupOK(n), NEW s \in Here(n), NEW t \in Service,
         channel[n] # None \/ n # Owner, Join(n, Set(channel[n]), s)
  PROVE  Stays(t)
<1>1. GroupBut({n}) /\ Set(channel'[n]) = Set(channel[n]) \cup {s} /\ channel'[n] # None
  BY JoinDoes
<1>2. \A h \in Node : Set(channel[h]) \subseteq Set(channel'[h])
  BY <1>1 DEF GroupBut
<1>3. channel'[Owner] # None => channel[Owner] # None
  BY <1>1, MulticastAssumption DEF GroupBut
<1> QED
  BY <1>2, <1>3 DEF Stays

LEMMA GroupsStay ==
  ASSUME Shape, GroupsOK, EndAll, Next, NEW t \in Service, \A n \in Node : ~Usub(n, t)
  PROVE  Stays(t)
<1>1. ASSUME NEW s \in Service, \/ Subscribe(s) \/ Unsubscribe(s) \/ Delete(s) \/ Publish(s)
                                \/ Exit(s) \/ Receive(s)
      PROVE  UNCHANGED channel
  BY <1>1 DEF Subscribe, Unsubscribe, Delete, Publish, Exit, Receive, daemonVars
<1>2. ASSUME NEW n \in Node, NEW s \in Service, Sub(n, s) PROVE Stays(t)
  <2>1. n = harbor[s] /\ s \in Here(n) /\ GroupOK(n)
    BY <1>2, SubDoes DEF Here, GroupsOK
  <2>2. CASE channel[n] # None /\ Join(n, channel[n], s)
    <3>1. Join(n, Set(channel[n]), s)
      BY <2>1, <2>2, SetIs
    <3> QED
      BY <2>1, <2>2, <3>1, JoinStays
  <2>3. CASE UNCHANGED <<channel, channel_n, handed>>
    BY <2>3, SameGroups
  <2> QED
    BY <1>2, <2>2, <2>3, SubDoes
<1>3. ASSUME NEW n \in Node, NEW s \in Service, SubCall(n, s) \/ PubRemote(n, s)
      PROVE  UNCHANGED channel
  BY <1>3 DEF SubCall, PubRemote, daemonVars
<1>4. ASSUME NEW n \in Node, SubR(n) \/ UsubR(n) PROVE UNCHANGED channel
  BY <1>4 DEF SubR, UsubR
<1>5. ASSUME NEW n \in Node, SubAnswered(n) PROVE Stays(t)
  <2>1. PICK s \in Here(n), c \in {"some", "none"} :
            IF c = "none" THEN UNCHANGED <<channel, channel_n, handed>>
                          ELSE Join(n, Set(channel[n]), s)
    BY <1>5, SubAnsweredDoes
  <2>2. n # Owner /\ GroupOK(n)
    BY <1>5, SubAnsweredDoes DEF GroupsOK
  <2>3. CASE c = "none"
    BY <2>1, <2>3, SameGroups
  <2>4. CASE c # "none"
    BY <2>1, <2>2, <2>4, JoinStays
  <2> QED
    BY <2>3, <2>4
<1>6. ASSUME NEW n \in Node, NEW s \in Service, Usub(n, s) PROVE Stays(t)
  <2>1. GroupOK(n) /\ s # t
    BY <1>6 DEF GroupsOK
  <2>2. CASE s \in Set(channel[n])
    <3>1. Leave(n, s)
      BY <1>6, <2>2 DEF Usub
    <3>2. GroupBut({n}) /\ channel[n] # None /\ Set(channel'[n]) = Set(channel[n]) \ {s}
      BY <2>1, <2>2, <3>1, LeaveDoes
    <3>3. \A h \in Node : t \in Set(channel[h]) => t \in Set(channel'[h])
      BY <2>1, <3>2 DEF GroupBut
    <3>4. channel'[Owner] # None => channel[Owner] # None
      BY <3>2, MulticastAssumption DEF GroupBut
    <3> QED
      BY <3>3, <3>4 DEF Stays
  <2>3. CASE s \notin Set(channel[n])
    BY <1>6, <2>3, SameGroups DEF Usub
  <2> QED
    BY <2>2, <2>3
<1>7. ASSUME NEW n \in Node, NEW x \in Node \cup Service, Del(n, x) PROVE Stays(t)
  <2>1. CASE UNCHANGED <<channel, channel_n, remote>>
    BY <2>1, SameGroups
  <2>2. CASE channel' = Gone(Owner)
    BY <2>2, MulticastAssumption DEF Gone, Stays, Shape
  <2> QED
    BY <1>7, <2>1, <2>2, DelDoes
<1>8. ASSUME NEW n \in Node, DelR(n) PROVE Stays(t)
  <2>1. n # Owner /\ Takes(OfOwner(n), OfOwner(n)', Says("DELR", None)) /\ channel' = Gone(n)
    BY <1>8, DelRDoes DEF DelR
  <2>2. channel[Owner] = None
    BY <2>1 DEF EndAll, EndOK, Takes
  <2>3. channel'[Owner] = None
    BY <2>1, <2>2, MulticastAssumption DEF Gone, Shape
  <2> QED
    BY <2>3 DEF Stays
<1>9. ASSUME NEW n \in Node, NEW x \in Node \cup Service, PubHere(n, x) PROVE UNCHANGED channel
  BY <1>9 DEF PubHere
<1>h. ASSUME NEW s \in Service, NEW p \in Pub, Handled(s, p) PROVE UNCHANGED channel
  BY <1>h, HandledDoes
<1> QED
  BY <1>h, <1>1, <1>2, <1>3, <1>4, <1>5, <1>6, <1>7, <1>8, <1>9, SameGroups DEF Next

(* MemberOK of what it is about                                            *)
MemberWith(told, box, waits, subscribe, live, calls, open, member, t) ==
    /\ subscribe => ~waits
    /\ (live /\ subscribe) \/ calls \/ In(box, Says("SUB", None)) => ~In(told, Says("USUB", t))
    /\ NotBehind(told, Says("USUB", t), Says("SUB", t))
    /\ open /\ ((live /\ subscribe) \/ In(box, Says("SUB", None))) => member

LEMMA MemberIs ==
  ASSUME NEW t \in Service, NEW n \in Node, n = harbor[t]
  PROVE  /\ MemberOK(t) <=>
               MemberWith(Told(t), inbox[t], "SUB" \in chan[t].waits, chan[t].subscribe,
                          t \in alive, t \in calling[n], channel[Owner] # None,
                          t \in Set(channel[n]), t)
         /\ MemberOK(t)' <=>
               MemberWith(Told(t)', inbox'[t], "SUB" \in chan'[t].waits, chan'[t].subscribe,
                          t \in alive', t \in calling'[n], channel'[Owner] # None,
                          t \in Set(channel'[n]), t)
<1>1. MemberOK(t) <=>
         MemberWith(Told(t), inbox[t], "SUB" \in chan[t].waits, chan[t].subscribe,
                    t \in alive, t \in calling[n], channel[Owner] # None,
                    t \in Set(channel[n]), t)
  BY DEF MemberOK, MemberWith, Subscribed, Waits, Has, Leaves
<1>2. MemberOK(t)' <=>
         MemberWith(Told(t)', inbox'[t], "SUB" \in chan'[t].waits, chan'[t].subscribe,
                    t \in alive', t \in calling'[n], channel'[Owner] # None,
                    t \in Set(channel'[n]), t)
  BY DEF MemberOK, MemberWith, Subscribed, Waits, Has, Leaves, In, NotBehind, Says, Set
<1> QED
  BY <1>1, <1>2

(* A step that tells the daemon nothing new of t's leaving                 *)
Patient(t) ==
    /\ In(Told(t)', Says("USUB", t)) => In(Told(t), Says("USUB", t))
    /\ NotBehind(Told(t), Says("USUB", t), Says("SUB", t)) =>
           NotBehind(Told(t)', Says("USUB", t), Says("SUB", t))

LEMMA TakingIsPatient ==
  ASSUME NEW t \in Service, NEW s, NEW l, ToldBut({s}), Takes(Told(s), Told(s)', l)
  PROVE  Patient(t)
<1>1. CASE t = s
  BY <1>1 DEF Patient, Takes, Shrunk
<1>2. CASE t # s
  BY <1>2 DEF Patient, ToldBut
<1> QED
  BY <1>1, <1>2

LEMMA SayingIsPatient ==
  ASSUME NEW t \in Service, NEW s, NEW l, l # Says("USUB", t), ToldBut({s}),
         Grown(Told(s), Told(s)', l)
  PROVE  Patient(t)
<1> DEFINE u == Says("USUB", t)
           v == Says("SUB", t)
<1>1. u # v
  BY Distinct
<1> HIDE DEF u, v
<1>2. CASE t = s
  <2>1. In(Told(t)', u) => In(Told(t), u)
    BY <1>2 DEF Grown, u
  <2>2. NotBehind(Told(t), u, v) => NotBehind(Told(t)', u, v)
    BY <1>1, <1>2 DEF Grown, u
  <2> QED
    BY <2>1, <2>2 DEF Patient, u, v
<1>3. CASE t # s
  BY <1>3 DEF Patient, ToldBut
<1> QED
  BY <1>2, <1>3

LEMMA SilenceIsPatient ==
  ASSUME NEW t \in Service, ToldBut({})
  PROVE  Patient(t)
  BY DEF Patient, ToldBut

LEMMA PatientStep ==
  ASSUME Shape, Next, NEW t \in Service, ~Unsubscribe(t), ~Exit(t)
  PROVE  Patient(t)
<1>0. ASSUME NEW s \in Service, \E m \in FromService(s) :
                 to' = Queued(to, s, harbor[s], m) /\ m # Says("USUB", t)
      PROVE  Patient(t)
  BY <1>0, Telling, SayingIsPatient
<1>a. \A s : s # t => Says("USUB", s) # Says("USUB", t)
  BY DEF Says
<1>b. \A s, p : \A c \in {"SUB", "DEL", "PUB"} : Says(c, p) # Says("USUB", s)
  BY DEF Says
<1>1. ASSUME NEW s \in Service, Subscribe(s) \/ Unsubscribe(s) \/ Delete(s) PROVE Patient(t)
  <2>1. CASE Subscribe(s) \/ Delete(s)
    BY <1>0, <1>b, <2>1, LettersSaid DEF Subscribe, Delete
  <2>2. CASE Unsubscribe(s)
    <3>1. s # t
      BY <2>2
    <3> QED
      BY <1>0, <1>a, <2>2, <3>1, LettersSaid DEF Unsubscribe
  <2> QED
    BY <1>1, <2>1, <2>2
<1>2. ASSUME NEW s \in Service, Publish(s) PROVE Patient(t)
  <2>1. pubs' \in Pub
    BY <1>2, MulticastAssumption DEF Publish, Pub, Shape
  <2> QED
    BY <1>0, <1>2, <1>b, <2>1, LettersSaid DEF Publish
<1>3. ASSUME NEW s \in Service, Exit(s) PROVE Patient(t)
  <2>1. s # t
    BY <1>3
  <2>2. (Grown(Told(s), Told(s)', Says("USUB", s)) /\ ToldBut({s})) \/ ToldBut({})
    BY <1>3, ExitDoes
  <2> QED
    BY <1>a, <2>1, <2>2, SayingIsPatient, SilenceIsPatient
<1>4. ASSUME NEW s \in Service, Receive(s) PROVE Patient(t)
  <2>1. ToldBut({})
    BY <1>4 DEF Receive, ToldBut, Told
  <2> QED
    BY <2>1, SilenceIsPatient
<1>5. ASSUME NEW n \in Node, NEW s \in Service, Sub(n, s) \/ SubCall(n, s) \/ Usub(n, s)
      PROVE  Patient(t)
  BY <1>5, SubDoes, SubCallDoes, UsubDoes, TakingIsPatient
<1>6. ASSUME NEW n \in Node, SubR(n) \/ SubAnswered(n) \/ UsubR(n) \/ DelR(n) PROVE Patient(t)
  BY <1>6, SubRDoes, SubAnsweredDoes, UsubRDoes, DelRDoes, SilenceIsPatient
<1>7. ASSUME NEW n \in Node, NEW x \in Node \cup Service, Del(n, x) PROVE Patient(t)
  <2>1. ToldBut({}) \/ (ToldBut({x}) /\ Takes(Told(x), Told(x)', Says("DEL", None)))
    BY <1>7, DelDoes
  <2> QED
    BY <2>1, TakingIsPatient, SilenceIsPatient
<1>8. ASSUME NEW n \in Node, NEW x \in Node \cup Service, PubHere(n, x) PROVE Patient(t)
  <2>1. ToldBut({}) \/ (ToldBut({x}) /\ \E p \in Pub : Takes(Told(x), Told(x)', Says("PUB", p)))
    BY <1>8, PubHereDoes
  <2> QED
    BY <2>1, TakingIsPatient, SilenceIsPatient
<1>9. ASSUME NEW n \in Node, NEW s \in Service, PubRemote(n, s) PROVE Patient(t)
  BY <1>9, PubRemoteDoes, TakingIsPatient
<1>10. ASSUME NEW s \in Service, NEW p \in Pub, Handled(s, p) PROVE Patient(t)
  BY <1>10, HandledDoes, SilenceIsPatient
<1> QED
  BY <1>10, <1>1, <1>2, <1>3, <1>4, <1>5, <1>6, <1>7, <1>8, <1>9 DEF Next

(* A step that neither subscribes t nor answers it                         *)
Idle(t) ==
    /\ In(inbox'[t], Says("SUB", None)) => In(inbox[t], Says("SUB", None))
    /\ \A n \in Node : n = harbor[t] /\ t \in calling'[n] => t \in calling[n]
    /\ t \in alive' => t \in alive
    /\ chan'[t].subscribe => chan[t].subscribe
                             /\ ("SUB" \in chan'[t].waits => "SUB" \in chan[t].waits)

LEMMA MemberKept ==
  ASSUME NEW t \in Service, MemberOK(t), Stays(t), Patient(t), Idle(t)
  PROVE  MemberOK(t)'
<1> PICK n \in Node : n = harbor[t]
  BY MulticastAssumption
<1>1. MemberWith(Told(t), inbox[t], "SUB" \in chan[t].waits, chan[t].subscribe,
                 t \in alive, t \in calling[n], channel[Owner] # None, t \in Set(channel[n]), t)
  BY MemberIs
<1>2. /\ channel'[Owner] # None => channel[Owner] # None
      /\ channel'[Owner] # None /\ t \in Set(channel[n]) => t \in Set(channel'[n])
  BY DEF Stays
<1>3. t \in calling'[n] => t \in calling[n]
  BY DEF Idle
<1>4. MemberWith(Told(t)', inbox'[t], "SUB" \in chan'[t].waits, chan'[t].subscribe,
                 t \in alive', t \in calling'[n], channel'[Owner] # None, t \in Set(channel'[n]), t)
  BY <1>1, <1>2, <1>3 DEF MemberWith, Patient, Idle
<1> QED
  BY <1>4, MemberIs

LEMMA IdleStep ==
  ASSUME Shape, Next, NEW t \in Service, ~Receive(t), \A n \in Node : ~Sub(n, t) /\ ~SubCall(n, t),
         \A n \in Node : SubAnswered(n) => Calmly(t)
  PROVE  Idle(t)
<1>0. ASSUME Calmly(t), UNCHANGED <<alive, chan>> PROVE Idle(t)
  BY <1>0 DEF Calmly, CalmInbox, Calm, SameCall, Idle
<1>1. ASSUME NEW s \in Service, Subscribe(s) \/ Unsubscribe(s) \/ Delete(s) \/ Publish(s)
      PROVE  Idle(t)
  <2>1. UNCHANGED <<inbox, calling, alive>>
    BY <1>1 DEF Subscribe, Unsubscribe, Delete, Publish, daemonVars
  <2>2. chan'[t].subscribe => chan[t].subscribe
                              /\ ("SUB" \in chan'[t].waits => "SUB" \in chan[t].waits)
    <3>1. chan \in [Service -> [channel : BOOLEAN, subscribe : BOOLEAN, waits : SUBSET {"SUB", "PUB"}]]
      BY DEF Shape
    <3>2. CASE Subscribe(s)
      BY <3>1, <3>2 DEF Subscribe
    <3>3. CASE Unsubscribe(s)
      BY <3>1, <3>3 DEF Unsubscribe
    <3>4. CASE Delete(s)
      BY <3>1, <3>4 DEF Delete
    <3>5. CASE Publish(s)
      BY <3>1, <3>5 DEF Publish
    <3> QED
      BY <1>1, <3>2, <3>3, <3>4, <3>5
  <2> QED
    BY <2>1, <2>2 DEF Idle
<1>2. ASSUME NEW s \in Service, Exit(s) PROVE Idle(t)
  <2>1. Calmly(t) /\ alive' \subseteq alive /\ UNCHANGED chan
    BY <1>2, ExitCalm DEF Exit
  <2> QED
    BY <2>1 DEF Calmly, CalmInbox, Calm, SameCall, Idle
<1>3. ASSUME NEW s \in Service, Receive(s) PROVE Idle(t)
  <2>1. s # t
    BY <1>3
  <2>2. Calmly(t) /\ UNCHANGED alive
    BY <1>3, <2>1, ReceiveCalm DEF Receive
  <2>3. chan'[t] = chan[t]
    BY <1>3, <2>1 DEF Receive, Shape
  <2> QED
    BY <2>2, <2>3 DEF Calmly, CalmInbox, Calm, SameCall, Idle
<1>4. ASSUME NEW n \in Node, NEW s \in Service, Sub(n, s) \/ SubCall(n, s) PROVE Idle(t)
  <2>1. s # t
    BY <1>4
  <2>2. Calmly(t) /\ UNCHANGED <<alive, chan>>
    BY <1>4, <2>1, SubCalm DEF Sub, SubCall
  <2> QED
    BY <1>0, <2>2
<1>5. ASSUME NEW n \in Node, SubR(n) PROVE Idle(t)
  BY <1>5 DEF SubR, Idle
<1>6. ASSUME NEW n \in Node, SubAnswered(n) PROVE Idle(t)
  BY <1>0, <1>6 DEF SubAnswered
<1>7. ASSUME NEW n \in Node, NEW s \in Service, Usub(n, s) PROVE Idle(t)
  BY <1>0, <1>7, UsubCalm DEF Usub
<1>8. ASSUME NEW n \in Node, NEW x \in Node \cup Service, Del(n, x) \/ PubHere(n, x) PROVE Idle(t)
  BY <1>0, <1>8, DelCalm, PubCalm DEF Del, PubHere
<1>9. ASSUME NEW n \in Node, UsubR(n) \/ DelR(n) \/ \E s \in Service : PubRemote(n, s) PROVE Idle(t)
  BY <1>0, <1>9, OthersCalm DEF UsubR, DelR, PubRemote
<1>h. ASSUME NEW s \in Service, NEW p \in Pub, Handled(s, p) PROVE Idle(t)
  <2>1. Calmly(t) /\ UNCHANGED <<alive, chan>>
    BY <1>h, HandledCalm, HandledDoes
  <2> QED
    BY <1>0, <2>1
<1> QED
  BY <1>h, <1>1, <1>2, <1>3, <1>4, <1>5, <1>6, <1>7, <1>8, <1>9 DEF Next

LEMMA MemberUnsubscribe ==
  ASSUME Shape, NEW s \in Service, AskedOnce(s), MemberOK(s), Unsubscribe(s)
  PROVE  MemberOK(s)'
<1> PICK n \in Node : n = harbor[s]
  BY MulticastAssumption
<1> DEFINE l == Says("USUB", s)
<1>1. to' = Queued(to, s, harbor[s], l) /\ l \in FromService(s)
  BY LettersSaid DEF Unsubscribe
<1> HIDE DEF l
<1>2. Grown(Told(s), Told(s)', l) /\ l # Says("SUB", s)
  BY <1>1, Telling, Distinct DEF l
<1>3. UNCHANGED <<inbox, calling, channel, alive>> /\ chan[s].subscribe /\ ~chan'[s].subscribe
  BY DEF Unsubscribe, daemonVars, Shape
<1>4. AskedWith(Told(s), inbox[s], ToOwner(n), OfOwner(n), "SUB" \in chan[s].waits, s \in calling[n], s)
  BY AskedIs
<1>5. MemberWith(Told(s), inbox[s], "SUB" \in chan[s].waits, chan[s].subscribe,
                 s \in alive, s \in calling[n], channel[Owner] # None, s \in Set(channel[n]), s)
  BY MemberIs
<1>6. /\ ~In(Told(s), Says("SUB", s)) /\ s \notin calling[n] /\ ~In(inbox[s], Says("SUB", None))
      /\ NotBehind(Told(s), l, Says("SUB", s))
  BY <1>3, <1>4, <1>5 DEF AskedWith, MemberWith, l
<1>7. NotBehind(Told(s)', l, Says("SUB", s))
  BY <1>2, <1>6 DEF Grown
<1>8. MemberWith(Told(s)', inbox'[s], "SUB" \in chan'[s].waits, chan'[s].subscribe,
                 s \in alive', s \in calling'[n], channel'[Owner] # None, s \in Set(channel'[n]), s)
  BY <1>3, <1>6, <1>7 DEF MemberWith, l
<1> QED
  BY <1>8, MemberIs

LEMMA MemberExit ==
  ASSUME Shape, NEW s \in Service, AskedOnce(s), MemberOK(s), Exit(s)
  PROVE  MemberOK(s)'
<1> PICK n \in Node : n = harbor[s]
  BY MulticastAssumption
<1> DEFINE l == Says("USUB", s)
<1>1. UNCHANGED <<calling, channel, chan>> /\ s \notin alive' /\ inbox'[s] = <<>>
  BY DEF Exit, daemonVars, Shape
<1>2. ~In(<<>>, Says("SUB", None))
  BY DEF In
<1>3. AskedWith(Told(s), inbox[s], ToOwner(n), OfOwner(n), "SUB" \in chan[s].waits, s \in calling[n], s)
  BY AskedIs
<1>4. MemberWith(Told(s), inbox[s], "SUB" \in chan[s].waits, chan[s].subscribe,
                 s \in alive, s \in calling[n], channel[Owner] # None, s \in Set(channel[n]), s)
  BY MemberIs
<1>5. /\ s \in calling[n] => ~In(Told(s)', l)
      /\ NotBehind(Told(s)', l, Says("SUB", s))
  <2>1. CASE ToldBut({})
    BY <1>4, <2>1 DEF MemberWith, ToldBut
  <2>2. CASE chan[s].subscribe /\ Grown(Told(s), Told(s)', l)
    <3>1. l # Says("SUB", s)
      BY Distinct
    <3>2. ~In(Told(s), Says("SUB", s)) /\ s \notin calling[n] /\ NotBehind(Told(s), l, Says("SUB", s))
      BY <1>3, <1>4, <2>2 DEF AskedWith, MemberWith
    <3> HIDE DEF l
    <3> QED
      BY <2>2, <3>1, <3>2 DEF Grown
  <2> QED
    BY <2>1, <2>2, ExitDoes
<1>6. MemberWith(Told(s)', inbox'[s], "SUB" \in chan'[s].waits, chan'[s].subscribe,
                 s \in alive', s \in calling'[n], channel'[Owner] # None, s \in Set(channel'[n]), s)
  BY <1>1, <1>2, <1>4, <1>5 DEF MemberWith
<1> QED
  BY <1>6, MemberIs

LEMMA MemberReceive ==
  ASSUME Shape, NEW s \in Service, AskedOnce(s), MemberOK(s), Receive(s)
  PROVE  MemberOK(s)'
<1> PICK n \in Node : n = harbor[s]
  BY MulticastAssumption
<1>1. UNCHANGED <<calling, channel, alive>> /\ Told(s)' = Told(s)
  BY DEF Receive, daemonVars, Told
<1>2. AskedWith(Told(s), inbox[s], ToOwner(n), OfOwner(n), "SUB" \in chan[s].waits, s \in calling[n], s)
  BY AskedIs
<1>3. MemberWith(Told(s), inbox[s], "SUB" \in chan[s].waits, chan[s].subscribe,
                 s \in alive, s \in calling[n], channel[Owner] # None, s \in Set(channel[n]), s)
  BY MemberIs
<1>4. PICK m \in Answers :
               /\ Shrunk(inbox[s], inbox'[s], m) /\ In(inbox[s], m)
               /\ \/ UNCHANGED chan
                  \/ \E c \in {"SUB", "PUB"} :
                           /\ m = Says(c, None)
                           /\ chan' = [chan EXCEPT ![s].waits = @ \ {c},
                                                   ![s].subscribe = @ \/ c = "SUB"]
  BY ReceiveDoes
<1>5. MemberWith(Told(s), inbox'[s], "SUB" \in chan'[s].waits, chan'[s].subscribe,
                 s \in alive, s \in calling[n], channel[Owner] # None, s \in Set(channel[n]), s)
  <2>1. CASE UNCHANGED chan
    BY <1>3, <1>4, <2>1 DEF MemberWith, Shrunk
  <2>2. ASSUME NEW c \in {"SUB", "PUB"}, m = Says(c, None),
               chan' = [chan EXCEPT ![s].waits = @ \ {c}, ![s].subscribe = @ \/ c = "SUB"]
        PROVE  MemberWith(Told(s), inbox'[s], "SUB" \in chan'[s].waits, chan'[s].subscribe,
                 s \in alive, s \in calling[n], channel[Owner] # None, s \in Set(channel[n]), s)
    <3>1. chan'[s].waits = chan[s].waits \ {c} /\ (chan'[s].subscribe <=> (chan[s].subscribe \/ c = "SUB"))
      BY <2>2, AnswerTaken
    <3>2. CASE c = "PUB"
      BY <1>3, <1>4, <3>1, <3>2 DEF MemberWith, Shrunk
    <3>3. CASE c = "SUB"
      BY <1>3, <1>4, <2>2, <3>1, <3>3 DEF MemberWith, Shrunk
    <3> QED
      BY <3>2, <3>3
  <2> QED
    BY <1>4, <2>1, <2>2
<1>6. MemberWith(Told(s)', inbox'[s], "SUB" \in chan'[s].waits, chan'[s].subscribe,
                 s \in alive', s \in calling'[n], channel'[Owner] # None, s \in Set(channel'[n]), s)
  BY <1>1, <1>5
<1> QED
  BY <1>6, MemberIs

LEMMA MemberSub ==
  ASSUME Shape, GroupsOK, NEW n \in Node, NEW s \in Service, AskedOnce(s), MemberOK(s),
         Sub(n, s) \/ SubCall(n, s), Stays(s)
  PROVE  MemberOK(s)'
<1>1. /\ n = harbor[s] /\ Takes(Told(s), Told(s)', Says("SUB", s))
      /\ UNCHANGED <<chan, alive>>
  BY SubDoes, SubCallDoes DEF Sub, SubCall
<1>2. AskedWith(Told(s), inbox[s], ToOwner(n), OfOwner(n), "SUB" \in chan[s].waits, s \in calling[n], s)
  BY <1>1, AskedIs
<1>3. MemberWith(Told(s), inbox[s], "SUB" \in chan[s].waits, chan[s].subscribe,
                 s \in alive, s \in calling[n], channel[Owner] # None, s \in Set(channel[n]), s)
  BY <1>1, MemberIs
<1>4. /\ ~In(inbox[s], Says("SUB", None)) /\ ~chan[s].subscribe
      /\ ~In(Told(s)', Says("USUB", s)) /\ NotBehind(Told(s)', Says("USUB", s), Says("SUB", s))
  BY <1>1, <1>2, <1>3 DEF AskedWith, MemberWith, Takes, Shrunk
<1>5. channel'[Owner] # None /\ In(inbox'[s], Says("SUB", None)) => s \in Set(channel'[n])
  <2>1. CASE Sub(n, s)
    <3>1. s \in Here(n) /\ GroupOK(n)
      BY <1>1 DEF Here, GroupsOK
    <3>2. CASE channel[n] # None /\ Join(n, channel[n], s)
      <4>1. Join(n, Set(channel[n]), s)
        BY <3>1, <3>2, SetIs
      <4>2. Set(channel'[n]) = Set(channel[n]) \cup {s}
        BY <3>1, <4>1, JoinDoes
      <4> QED
        BY <4>2
    <3>3. CASE n = Owner /\ channel[n] = None /\ UNCHANGED <<channel, channel_n, handed>>
      BY <3>3
    <3> QED
      BY <2>1, <3>2, <3>3, SubDoes
  <2>2. CASE SubCall(n, s)
    BY <1>4, <2>2 DEF SubCall
  <2> QED
    BY <2>1, <2>2
<1>6. MemberWith(Told(s)', inbox'[s], "SUB" \in chan'[s].waits, chan'[s].subscribe,
                 s \in alive', s \in calling'[n], channel'[Owner] # None, s \in Set(channel'[n]), s)
  BY <1>1, <1>4, <1>5 DEF MemberWith
<1> QED
  BY <1>1, <1>6, MemberIs

LEMMA MemberAnswered ==
  ASSUME Shape, GroupsOK, NEW n \in Node, NEW s \in Here(n), AskedOnce(s), MemberOK(s), EndOK(n),
         NEW c \in {"some", "none"}, n # Owner, ToldBut({}), UNCHANGED <<chan, alive>>,
         Takes(OfOwner(n), OfOwner(n)', Says(c, s)),
         IF c = "none" THEN UNCHANGED <<channel, channel_n, handed>>
                       ELSE Join(n, Set(channel[n]), s)
  PROVE  MemberOK(s)'
<1>1. s \in Service /\ n = harbor[s] /\ Told(s)' = Told(s)
  BY DEF Here, ToldBut
<1>2. AskedWith(Told(s), inbox[s], ToOwner(n), OfOwner(n), "SUB" \in chan[s].waits, s \in calling[n], s)
  BY <1>1, AskedIs
<1>3. MemberWith(Told(s), inbox[s], "SUB" \in chan[s].waits, chan[s].subscribe,
                 s \in alive, s \in calling[n], channel[Owner] # None, s \in Set(channel[n]), s)
  BY <1>1, MemberIs
<1>4. s \in calling[n] /\ ~chan[s].subscribe /\ ~In(Told(s), Says("USUB", s))
  BY <1>2, <1>3 DEF AskedWith, MemberWith, Takes
<1>5. channel'[Owner] # None => s \in Set(channel'[n])
  <2>1. CASE c = "none"
    BY <2>1 DEF EndOK, Takes
  <2>2. CASE c # "none"
    <3>1. GroupOK(n) /\ Join(n, Set(channel[n]), s)
      BY <2>2 DEF GroupsOK
    <3>2. Set(channel'[n]) = Set(channel[n]) \cup {s}
      BY <3>1, JoinDoes
    <3> QED
      BY <3>2
  <2> QED
    BY <2>1, <2>2
<1>6. MemberWith(Told(s)', inbox'[s], "SUB" \in chan'[s].waits, chan'[s].subscribe,
                 s \in alive', s \in calling'[n], channel'[Owner] # None, s \in Set(channel'[n]), s)
  BY <1>1, <1>3, <1>4, <1>5 DEF MemberWith
<1> QED
  BY <1>1, <1>6, MemberIs

LEMMA MemberUsub ==
  ASSUME Shape, NEW n \in Node, NEW s \in Service, MemberOK(s), Usub(n, s)
  PROVE  MemberOK(s)'
<1>1. /\ n = harbor[s] /\ Takes(Told(s), Told(s)', Says("USUB", s))
      /\ UNCHANGED <<chan, alive, inbox, calling>>
  BY UsubDoes DEF Usub
<1>2. MemberWith(Told(s), inbox[s], "SUB" \in chan[s].waits, chan[s].subscribe,
                 s \in alive, s \in calling[n], channel[Owner] # None, s \in Set(channel[n]), s)
  BY <1>1, MemberIs
<1>3. MemberWith(Told(s)', inbox'[s], "SUB" \in chan'[s].waits, chan'[s].subscribe,
                 s \in alive', s \in calling'[n], channel'[Owner] # None, s \in Set(channel'[n]), s)
  BY <1>1, <1>2 DEF MemberWith, Takes, Shrunk
<1> QED
  BY <1>1, <1>3, MemberIs

LEMMA MemberStep ==
  ASSUME Shape, GroupsOK, AskedAll, MemberAll, EndAll, Next
  PROVE  MemberAll'
<1> SUFFICES ASSUME NEW t \in Service PROVE MemberOK(t)'
  BY DEF MemberAll
<1>1. AskedOnce(t) /\ MemberOK(t)
  BY DEF AskedAll, MemberAll
<1>2. CASE Unsubscribe(t) \/ Exit(t) \/ Receive(t)
  BY <1>1, <1>2, MemberUnsubscribe, MemberExit, MemberReceive
<1>3. CASE \E n \in Node : Usub(n, t)
  BY <1>1, <1>3, MemberUsub
<1>4. CASE ~(\E n \in Node : Usub(n, t)) /\ ~Unsubscribe(t) /\ ~Exit(t) /\ ~Receive(t)
  <2>1. Stays(t) /\ Patient(t)
    BY <1>4, GroupsStay, PatientStep
  <2>2. CASE \E n \in Node : Sub(n, t) \/ SubCall(n, t)
    BY <1>1, <2>1, <2>2, MemberSub
  <2>3. ASSUME NEW n \in Node, SubAnswered(n) PROVE MemberOK(t)' \/ Calmly(t)
    <3>1. PICK s \in Here(n), c \in {"some", "none"} :
               /\ Takes(OfOwner(n), OfOwner(n)', Says(c, s))
               /\ IF c = "none" THEN UNCHANGED <<channel, channel_n, handed>>
                                ELSE Join(n, Set(channel[n]), s)
               /\ calling' = [calling EXCEPT ![n] = @ \ {s}]
               /\ Got(s, Says("SUB", None)) /\ InboxBut({s})
      BY <2>3, SubAnsweredDoes
    <3>2. /\ n # Owner /\ ToldBut({}) /\ UpBut({}) /\ DownBut({n}) /\ UNCHANGED <<chan, alive>>
          /\ s \in Service
      BY <2>3, SubAnsweredDoes DEF SubAnswered, Here
    <3>3. CASE t = s
      BY <1>1, <3>1, <3>2, <3>3, MemberAnswered DEF EndAll
    <3>4. CASE t # s
      <4>1. Says(c, s) # Says("some", t) /\ Says(c, s) # Says("none", t)
        BY <3>4, Distinct
      <4>2. QuietDown(t) /\ CalmInbox(t)
        BY <3>1, <3>2, <3>4, <4>1, DownQuiet, InboxCalm DEF Takes
      <4>3. SameCall(t)
        BY <3>1, <3>4 DEF SameCall, Shape
      <4> QED
        BY <3>2, <4>2, <4>3, NothingSaid DEF Calmly, StillAsks
    <3> QED
      BY <3>3, <3>4
  <2>4. CASE /\ ~(\E n \in Node : Sub(n, t) \/ SubCall(n, t))
             /\ \A n \in Node : SubAnswered(n) => Calmly(t)
    <3>1. Idle(t)
      BY <1>4, <2>4, IdleStep
    <3> QED
      BY <1>1, <2>1, <3>1, MemberKept
  <2> QED
    BY <2>2, <2>3, <2>4
<1> QED
  BY <1>2, <1>3, <1>4
-----------------------------------------------------------------------------
(* What the owner and a node know of each other                            *)

NodeWith(up, down, open, group, known, cross, hand, pub, n) ==
    LET some == \E s \in Here(n) : In(down, Says("some", s))
        left == In(up, Says("USUBR", None))
    IN  /\ In(down, Says("DELR", None)) \/ (\E s \in Here(n) : In(down, Says("none", s))) => ~open
        /\ n # Owner /\ open /\ ~cross =>
               /\ group # None \/ some => known
               /\ left => group = None /\ ~some
               /\ \A s \in Here(n) : NotBehind(up, Says("USUBR", None), Says("SUBR", s))
        /\ open /\ (~cross \/ n = Owner) => \A s \in Set(group) : hand[s] = pub - Flying(down)

LEMMA NodeIs ==
  ASSUME NEW n \in Node
  PROVE  /\ NodeOK(n) <=> NodeWith(ToOwner(n), OfOwner(n), channel[Owner] # None, channel[n],
                                   n \in Set(remote), crossed, handed, published, n)
         /\ NodeOK(n)' <=> NodeWith(ToOwner(n)', OfOwner(n)', channel'[Owner] # None, channel'[n],
                                    n \in Set(remote'), crossed', handed', published', n)
<1>1. InFlight(n) = Flying(OfOwner(n)) /\ InFlight(n)' = Flying(OfOwner(n)')
  BY DEF InFlight, Flying, OfOwner
<1>2. EndOK(n) <=> (In(OfOwner(n), Says("DELR", None))
                       \/ (\E s \in Here(n) : In(OfOwner(n), Says("none", s))) => channel[Owner] = None)
  BY DEF EndOK
<1>3. EndOK(n)' <=> (In(OfOwner(n)', Says("DELR", None))
                       \/ (\E s \in Here(n) : In(OfOwner(n)', Says("none", s))) => channel'[Owner] = None)
  BY DEF EndOK, In, Says, Here
<1>4. RemoteOK(n) <=> (n # Owner /\ channel[Owner] # None /\ ~crossed =>
         /\ channel[n] # None \/ (\E s \in Here(n) : In(OfOwner(n), Says("some", s))) => n \in Set(remote)
         /\ In(ToOwner(n), Says("USUBR", None)) =>
                channel[n] = None /\ ~(\E s \in Here(n) : In(OfOwner(n), Says("some", s)))
         /\ \A s \in Here(n) : NotBehind(ToOwner(n), Says("USUBR", None), Says("SUBR", s)))
  BY DEF RemoteOK, Some1, Left
<1>5. RemoteOK(n)' <=> (n # Owner /\ channel'[Owner] # None /\ ~crossed' =>
         /\ channel'[n] # None \/ (\E s \in Here(n) : In(OfOwner(n)', Says("some", s))) => n \in Set(remote')
         /\ In(ToOwner(n)', Says("USUBR", None)) =>
                channel'[n] = None /\ ~(\E s \in Here(n) : In(OfOwner(n)', Says("some", s)))
         /\ \A s \in Here(n) : NotBehind(ToOwner(n)', Says("USUBR", None), Says("SUBR", s)))
  BY DEF RemoteOK, Some1, Left, In, NotBehind, Says, Here, Set
<1>6. HandedOK(n) <=> (channel[Owner] # None /\ (~crossed \/ n = Owner) =>
         \A s \in Set(channel[n]) : handed[s] = published - Flying(OfOwner(n)))
  BY <1>1 DEF HandedOK
<1>7. HandedOK(n)' <=> (channel'[Owner] # None /\ (~crossed' \/ n = Owner) =>
         \A s \in Set(channel'[n]) : handed'[s] = published' - Flying(OfOwner(n)'))
  BY <1>1 DEF HandedOK, Set
<1>8. NodeOK(n) <=> NodeWith(ToOwner(n), OfOwner(n), channel[Owner] # None, channel[n],
                             n \in Set(remote), crossed, handed, published, n)
  BY <1>2, <1>4, <1>6 DEF NodeOK, NodeWith
<1>9. NodeOK(n)' <=> NodeWith(ToOwner(n)', OfOwner(n)', channel'[Owner] # None, channel'[n],
                              n \in Set(remote'), crossed', handed', published', n)
  BY <1>3, <1>5, <1>7 DEF NodeOK, NodeWith
<1> QED
  BY <1>8, <1>9

LEMMA ClosedIsOK ==
  ASSUME NEW n \in Node, channel'[Owner] = None
  PROVE  NodeOK(n)'
  BY NodeIs DEF NodeWith

(* A step that changes nothing between the owner and n                     *)
UpCalm(n) == /\ In(ToOwner(n)', Says("USUBR", None)) => In(ToOwner(n), Says("USUBR", None))
             /\ \A s \in Here(n) : NotBehind(ToOwner(n), Says("USUBR", None), Says("SUBR", s)) =>
                                   NotBehind(ToOwner(n)', Says("USUBR", None), Says("SUBR", s))

DownCalm(n) ==
    /\ In(OfOwner(n)', Says("DELR", None)) => In(OfOwner(n), Says("DELR", None))
    /\ \A c \in {"some", "none"} : \A s \in Here(n) :
           In(OfOwner(n)', Says(c, s)) => In(OfOwner(n), Says(c, s))
    /\ Flying(OfOwner(n)') = Flying(OfOwner(n))

Unmoved(n) ==
    /\ channel'[Owner] # None => channel[Owner] # None
    /\ channel'[n] = channel[n]
    /\ n \in Set(remote) => n \in Set(remote')
    /\ crossed => crossed'
    /\ published' = published
    /\ \A s \in Set(channel[n]) : handed'[s] = handed[s]

LEMMA NodeKept ==
  ASSUME NEW n \in Node, NodeOK(n), UpCalm(n), DownCalm(n), Unmoved(n)
  PROVE  NodeOK(n)'
<1>1. NodeWith(ToOwner(n), OfOwner(n), channel[Owner] # None, channel[n],
               n \in Set(remote), crossed, handed, published, n)
  BY NodeIs
<1>2. NodeWith(ToOwner(n)', OfOwner(n)', channel'[Owner] # None, channel[n],
               n \in Set(remote'), crossed', handed', published', n)
  BY <1>1 DEF NodeWith, UpCalm, DownCalm, Unmoved
<1>3. channel'[n] = channel[n]
  BY DEF Unmoved
<1> QED
  BY <1>2, <1>3, NodeIs

LEMMA UpIsCalm ==
  ASSUME NEW n \in Node, NEW k \in Node,
         \/ UpBut({k}) /\ n # k
         \/ UpBut({k}) /\ \E m : Takes(ToOwner(k), ToOwner(k)', m)
         \/ UpBut({k}) /\ \E m : Grown(ToOwner(k), ToOwner(k)', m) /\ m # Says("USUBR", None)
         \/ UpBut({})
  PROVE  UpCalm(n)
<1>1. CASE (UpBut({k}) /\ n # k) \/ UpBut({})
  BY <1>1 DEF UpBut, UpCalm
<1>2. CASE n = k /\ \E m : Takes(ToOwner(k), ToOwner(k)', m)
  BY <1>2 DEF UpCalm, Takes, Shrunk
<1>3. CASE n = k /\ \E m : Grown(ToOwner(k), ToOwner(k)', m) /\ m # Says("USUBR", None)
  <2> DEFINE u == Says("USUBR", None)
  <2>1. PICK m : Grown(ToOwner(k), ToOwner(k)', m) /\ m # u
    BY <1>3
  <2>2. \A s : u # Says("SUBR", s)
    BY Distinct
  <2> HIDE DEF u
  <2>3. In(ToOwner(k)', u) => In(ToOwner(k), u)
    BY <2>1 DEF Grown
  <2>4. \A s \in Here(n) : NotBehind(ToOwner(k), u, Says("SUBR", s)) =>
                           NotBehind(ToOwner(k)', u, Says("SUBR", s))
    BY <2>1, <2>2 DEF Grown
  <2> QED
    BY <1>3, <2>3, <2>4 DEF UpCalm, u
<1> QED
  BY <1>1, <1>2, <1>3

LEMMA DownIsCalm ==
  ASSUME NEW n \in Node, NEW k \in Node,
         \/ DownBut({k}) /\ n # k
         \/ DownBut({})
  PROVE  DownCalm(n)
  BY DEF DownBut, DownCalm

(* The steps about n itself                                                *)
LEMMA NodeSub ==
  ASSUME Shape, GroupsOK, NEW n \in Node, NEW s \in Service, NodeOK(n), Sub(n, s)
  PROVE  NodeOK(n)'
<1>1. n = harbor[s] /\ UpBut({}) /\ DownBut({}) /\ s \in Here(n) /\ GroupOK(n)
  BY SubDoes DEF Here, GroupsOK
<1>2. ToOwner(n)' = ToOwner(n) /\ OfOwner(n)' = OfOwner(n) /\ UNCHANGED <<remote, crossed, published>>
  BY <1>1 DEF UpBut, DownBut, Sub
<1>3. NodeWith(ToOwner(n), OfOwner(n), channel[Owner] # None, channel[n],
               n \in Set(remote), crossed, handed, published, n)
  BY NodeIs
<1>4. CASE UNCHANGED <<channel, channel_n, handed>>
  BY <1>2, <1>3, <1>4, NodeIs
<1>5. CASE channel[n] # None /\ Join(n, channel[n], s)
  <2>1. Join(n, Set(channel[n]), s)
    BY <1>1, <1>5, SetIs
  <2>2. /\ GroupBut({n}) /\ channel'[n] # None /\ Set(channel'[n]) = Set(channel[n]) \cup {s}
        /\ \A t \in Service : t \in Set(channel[n]) \/ t # s => handed'[t] = handed[t]
        /\ s \notin Set(channel[n]) => handed'[s] = published - InFlight(n)
    BY <1>1, <2>1, JoinDoes
  <2>3. InFlight(n) = Flying(OfOwner(n))
    BY DEF InFlight, Flying, OfOwner
  <2>4. channel'[Owner] # None => channel[Owner] # None
    BY <1>5, <2>2, MulticastAssumption DEF GroupBut
  <2>5. Set(channel[n]) \subseteq Service
    BY <1>1, SetIs, HereIsFinite
  <2>6. NodeWith(ToOwner(n), OfOwner(n), channel'[Owner] # None, channel'[n],
                 n \in Set(remote), crossed, handed', published, n)
    BY <1>3, <1>5, <2>2, <2>3, <2>4, <2>5 DEF NodeWith
  <2> QED
    BY <1>2, <2>6, NodeIs
<1> QED
  BY <1>4, <1>5, SubDoes

LEMMA NodeSubR ==
  ASSUME Shape, NEW n \in Node, NodeOK(n), SubR(n)
  PROVE  NodeOK(n)'
<1>1. PICK s \in Here(n), c \in {"some", "none"} :
               /\ c = "none" <=> channel[Owner] = None
               /\ Takes(ToOwner(n), ToOwner(n)', Says("SUBR", s))
               /\ Grown(OfOwner(n), OfOwner(n)', Says(c, s))
  BY SubRDoes
<1>2. /\ UNCHANGED <<channel, crossed, published, handed>>
      /\ channel[Owner] # None => n \in Set(remote')
  <2>1. remote' = IF channel[Owner] = None THEN remote ELSE Set(remote) \cup {n}
    BY DEF SubR
  <2>2. Set(remote) \cup {n} \in SUBSET Node
    BY DEF Set, Shape
  <2>3. Set(remote) \cup {n} # None
    <3> DEFINE g == Set(remote) \cup {n}
    <3>1. g \subseteq Node
      BY <2>2
    <3> HIDE DEF g
    <3>2. g # None
      BY <3>1, NotNone
    <3> QED
      BY <3>2 DEF g
  <2> QED
    BY <2>1, <2>3 DEF SubR, Set
<1>3. NodeWith(ToOwner(n), OfOwner(n), channel[Owner] # None, channel[n],
               n \in Set(remote), crossed, handed, published, n)
  BY NodeIs
<1>4. Says("USUBR", None) # Says("SUBR", s) /\ Weight(Says(c, s)) = 0
      /\ Says(c, s) # Says("DELR", None) /\ \A t : c = "some" => Says("none", t) # Says(c, s)
  BY DEF Says, Weight
<1>5. Flying(OfOwner(n)') = Flying(OfOwner(n))
  BY <1>1, <1>4 DEF Grown
<1>6. CASE channel[Owner] = None
  BY <1>2, <1>6, ClosedIsOK
<1>7. CASE channel[Owner] # None
  <2>1. c = "some"
    BY <1>1, <1>7
  <2>2. ~(In(OfOwner(n)', Says("DELR", None)) \/ \E t \in Here(n) : In(OfOwner(n)', Says("none", t)))
    BY <1>1, <1>3, <1>4, <1>7, <2>1 DEF NodeWith, Grown
  <2>3. ASSUME n # Owner, ~crossed
        PROVE  /\ ~In(ToOwner(n)', Says("USUBR", None))
               /\ \A t \in Here(n) : NotBehind(ToOwner(n)', Says("USUBR", None), Says("SUBR", t))
    <3>1. \A t \in Here(n) : NotBehind(ToOwner(n), Says("USUBR", None), Says("SUBR", t))
      BY <1>3, <1>7, <2>3 DEF NodeWith
    <3> QED
      BY <1>1, <3>1 DEF Takes, Shrunk
  <2>4. NodeWith(ToOwner(n)', OfOwner(n)', channel[Owner] # None, channel[n],
               n \in Set(remote'), crossed, handed, published, n)
    BY <1>2, <1>3, <1>5, <1>7, <2>2, <2>3 DEF NodeWith
  <2> QED
    BY <1>2, <2>4, NodeIs
<1> QED
  BY <1>6, <1>7

LEMMA NodeAnswered ==
  ASSUME Shape, GroupsOK, NEW n \in Node, NodeOK(n), SubAnswered(n)
  PROVE  NodeOK(n)'
<1>1. /\ n # Owner /\ UpBut({}) /\ DownBut({n}) /\ GroupOK(n)
      /\ UNCHANGED <<remote, crossed, published>>
  BY SubAnsweredDoes DEF SubAnswered, GroupsOK
<1>2. PICK s \in Here(n), c \in {"some", "none"} :
               /\ Takes(OfOwner(n), OfOwner(n)', Says(c, s))
               /\ IF c = "none" THEN UNCHANGED <<channel, channel_n, handed>>
                                ELSE Join(n, Set(channel[n]), s)
  BY SubAnsweredDoes
<1>3. NodeWith(ToOwner(n), OfOwner(n), channel[Owner] # None, channel[n],
               n \in Set(remote), crossed, handed, published, n)
  BY NodeIs
<1>4. CASE c = "none"
  <2>1. channel[Owner] = None
    BY <1>2, <1>3, <1>4 DEF NodeWith, Takes
  <2> QED
    BY <1>2, <1>4, <2>1, ClosedIsOK
<1>5. CASE c = "some"
  <2>1. Join(n, Set(channel[n]), s)
    BY <1>2, <1>5
  <2>2. /\ GroupBut({n}) /\ channel'[n] # None /\ Set(channel'[n]) = Set(channel[n]) \cup {s}
        /\ \A t \in Service : t \in Set(channel[n]) \/ t # s => handed'[t] = handed[t]
        /\ s \notin Set(channel[n]) => handed'[s] = published - InFlight(n)
    BY <1>1, <2>1, JoinDoes
  <2>3. InFlight(n) = Flying(OfOwner(n))
    BY DEF InFlight, Flying, OfOwner
  <2>4. channel'[Owner] = channel[Owner] /\ ToOwner(n)' = ToOwner(n)
    BY <1>1, <2>2, MulticastAssumption DEF GroupBut, UpBut
  <2>5. Set(channel[n]) \subseteq Service
    BY <1>1, SetIs, HereIsFinite
  <2>6. Weight(Says(c, s)) = 0
    BY <1>5 DEF Says, Weight
  <2>7. Flying(OfOwner(n)') = Flying(OfOwner(n))
    BY <1>2, <2>6 DEF Takes, Shrunk
  <2>8. /\ \A m : In(OfOwner(n)', m) => In(OfOwner(n), m)
        /\ In(OfOwner(n), Says("some", s))
    BY <1>2, <1>5 DEF Takes, Shrunk
  <2>9. NodeWith(ToOwner(n), OfOwner(n)', channel'[Owner] # None, channel'[n],
                 n \in Set(remote), crossed, handed', published, n)
    BY <1>3, <2>2, <2>3, <2>4, <2>5, <2>7, <2>8 DEF NodeWith
  <2> QED
    BY <1>1, <2>4, <2>9, NodeIs
<1> QED
  BY <1>4, <1>5

LEMMA NobodyCalls ==
  ASSUME AskedAll, NEW n \in Node, calling[n] = {}, NEW s \in Here(n)
  PROVE  ~In(ToOwner(n), Says("SUBR", s)) /\ ~In(OfOwner(n), Says("some", s))
<1>1. s \in Service /\ harbor[s] = n
  BY DEF Here
<1>2. AskedWith(Told(s), inbox[s], ToOwner(n), OfOwner(n), "SUB" \in chan[s].waits, s \in calling[n], s)
  BY <1>1, AskedIs DEF AskedAll
<1> QED
  BY <1>2 DEF AskedWith

LEMMA NodeUsub ==
  ASSUME Shape, GroupsOK, AskedAll, NEW n \in Node, NEW s \in Service, NodeOK(n), Usub(n, s)
  PROVE  NodeOK(n)'
<1> DEFINE last == s \in Set(channel[n]) /\ LastLeaves(n)
           u == Says("USUBR", None)
<1>1. /\ n = harbor[s] /\ DownBut({}) /\ GroupOK(n)
      /\ \/ last /\ Grown(ToOwner(n), ToOwner(n)', u)
         \/ ~last /\ UpBut({})
  BY UsubDoes DEF GroupsOK
<1>2. /\ OfOwner(n)' = OfOwner(n) /\ UNCHANGED <<remote, published, handed, calling>>
      /\ crossed' = (crossed \/ (last /\ calling[n] # {}))
  BY <1>1 DEF DownBut, Usub
<1>3. NodeWith(ToOwner(n), OfOwner(n), channel[Owner] # None, channel[n],
               n \in Set(remote), crossed, handed, published, n)
  BY NodeIs
<1>4. ASSUME s \in Set(channel[n])
      PROVE  /\ GroupBut({n}) /\ Set(channel'[n]) = Set(channel[n]) \ {s} /\ channel[n] # None
             /\ channel'[n] = None <=> LastLeaves(n)
  <2>1. Leave(n, s)
    BY <1>4 DEF Usub
  <2> QED
    BY <1>1, <1>4, <2>1, LeaveDoes
<1>5. ASSUME s \notin Set(channel[n]) PROVE UNCHANGED channel
  BY <1>5 DEF Usub
<1>6. channel'[Owner] # None => channel[Owner] # None
  BY <1>4, <1>5, MulticastAssumption DEF GroupBut
<1>7. Set(channel'[n]) \subseteq Set(channel[n]) /\ (channel'[n] # None => channel[n] # None)
  BY <1>4, <1>5
<1>8. CASE last
  <2>1. channel'[n] = None /\ Grown(ToOwner(n), ToOwner(n)', u)
    BY <1>1, <1>4, <1>8
  <2>2. ASSUME ~crossed', NEW t \in Here(n)
        PROVE  ~In(ToOwner(n), Says("SUBR", t)) /\ ~In(OfOwner(n), Says("some", t))
    <3>1. calling[n] = {}
      BY <1>2, <1>8, <2>2
    <3> QED
      BY <3>1, NobodyCalls
  <2>3. \A t : u # Says("SUBR", t)
    BY Distinct
  <2> HIDE DEF last
  <2>4. ASSUME n # Owner, channel[Owner] # None, ~crossed', NEW t \in Here(n)
        PROVE  NotBehind(ToOwner(n)', u, Says("SUBR", t))
    <3>1. NotBehind(ToOwner(n), u, Says("SUBR", t))
      BY <1>2, <1>3, <2>4 DEF NodeWith
    <3>2. ~In(ToOwner(n), Says("SUBR", t)) /\ u # Says("SUBR", t)
      BY <2>2, <2>3, <2>4
    <3> HIDE DEF u
    <3> QED
      BY <2>1, <3>1, <3>2 DEF Grown
  <2>5. NodeWith(ToOwner(n)', OfOwner(n), channel'[Owner] # None, channel'[n],
               n \in Set(remote), crossed', handed, published, n)
    BY <1>2, <1>3, <1>6, <1>7, <2>1, <2>2, <2>4 DEF NodeWith
  <2> QED
    BY <1>2, <2>5, NodeIs
<1>9. CASE ~last
  <2>1. ToOwner(n)' = ToOwner(n) /\ crossed' = crossed
    BY <1>1, <1>2, <1>9 DEF UpBut, Shape
  <2>2. channel'[n] = None <=> channel[n] = None
    BY <1>4, <1>5, <1>9
  <2> HIDE DEF last, u
  <2>3. NodeWith(ToOwner(n), OfOwner(n), channel'[Owner] # None, channel'[n],
               n \in Set(remote), crossed, handed, published, n)
    BY <1>3, <1>6, <1>7, <2>2 DEF NodeWith
  <2> QED
    BY <1>2, <2>1, <2>3, NodeIs
<1> QED
  BY <1>8, <1>9

LEMMA NodeUsubR ==
  ASSUME Shape, NEW n \in Node, NodeOK(n), UsubR(n)
  PROVE  NodeOK(n)'
<1>1. /\ n # Owner /\ Takes(ToOwner(n), ToOwner(n)', Says("USUBR", None)) /\ DownBut({})
      /\ UNCHANGED <<channel, crossed, published, handed>>
  BY UsubRDoes DEF UsubR
<1>2. OfOwner(n)' = OfOwner(n)
  BY <1>1 DEF DownBut
<1>3. NodeWith(ToOwner(n), OfOwner(n), channel[Owner] # None, channel[n],
               n \in Set(remote), crossed, handed, published, n)
  BY NodeIs
<1>4. NodeWith(ToOwner(n)', OfOwner(n), channel[Owner] # None, channel[n],
               n \in Set(remote'), crossed, handed, published, n)
  BY <1>1, <1>3 DEF NodeWith, Takes, Shrunk
<1> QED
  BY <1>1, <1>2, <1>4, NodeIs

(* A publication at a node, and at the owner                               *)
LEMMA NodePublish ==
  ASSUME Shape, GroupsOK, NEW n \in Node, NEW x \in Node \cup Service, n # Owner, PubHere(n, x),
         NodeOK(n)
  PROVE  NodeOK(n)'
<1>1. PICK p \in Pub : /\ Delivered(n, p, x)
                       /\ Takes(OfOwner(n), OfOwner(n)', Says("multicast", p))
                       /\ UpBut({}) /\ UNCHANGED published
  BY PubHereDoes
<1>2. UNCHANGED <<channel, remote, crossed>> /\ ToOwner(n)' = ToOwner(n)
  BY <1>1 DEF PubHere, UpBut
<1>3. NodeWith(ToOwner(n), OfOwner(n), channel[Owner] # None, channel[n],
               n \in Set(remote), crossed, handed, published, n)
  BY NodeIs
<1>4. Weight(Says("multicast", p)) = 1
  BY DEF Weight, Says
<1>5. /\ Flying(OfOwner(n)) = Flying(OfOwner(n)') + 1 /\ Flying(OfOwner(n)') \in Nat
      /\ \A m : In(OfOwner(n)', m) => In(OfOwner(n), m)
  BY <1>1, <1>4 DEF Takes, Shrunk
<1>6. \A s \in Set(channel[n]) : handed'[s] = handed[s] + 1 /\ handed[s] \in Int
  <2>1. Set(channel[n]) \subseteq Service
    BY SetIs, HereIsFinite DEF GroupsOK
  <2> QED
    BY <1>1, <2>1 DEF Delivered, Shape
<1>7. published \in Int
  BY DEF Shape
<1>8. NodeWith(ToOwner(n), OfOwner(n)', channel[Owner] # None, channel[n],
               n \in Set(remote), crossed, handed', published, n)
  <2>1. channel[Owner] # None /\ (~crossed \/ n = Owner) =>
            \A s \in Set(channel[n]) : handed'[s] = published - Flying(OfOwner(n)')
    <3> SUFFICES ASSUME channel[Owner] # None, ~crossed \/ n = Owner, NEW s \in Set(channel[n])
                 PROVE  handed'[s] = published - Flying(OfOwner(n)')
      OBVIOUS
    <3>1. handed[s] = published - Flying(OfOwner(n))
      BY <1>3 DEF NodeWith
    <3> QED
      BY <1>5, <1>6, <1>7, <3>1
  <2> QED
    BY <1>3, <1>5, <2>1 DEF NodeWith
<1> QED
  BY <1>1, <1>2, <1>8, NodeIs

(* The queue of the owner to itself is empty.                              *)
LEMMA NothingToItself ==
  ASSUME Shape
  PROVE  Flying(OfOwner(Owner)) = 0 /\ \A m : ~In(OfOwner(Owner), m)
<1>1. Owner \in Node /\ Owner \notin Service
  BY MulticastAssumption
<1>2. Letters(Owner, Owner) = {}
  BY <1>1 DEF Letters
<1>3. to[Owner][Owner] \in Seq({})
  BY <1>1, <1>2 DEF Shape, Typed
<1>4. DOMAIN to[Owner][Owner] = {}
  BY <1>3
<1>5. {k \in DOMAIN to[Owner][Owner] : to[Owner][Owner][k].cmd = "multicast"} = {}
  BY <1>4
<1> QED
  BY <1>4, <1>5, FS_EmptySet DEF Flying, OfOwner, In

LEMMA NodeOwnerPublish ==
  ASSUME Shape, GroupsOK, NEW n \in Node, NEW x \in Node \cup Service, PubHere(Owner, x), NodeOK(n)
  PROVE  NodeOK(n)'
<1>0. Owner \in Node
  BY MulticastAssumption
<1>1. PICK p \in Pub :
          /\ Delivered(Owner, p, x) /\ Reached(Says("multicast", p))
          /\ UpBut({}) \/ (x \in Node /\ UpBut({x}) /\ \E m : Takes(ToOwner(x), ToOwner(x)', m))
          /\ published' = IF channel[Owner] # None THEN published + 1 ELSE published
  BY <1>0, PubHereDoes
<1>2. UNCHANGED <<channel, remote, crossed>> /\ UpCalm(n)
  BY <1>1, UpIsCalm DEF PubHere
<1>3. NodeWith(ToOwner(n), OfOwner(n), channel[Owner] # None, channel[n],
               n \in Set(remote), crossed, handed, published, n)
  BY NodeIs
<1>4. CASE channel[Owner] = None
  BY <1>2, <1>4, ClosedIsOK
<1>5. CASE channel[Owner] # None
  <2>1. published' = published + 1 /\ published \in Int
    BY <1>1, <1>5 DEF Shape
  <2>2. /\ Weight(Says("multicast", p)) = 1 /\ Says("multicast", p) # Says("DELR", None)
        /\ \A s : Says("multicast", p) # Says("some", s) /\ Says("multicast", p) # Says("none", s)
    BY DEF Weight, Says
  <2> DEFINE l == Says("multicast", p)
  <2> HIDE DEF l
  <2>3. /\ In(OfOwner(n)', Says("DELR", None)) <=> In(OfOwner(n), Says("DELR", None))
        /\ \A s : /\ In(OfOwner(n)', Says("some", s)) <=> In(OfOwner(n), Says("some", s))
                  /\ In(OfOwner(n)', Says("none", s)) <=> In(OfOwner(n), Says("none", s))
    BY <1>1, <2>2 DEF Reached, Grown, In
  <2>4. ASSUME ~crossed \/ n = Owner, NEW s \in Set(channel[n])
        PROVE  handed'[s] = published' - Flying(OfOwner(n)')
    <3>1. handed[s] = published - Flying(OfOwner(n))
      BY <1>3, <1>5, <2>4 DEF NodeWith
    <3>2. s \in Here(n) /\ s \in Service /\ Set(channel[Owner]) \subseteq Here(Owner)
      BY <1>0, SetIs, HereIsFinite DEF GroupsOK
    <3>3. handed[s] \in Int /\ handed'[s] = IF s \in Set(channel[Owner]) THEN handed[s] + 1 ELSE handed[s]
      BY <1>1, <3>2 DEF Delivered, Shape
    <3>4. CASE n = Owner
      <4>1. n \notin Set(remote)
        BY <3>4 DEF Set, Shape
      <4>2. OfOwner(n)' = OfOwner(n)
        BY <1>1, <4>1 DEF Reached
      <4>3. Flying(OfOwner(n)) = 0
        BY <3>4, NothingToItself
      <4> QED
        BY <2>1, <2>4, <3>1, <3>3, <3>4, <4>2, <4>3
    <3>5. CASE n # Owner
      <4>1. s \notin Set(channel[Owner])
        BY <3>2, <3>5 DEF Here
      <4>2. channel[n] # None
        BY <2>4 DEF Set
      <4>3. n \in Set(remote)
        BY <1>3, <1>5, <2>4, <3>5, <4>2 DEF NodeWith
      <4>4. Grown(OfOwner(n), OfOwner(n)', Says("multicast", p))
        BY <1>1, <4>3 DEF Reached
      <4>5. Flying(OfOwner(n)') = Flying(OfOwner(n)) + 1 /\ Flying(OfOwner(n)) \in Nat
        BY <2>2, <4>4 DEF Grown
      <4> QED
        BY <2>1, <3>1, <3>3, <4>1, <4>5
    <3> QED
      BY <3>4, <3>5
  <2>5. NodeWith(ToOwner(n)', OfOwner(n)', channel[Owner] # None, channel[n],
                 n \in Set(remote), crossed, handed', published', n)
    BY <1>2, <1>3, <2>3, <2>4 DEF NodeWith, UpCalm
  <2> QED
    BY <1>2, <2>5, NodeIs
<1> QED
  BY <1>4, <1>5

LEMMA NodeStep ==
  ASSUME Shape, GroupsOK, AskedAll, NodeAll, Next
  PROVE  NodeAll'
<1> SUFFICES ASSUME NEW k \in Node PROVE NodeOK(k)'
  BY DEF NodeAll
<1>0. NodeOK(k) /\ GroupOK(k) /\ Owner \in Node
  BY MulticastAssumption DEF NodeAll, GroupsOK
<1>a. ASSUME UNCHANGED <<channel, published, handed>>, crossed => crossed',
             k \in Set(remote) => k \in Set(remote')
      PROVE  Unmoved(k)
  BY <1>a DEF Unmoved
<1>1. ASSUME NEW s \in Service, \/ Subscribe(s) \/ Unsubscribe(s) \/ Delete(s) \/ Publish(s)
                                \/ Exit(s) \/ Receive(s)
      PROVE  NodeOK(k)'
  <2>1. UNCHANGED daemonVars
    BY <1>1 DEF Subscribe, Unsubscribe, Delete, Publish, Exit, Receive
  <2>2. UpBut({}) /\ DownBut({})
    <3>1. CASE Subscribe(s) \/ Unsubscribe(s) \/ Delete(s)
      BY <3>1, LettersSaid, Telling DEF Subscribe, Unsubscribe, Delete
    <3>2. CASE Publish(s)
      <4>1. pubs' \in Pub
        BY <3>2, MulticastAssumption DEF Publish, Pub, Shape
      <4> QED
        BY <3>2, <4>1, LettersSaid, Telling DEF Publish
    <3>3. CASE Exit(s)
      BY <3>3, ExitDoes
    <3>4. CASE Receive(s)
      BY <3>4 DEF Receive, UpBut, DownBut, ToOwner, OfOwner
    <3> QED
      BY <1>1, <3>1, <3>2, <3>3, <3>4
  <2>3. UpCalm(k) /\ DownCalm(k) /\ Unmoved(k)
    BY <1>a, <2>1, <2>2, UpIsCalm, DownIsCalm DEF daemonVars
  <2> QED
    BY <1>0, <2>3, NodeKept
<1>2. ASSUME NEW n \in Node, NEW s \in Service, Sub(n, s) PROVE NodeOK(k)'
  <2>1. CASE k = n
    BY <1>0, <1>2, <2>1, NodeSub
  <2>2. CASE k # n
    <3>1. n = harbor[s] /\ UpBut({}) /\ DownBut({}) /\ s \in Here(n) /\ GroupOK(n)
          /\ UNCHANGED <<remote, crossed, published>>
      BY <1>2, SubDoes DEF Here, GroupsOK, Sub
    <3>2. UpCalm(k) /\ DownCalm(k)
      BY <3>1, UpIsCalm, DownIsCalm
    <3>3. CASE UNCHANGED <<channel, channel_n, handed>>
      <4>1. Unmoved(k)
        BY <1>a, <3>1, <3>3
      <4> QED
        BY <1>0, <3>2, <4>1, NodeKept
    <3>4. CASE channel[n] # None /\ Join(n, channel[n], s)
      <4>1. Join(n, Set(channel[n]), s)
        BY <3>1, <3>4, SetIs
      <4>2. /\ GroupBut({n})
            /\ \A t \in Service : t \in Set(channel[n]) \/ t # s => handed'[t] = handed[t]
        BY <3>1, <4>1, JoinDoes
      <4>3. Set(channel[k]) \subseteq Here(k) /\ s \notin Here(k) /\ Here(k) \subseteq Service
        BY <1>0, <2>2, <3>1, SetIs, HereIsFinite DEF Here
      <4>4. \A t \in Set(channel[k]) : handed'[t] = handed[t]
        BY <4>2, <4>3
      <4>5. channel'[Owner] # None => channel[Owner] # None
        BY <1>0, <3>4, <4>2 DEF GroupBut
      <4>6. Unmoved(k)
        BY <2>2, <3>1, <4>2, <4>4, <4>5 DEF Unmoved, GroupBut
      <4> QED
        BY <1>0, <3>2, <4>6, NodeKept
    <3> QED
      BY <1>2, <3>3, <3>4, SubDoes
  <2> QED
    BY <2>1, <2>2
<1>3. ASSUME NEW n \in Node, NEW s \in Service, SubCall(n, s) PROVE NodeOK(k)'
  <2>1. /\ UpBut({n}) /\ DownBut({}) /\ Grown(ToOwner(n), ToOwner(n)', Says("SUBR", s))
        /\ UNCHANGED <<channel, published, handed, crossed, remote>>
    BY <1>3, SubCallDoes DEF SubCall
  <2>2. Says("SUBR", s) # Says("USUBR", None)
    BY Distinct
  <2>3. UpCalm(k) /\ DownCalm(k) /\ Unmoved(k)
    BY <1>a, <2>1, <2>2, UpIsCalm, DownIsCalm
  <2> QED
    BY <1>0, <2>3, NodeKept
<1>4. ASSUME NEW n \in Node, SubR(n) PROVE NodeOK(k)'
  <2>1. CASE k = n
    BY <1>0, <1>4, <2>1, NodeSubR
  <2>2. CASE k # n
    <3>1. UpBut({n}) /\ DownBut({n}) /\ UNCHANGED <<channel, published, handed, crossed>>
      BY <1>4, SubRDoes DEF SubR
    <3>2. k \in Set(remote) => k \in Set(remote')
      <4>1. remote' = remote \/ remote' = Set(remote) \cup {n}
        BY <1>4 DEF SubR
      <4> DEFINE g == Set(remote) \cup {n}
      <4>2. g \subseteq Node
        BY DEF Set, Shape
      <4>3. Set(remote) \subseteq g
        OBVIOUS
      <4> HIDE DEF g
      <4>4. g # None
        BY <4>2, NotNone
      <4> QED
        BY <4>1, <4>3, <4>4 DEF Set, g
    <3>3. UpCalm(k) /\ DownCalm(k) /\ Unmoved(k)
      BY <1>a, <2>2, <3>1, <3>2, UpIsCalm, DownIsCalm
    <3> QED
      BY <1>0, <3>3, NodeKept
  <2> QED
    BY <2>1, <2>2
<1>5. ASSUME NEW n \in Node, SubAnswered(n) PROVE NodeOK(k)'
  <2>1. CASE k = n
    BY <1>0, <1>5, <2>1, NodeAnswered
  <2>2. CASE k # n
    <3>1. /\ n # Owner /\ UpBut({}) /\ DownBut({n}) /\ GroupOK(n)
          /\ UNCHANGED <<remote, crossed, published>>
      BY <1>5, SubAnsweredDoes DEF SubAnswered, GroupsOK
    <3>2. PICK s \in Here(n), c \in {"some", "none"} :
                   IF c = "none" THEN UNCHANGED <<channel, channel_n, handed>>
                                 ELSE Join(n, Set(channel[n]), s)
      BY <1>5, SubAnsweredDoes
    <3>3. UpCalm(k) /\ DownCalm(k)
      BY <2>2, <3>1, UpIsCalm, DownIsCalm
    <3>4. CASE c = "none"
      <4>1. Unmoved(k)
        BY <1>a, <3>1, <3>2, <3>4
      <4> QED
        BY <1>0, <3>3, <4>1, NodeKept
    <3>5. CASE c # "none"
      <4>1. Join(n, Set(channel[n]), s)
        BY <3>2, <3>5
      <4>2. /\ GroupBut({n})
            /\ \A t \in Service : t \in Set(channel[n]) \/ t # s => handed'[t] = handed[t]
        BY <3>1, <4>1, JoinDoes
      <4>3. Set(channel[k]) \subseteq Here(k) /\ s \notin Here(k) /\ Here(k) \subseteq Service
        BY <1>0, <2>2, SetIs, HereIsFinite DEF Here
      <4>4. \A t \in Set(channel[k]) : handed'[t] = handed[t]
        BY <4>2, <4>3
      <4>5. channel'[Owner] # None => channel[Owner] # None
        BY <1>0, <3>1, <4>2 DEF GroupBut
      <4>6. Unmoved(k)
        BY <2>2, <3>1, <4>2, <4>4, <4>5 DEF Unmoved, GroupBut
      <4> QED
        BY <1>0, <3>3, <4>6, NodeKept
    <3> QED
      BY <3>4, <3>5
  <2> QED
    BY <2>1, <2>2
<1>6. ASSUME NEW n \in Node, NEW s \in Service, Usub(n, s) PROVE NodeOK(k)'
  <2>1. CASE k = n
    BY <1>0, <1>6, <2>1, NodeUsub
  <2>2. CASE k # n
    <3>1. /\ DownBut({}) /\ (UpBut({n}) \/ UpBut({})) /\ GroupOK(n)
          /\ UNCHANGED <<remote, published, handed>> /\ (crossed => crossed')
      BY <1>6, UsubDoes DEF Usub, GroupsOK
    <3>2. UpCalm(k) /\ DownCalm(k)
      BY <2>2, <3>1, UpIsCalm, DownIsCalm
    <3>3. channel'[k] = channel[k] /\ (channel'[Owner] # None => channel[Owner] # None)
      <4>1. CASE s \in Set(channel[n])
        <5>1. Leave(n, s)
          BY <1>6, <4>1 DEF Usub
        <5>2. GroupBut({n}) /\ channel[n] # None
          BY <3>1, <4>1, <5>1, LeaveDoes
        <5> QED
          BY <1>0, <2>2, <5>2 DEF GroupBut
      <4>2. CASE s \notin Set(channel[n])
        BY <1>6, <4>2 DEF Usub
      <4> QED
        BY <4>1, <4>2
    <3>4. Unmoved(k)
      BY <3>1, <3>3 DEF Unmoved
    <3> QED
      BY <1>0, <3>2, <3>4, NodeKept
  <2> QED
    BY <2>1, <2>2
<1>7. ASSUME NEW n \in Node, UsubR(n) PROVE NodeOK(k)'
  <2>1. CASE k = n
    BY <1>0, <1>7, <2>1, NodeUsubR
  <2>2. CASE k # n
    <3>1. UpBut({n}) /\ DownBut({}) /\ UNCHANGED <<channel, published, handed, crossed>>
      BY <1>7, UsubRDoes DEF UsubR
    <3>2. k \in Set(remote) => k \in Set(remote')
      <4>1. remote' = IF remote = None THEN None ELSE remote \ {n}
        BY <1>7 DEF UsubR
      <4> DEFINE g == remote \ {n}
      <4>2. remote # None => g \subseteq Node
        BY DEF Shape
      <4> HIDE DEF g
      <4>3. remote # None => g # None
        BY <4>2, NotNone
      <4> QED
        BY <2>2, <4>1, <4>3 DEF Set, g
    <3>3. UpCalm(k) /\ DownCalm(k) /\ Unmoved(k)
      BY <1>a, <2>2, <3>1, <3>2, UpIsCalm, DownIsCalm
    <3> QED
      BY <1>0, <3>3, NodeKept
  <2> QED
    BY <2>1, <2>2
<1>8. ASSUME NEW n \in Node, NEW x \in Node \cup Service, Del(n, x) PROVE NodeOK(k)'
  <2>1. CASE channel' = Gone(Owner)
    <3>1. channel'[Owner] = None
      BY <1>0, <2>1 DEF Gone, Shape
    <3> QED
      BY <3>1, ClosedIsOK
  <2>2. CASE /\ Grown(ToOwner(n), ToOwner(n)', Says("DEL", None)) /\ UpBut({n}) /\ DownBut({})
             /\ UNCHANGED <<channel, channel_n, remote>>
    <3>1. Says("DEL", None) # Says("USUBR", None)
      BY DEF Says
    <3>2. UNCHANGED <<published, handed, crossed>>
      BY <1>8 DEF Del
    <3>3. UpCalm(k) /\ DownCalm(k) /\ Unmoved(k)
      BY <1>a, <2>2, <3>1, <3>2, UpIsCalm, DownIsCalm
    <3> QED
      BY <1>0, <3>3, NodeKept
  <2> QED
    BY <1>8, <2>1, <2>2, DelDoes
<1>9. ASSUME NEW n \in Node, DelR(n) PROVE NodeOK(k)'
  <2>1. n # Owner /\ Takes(OfOwner(n), OfOwner(n)', Says("DELR", None)) /\ channel' = Gone(n)
    BY <1>9, DelRDoes DEF DelR
  <2>2. channel[Owner] = None
    BY <2>1 DEF NodeAll, NodeOK, EndOK, Takes
  <2>3. channel'[Owner] = None
    BY <1>0, <2>1, <2>2 DEF Gone, Shape
  <2> QED
    BY <2>3, ClosedIsOK
<1>10. ASSUME NEW n \in Node, NEW x \in Node \cup Service, PubHere(n, x) PROVE NodeOK(k)'
  <2>1. CASE n = Owner
    BY <1>0, <1>10, <2>1, NodeOwnerPublish
  <2>2. CASE n # Owner /\ k = n
    BY <1>0, <1>10, <2>2, NodePublish
  <2>3. CASE n # Owner /\ k # n
    <3>1. PICK p \in Pub : Delivered(n, p, x)
      BY <1>10, PubHereDoes
    <3>2. UpBut({}) /\ DownBut({n}) /\ UNCHANGED <<published, channel, remote, crossed>>
      BY <1>10, <2>3, PubHereDoes DEF PubHere
    <3>3. UpCalm(k) /\ DownCalm(k)
      BY <2>3, <3>2, UpIsCalm, DownIsCalm
    <3>4. \A t \in Set(channel[k]) : t \in Service /\ t \notin Set(channel[n])
      <4>1. GroupOK(n)
        BY DEF GroupsOK
      <4> QED
        BY <1>0, <2>3, <4>1, SetIs DEF Here
    <3>5. \A t \in Set(channel[k]) : handed'[t] = handed[t]
      BY <3>1, <3>4 DEF Delivered
    <3>6. Unmoved(k)
      BY <3>2, <3>5 DEF Unmoved
    <3> QED
      BY <1>0, <3>3, <3>6, NodeKept
  <2> QED
    BY <2>1, <2>2, <2>3
<1>11. ASSUME NEW n \in Node, NEW s \in Service, PubRemote(n, s) PROVE NodeOK(k)'
  <2>1. PICK p \in Pub : Grown(ToOwner(n), ToOwner(n)', Says("multicast", p))
    BY <1>11, PubRemoteDoes
  <2>2. UpBut({n}) /\ DownBut({}) /\ UNCHANGED <<channel, published, handed, crossed, remote>>
    BY <1>11, PubRemoteDoes DEF PubRemote, daemonVars
  <2>3. Says("multicast", p) # Says("USUBR", None)
    BY DEF Says
  <2>4. UpCalm(k) /\ DownCalm(k) /\ Unmoved(k)
    BY <1>a, <2>1, <2>2, <2>3, UpIsCalm, DownIsCalm
  <2> QED
    BY <1>0, <2>4, NodeKept
<1>h. ASSUME NEW s \in Service, NEW p \in Pub, Handled(s, p) PROVE NodeOK(k)'
  <2>1. /\ UNCHANGED <<channel, channel_n, remote, calling, published, handed, crossed>>
        /\ UpBut({}) /\ DownBut({})
    BY <1>h, HandledDoes
  <2>2. UpCalm(k) /\ DownCalm(k) /\ Unmoved(k)
    BY <1>a, <2>1, UpIsCalm, DownIsCalm
  <2> QED
    BY <1>0, <2>1, <2>2, NodeKept
<1> QED
  BY <1>h, <1>1, <1>2, <1>3, <1>4, <1>5, <1>6, <1>7, <1>8, <1>9, <1>10, <1>11 DEF Next
-----------------------------------------------------------------------------
(* The packages                                                            *)

Sent(p)  == Says("PUB", p)
Spent(p) == Says("multicast", p)

LEMMA UsesIs ==
  ASSUME NEW s, NEW p
  PROVE  /\ Uses(s, p) <=> In(inbox[s], Spent(p)) \/ p \in handling[s] \/ p \in lost[s]
         /\ Uses(s, p)' <=> In(inbox'[s], Spent(p)) \/ p \in handling'[s] \/ p \in lost'[s]
         /\ UseOnce(s, p) <=> /\ Once(inbox[s], Spent(p))
                              /\ In(inbox[s], Spent(p)) => p \notin handling[s] /\ p \notin lost[s]
                              /\ ~(p \in handling[s] /\ p \in lost[s])
         /\ UseOnce(s, p)' <=> /\ Once(inbox'[s], Spent(p))
                               /\ In(inbox'[s], Spent(p)) => p \notin handling'[s] /\ p \notin lost'[s]
                               /\ ~(p \in handling'[s] /\ p \in lost'[s])
<1>1. Says("multicast", p) = Spent(p)
  BY DEF Spent
<1>2. Uses(s, p) <=> In(inbox[s], Spent(p)) \/ p \in handling[s] \/ p \in lost[s]
  BY <1>1 DEF Uses
<1>3. UseOnce(s, p) <=> /\ Once(inbox[s], Spent(p))
                        /\ In(inbox[s], Spent(p)) => p \notin handling[s] /\ p \notin lost[s]
                        /\ ~(p \in handling[s] /\ p \in lost[s])
  BY <1>1 DEF UseOnce
<1>4. Uses(s, p)' <=> In(inbox'[s], Spent(p)) \/ p \in handling'[s] \/ p \in lost'[s]
  BY DEF Uses, In, Spent, Says
<1>5. /\ In(inbox[s], Says("multicast", p))' <=> In(inbox'[s], Spent(p))
      /\ Once(inbox[s], Says("multicast", p))' <=> Once(inbox'[s], Spent(p))
  BY DEF In, Once, Spent, Says
<1>6. UseOnce(s, p)' <=> /\ Once(inbox'[s], Spent(p))
                         /\ In(inbox'[s], Spent(p)) => p \notin handling'[s] /\ p \notin lost'[s]
                         /\ ~(p \in handling'[s] /\ p \in lost'[s])
  BY <1>5 DEF UseOnce
<1> QED
  BY <1>2, <1>3, <1>4, <1>6

LEMMA UnboundIs ==
  ASSUME NEW n \in Node, NEW p
  PROVE  /\ Unbound(n, p) <=> reference[n][p] = 0 /\ \A s \in Here(n) : ~Uses(s, p)
         /\ Unbound(n, p)' <=> reference'[n][p] = 0 /\ \A s \in Here(n) : ~Uses(s, p)'
<1>1. Unbound(n, p) <=> reference[n][p] = 0 /\ \A s \in Here(n) : ~Uses(s, p)
  BY DEF Unbound, Holding
<1>2. Unbound(n, p)' <=> reference'[n][p] = 0 /\ \A s \in Here(n) : ~Uses(s, p)'
  BY DEF Unbound, Holding, Here
<1> QED
  BY <1>1, <1>2

(* PackageOK of the next state, from what its queues hold                  *)
LEMMA PackageNext ==
  ASSUME NEW p \in Pub,
         \A s \in Service : Once(Told(s)', Sent(p)) /\ UseOnce(s, p)',
         \A n \in Node : Once(ToOwner(n)', Spent(p)) /\ Once(OfOwner(n)', Spent(p)),
         \A s, t \in Service : In(Told(s)', Sent(p)) /\ In(Told(t)', Sent(p)) => s = t,
         \A m, n \in Node : In(ToOwner(m)', Spent(p)) /\ In(ToOwner(n)', Spent(p)) => m = n,
         \A s \in Service, n \in Node : ~(In(Told(s)', Sent(p)) /\ In(ToOwner(n)', Spent(p))),
         (\E s \in Service : In(Told(s)', Sent(p))) \/ (\E n \in Node : In(ToOwner(n)', Spent(p)))
             \/ p > pubs' => \A n \in Node : Unbound(n, p)' /\ ~In(OfOwner(n)', Spent(p)),
         p > pubs' => (\A s \in Service : ~In(Told(s)', Sent(p)))
                      /\ (\A n \in Node : ~In(ToOwner(n)', Spent(p))),
         \A n \in Node : In(OfOwner(n)', Spent(p)) => Unbound(n, p)'
  PROVE  PackageOK(p)'
<1>1. \A s \in Service : Once(Told(s), Says("PUB", p))'
  BY DEF Once, Says, Sent, Spent
<1>2. \A n \in Node : Once(ToOwner(n), Says("multicast", p))' /\ Once(OfOwner(n), Says("multicast", p))'
  BY DEF Once, Says, Spent
<1>3. \A s \in Service : Written(s, p)' <=> In(Told(s)', Sent(p))
  BY DEF Written, In, Says, Sent
<1>4. \A n \in Node : /\ Passed(n, p)' <=> In(ToOwner(n)', Spent(p))
                      /\ Spread(n, p)' <=> In(OfOwner(n)', Spent(p))
  BY DEF Passed, Spread, In, Says, Spent
<1> QED
  BY <1>1, <1>2, <1>3, <1>4 DEF PackageOK

LEMMA PackageNow ==
  ASSUME NEW p \in Pub, PackageOK(p)
  PROVE  /\ \A s \in Service : Once(Told(s), Sent(p)) /\ UseOnce(s, p)
         /\ \A n \in Node : Once(ToOwner(n), Spent(p)) /\ Once(OfOwner(n), Spent(p))
         /\ \A s, t \in Service : In(Told(s), Sent(p)) /\ In(Told(t), Sent(p)) => s = t
         /\ \A m, n \in Node : In(ToOwner(m), Spent(p)) /\ In(ToOwner(n), Spent(p)) => m = n
         /\ \A s \in Service, n \in Node : ~(In(Told(s), Sent(p)) /\ In(ToOwner(n), Spent(p)))
         /\ (\E s \in Service : In(Told(s), Sent(p))) \/ (\E n \in Node : In(ToOwner(n), Spent(p)))
                \/ p > pubs => \A n \in Node : Unbound(n, p) /\ ~In(OfOwner(n), Spent(p))
         /\ p > pubs => (\A s \in Service : ~In(Told(s), Sent(p)))
                        /\ (\A n \in Node : ~In(ToOwner(n), Spent(p)))
         /\ \A n \in Node : In(OfOwner(n), Spent(p)) => Unbound(n, p)
  BY DEF PackageOK, Written, Passed, Spread, Sent, Spent

(* A step that takes messages of p, or uses of its package, away at most   *)
UseCalm(s, p) == (Uses(s, p)' => Uses(s, p)) /\ (UseOnce(s, p) => UseOnce(s, p)')

PackageCalm(p) ==
    /\ \A s \in Service : Calm(Told(s), Told(s)', Sent(p)) /\ UseCalm(s, p)
    /\ \A n \in Node : /\ Calm(ToOwner(n), ToOwner(n)', Spent(p))
                       /\ Calm(OfOwner(n), OfOwner(n)', Spent(p))
    /\ p > pubs' => p > pubs
    /\ \A n \in Node : Unbound(n, p) => reference'[n][p] = reference[n][p]

LEMMA PackageKept ==
  ASSUME NEW p \in Pub, PackageOK(p), PackageCalm(p)
  PROVE  PackageOK(p)'
<1>1. \A n \in Node : Unbound(n, p) => Unbound(n, p)'
  BY UnboundIs DEF PackageCalm, UseCalm, Here
<1>2. /\ \A s \in Service : /\ In(Told(s)', Sent(p)) => In(Told(s), Sent(p))
                            /\ Once(Told(s), Sent(p)) => Once(Told(s)', Sent(p))
                            /\ UseOnce(s, p) => UseOnce(s, p)'
      /\ \A n \in Node : /\ In(ToOwner(n)', Spent(p)) => In(ToOwner(n), Spent(p))
                         /\ Once(ToOwner(n), Spent(p)) => Once(ToOwner(n)', Spent(p))
                         /\ In(OfOwner(n)', Spent(p)) => In(OfOwner(n), Spent(p))
                         /\ Once(OfOwner(n), Spent(p)) => Once(OfOwner(n)', Spent(p))
      /\ p > pubs' => p > pubs
  BY DEF PackageCalm, Calm, UseCalm
<1>3. /\ \A s \in Service : Once(Told(s)', Sent(p)) /\ UseOnce(s, p)'
      /\ \A n \in Node : Once(ToOwner(n)', Spent(p)) /\ Once(OfOwner(n)', Spent(p))
  BY <1>2, PackageNow
<1>4. /\ \A s, t \in Service : In(Told(s)', Sent(p)) /\ In(Told(t)', Sent(p)) => s = t
      /\ \A m, n \in Node : In(ToOwner(m)', Spent(p)) /\ In(ToOwner(n)', Spent(p)) => m = n
      /\ \A s \in Service, n \in Node : ~(In(Told(s)', Sent(p)) /\ In(ToOwner(n)', Spent(p)))
  BY <1>2, PackageNow
<1>5. (\E s \in Service : In(Told(s)', Sent(p))) \/ (\E n \in Node : In(ToOwner(n)', Spent(p)))
             \/ p > pubs' => \A n \in Node : Unbound(n, p)' /\ ~In(OfOwner(n)', Spent(p))
  BY <1>1, <1>2, PackageNow
<1>6. /\ p > pubs' => (\A s \in Service : ~In(Told(s)', Sent(p)))
                      /\ (\A n \in Node : ~In(ToOwner(n)', Spent(p)))
      /\ \A n \in Node : In(OfOwner(n)', Spent(p)) => Unbound(n, p)'
  BY <1>1, <1>2, PackageNow
<1> QED
  BY <1>3, <1>4, <1>5, <1>6, PackageNext

LEMMA CalmIs ==
  ASSUME NEW q, NEW r, NEW m, \/ r = q
                              \/ \E l : Takes(q, r, l)
                              \/ \E l : Grown(q, r, l) /\ l # m
  PROVE  Calm(q, r, m)
  BY DEF Calm, Takes, Grown, Shrunk

(* The queues of a kind, of which one has changed                          *)
TellsCalm(p) == \A s \in Service : Calm(Told(s), Told(s)', Sent(p))
UpsCalm(p)    == \A n \in Node : Calm(ToOwner(n), ToOwner(n)', Spent(p))
DownsCalm(p)  == \A n \in Node : Calm(OfOwner(n), OfOwner(n)', Spent(p))
BoxesCalm(p)  == \A s \in Service : Calm(inbox[s], inbox'[s], Spent(p))
HandsSame(p)  == \A s \in Service : /\ p \in handling'[s] <=> p \in handling[s]
                                    /\ p \in lost'[s] <=> p \in lost[s]
UsesCalm(p)   == \A s \in Service : UseCalm(s, p)

LEMMA TellingIsCalm ==
  ASSUME NEW p, NEW s,
         \/ ToldBut({s}) /\ \E l : Takes(Told(s), Told(s)', l)
         \/ ToldBut({s}) /\ \E l : Grown(Told(s), Told(s)', l) /\ l # Sent(p)
         \/ ToldBut({})
  PROVE  TellsCalm(p)
<1> SUFFICES ASSUME NEW t \in Service PROVE Calm(Told(t), Told(t)', Sent(p))
  BY DEF TellsCalm
<1>1. \/ Told(t)' = Told(t)
      \/ \E l : Takes(Told(t), Told(t)', l)
      \/ \E l : Grown(Told(t), Told(t)', l) /\ l # Sent(p)
  BY DEF ToldBut
<1> QED
  BY <1>1, CalmIs

LEMMA PassingIsCalm ==
  ASSUME NEW p, NEW n,
         \/ UpBut({n}) /\ \E l : Takes(ToOwner(n), ToOwner(n)', l)
         \/ UpBut({n}) /\ \E l : Grown(ToOwner(n), ToOwner(n)', l) /\ l # Spent(p)
         \/ UpBut({})
  PROVE  UpsCalm(p)
<1> SUFFICES ASSUME NEW k \in Node PROVE Calm(ToOwner(k), ToOwner(k)', Spent(p))
  BY DEF UpsCalm
<1>1. \/ ToOwner(k)' = ToOwner(k)
      \/ \E l : Takes(ToOwner(k), ToOwner(k)', l)
      \/ \E l : Grown(ToOwner(k), ToOwner(k)', l) /\ l # Spent(p)
  BY DEF UpBut
<1> QED
  BY <1>1, CalmIs

LEMMA SpreadingIsCalm ==
  ASSUME NEW p, NEW n,
         \/ DownBut({n}) /\ \E l : Takes(OfOwner(n), OfOwner(n)', l)
         \/ DownBut({n}) /\ \E l : Grown(OfOwner(n), OfOwner(n)', l) /\ l # Spent(p)
         \/ DownBut({})
         \/ \E l : Reached(l) /\ l # Spent(p)
  PROVE  DownsCalm(p)
<1> SUFFICES ASSUME NEW k \in Node PROVE Calm(OfOwner(k), OfOwner(k)', Spent(p))
  BY DEF DownsCalm
<1>1. \/ OfOwner(k)' = OfOwner(k)
      \/ \E l : Takes(OfOwner(k), OfOwner(k)', l)
      \/ \E l : Grown(OfOwner(k), OfOwner(k)', l) /\ l # Spent(p)
  BY DEF DownBut, Reached
<1> QED
  BY <1>1, CalmIs

LEMMA AnsweringIsCalm ==
  ASSUME NEW p, NEW s,
         \/ InboxBut({s}) /\ \E l : Takes(inbox[s], inbox'[s], l)
         \/ InboxBut({s}) /\ \E l : Got(s, l) /\ l # Spent(p)
         \/ UNCHANGED inbox
  PROVE  BoxesCalm(p)
<1> SUFFICES ASSUME NEW t \in Service PROVE Calm(inbox[t], inbox'[t], Spent(p))
  BY DEF BoxesCalm
<1>1. \/ inbox'[t] = inbox[t]
      \/ \E l : Takes(inbox[t], inbox'[t], l)
      \/ \E l : Grown(inbox[t], inbox'[t], l) /\ l # Spent(p)
  BY DEF InboxBut, Got
<1> QED
  BY <1>1, CalmIs

LEMMA GettingIsCalm ==
  ASSUME NEW p, NEW s, NEW l, l # Spent(p), InboxBut({s}), Got(s, l)
  PROVE  BoxesCalm(p)
  BY AnsweringIsCalm

LEMMA BoxesUse ==
  ASSUME NEW p, BoxesCalm(p), (UNCHANGED handling /\ UNCHANGED lost) \/ HandsSame(p)
  PROVE  UsesCalm(p)
<1> SUFFICES ASSUME NEW s \in Service PROVE UseCalm(s, p)
  BY DEF UsesCalm
<1>1. Calm(inbox[s], inbox'[s], Spent(p))
  BY DEF BoxesCalm
<1>2. (p \in handling'[s] <=> p \in handling[s]) /\ (p \in lost'[s] <=> p \in lost[s])
  BY DEF HandsSame
<1> QED
  BY <1>1, <1>2, UsesIs DEF UseCalm, Calm

LEMMA PackageUsed ==
  ASSUME NEW p \in Pub, PackageOK(p), TellsCalm(p), UpsCalm(p), DownsCalm(p), UsesCalm(p),
         p > pubs' => p > pubs, \A n \in Node : Unbound(n, p) => reference'[n][p] = reference[n][p]
  PROVE  PackageOK(p)'
<1>1. PackageCalm(p)
  BY DEF PackageCalm, TellsCalm, UpsCalm, DownsCalm, UsesCalm
<1> QED
  BY <1>1, PackageKept

LEMMA PackageQuiet ==
  ASSUME NEW p \in Pub, PackageOK(p), TellsCalm(p), UpsCalm(p), DownsCalm(p), BoxesCalm(p),
         (UNCHANGED handling /\ UNCHANGED lost) \/ HandsSame(p),
         p > pubs' => p > pubs, \A n \in Node : Unbound(n, p) => reference'[n][p] = reference[n][p]
  PROVE  PackageOK(p)'
  BY BoxesUse, PackageUsed

(* Messages that bring no publication                                      *)
LEMMA OtherSays ==
  ASSUME NEW p
  PROVE  /\ \A s : Says("SUB", s) # Sent(p) /\ Says("USUB", s) # Sent(p)
         /\ Says("DEL", None) # Sent(p)
         /\ \A s : /\ Says("SUBR", s) # Spent(p) /\ Says("USUBR", s) # Spent(p)
                   /\ Says("some", s) # Spent(p) /\ Says("none", s) # Spent(p)
                   /\ Says("SUB", s) # Spent(p) /\ Says("PUB", s) # Spent(p)
         /\ Says("DEL", None) # Spent(p) /\ Says("DELR", None) # Spent(p)
         /\ \A q : q # p => Sent(q) # Sent(p) /\ Spent(q) # Spent(p)
  BY DEF Says, Sent, Spent

LEMMA PackageTold ==
  ASSUME Shape, NEW p \in Pub, PackageOK(p), NEW s \in Service,
         Subscribe(s) \/ Unsubscribe(s) \/ Delete(s) \/ (Publish(s) /\ p # pubs')
  PROVE  PackageOK(p)'
<1>1. PICK l \in FromService(s) : l # Sent(p) /\ to' = Queued(to, s, harbor[s], l)
  <2>1. CASE Subscribe(s) \/ Unsubscribe(s) \/ Delete(s)
    BY <2>1, LettersSaid, OtherSays DEF Subscribe, Unsubscribe, Delete
  <2>2. CASE Publish(s) /\ p # pubs'
    <3>1. pubs' \in Pub
      BY <2>2, MulticastAssumption DEF Publish, Pub, Shape
    <3>2. to' = Queued(to, s, harbor[s], Says("PUB", pubs'))
      BY <2>2 DEF Publish
    <3>3. PICK q \in Pub : q = pubs'
      BY <3>1
    <3>4. Says("PUB", q) \in FromService(s) /\ Says("PUB", q) # Sent(p)
      BY <2>2, <3>3, LettersSaid, OtherSays DEF Sent
    <3> QED
      BY <3>2, <3>3, <3>4
  <2> QED
    BY <2>1, <2>2
<1>2. Grown(Told(s), Told(s)', l) /\ ToldBut({s}) /\ UpBut({}) /\ DownBut({})
  BY <1>1, Telling
<1>3. UNCHANGED <<inbox, reference, handling, lost>> /\ (p > pubs' => p > pubs)
  BY DEF Subscribe, Unsubscribe, Delete, Publish, Shape, Pub
<1>4. TellsCalm(p)
  BY <1>1, <1>2, TellingIsCalm
<1>5. UpsCalm(p) /\ DownsCalm(p)
  BY <1>2, PassingIsCalm, SpreadingIsCalm
<1>6. BoxesCalm(p)
  BY <1>3, AnsweringIsCalm
<1> QED
  BY <1>3, <1>4, <1>5, <1>6, PackageQuiet

(* A new publication: nobody has heard of it.                              *)
LEMMA PackageNew ==
  ASSUME Shape, NEW p \in Pub, PackageOK(p), NEW s \in Service, Publish(s), p = pubs'
  PROVE  PackageOK(p)'
<1>1. /\ to' = Queued(to, s, harbor[s], Says("PUB", p)) /\ UNCHANGED <<inbox, reference, handling, lost>>
      /\ p > pubs /\ ~(p > pubs')
  BY DEF Publish, Shape, Pub
<1>2. Grown(Told(s), Told(s)', Sent(p)) /\ ToldBut({s}) /\ UpBut({}) /\ DownBut({})
  BY <1>1, LettersSaid, Telling DEF Sent
<1>3. /\ \A t \in Service : ~In(Told(t), Sent(p))
      /\ \A n \in Node : Unbound(n, p) /\ ~In(ToOwner(n), Spent(p)) /\ ~In(OfOwner(n), Spent(p))
  BY <1>1, PackageNow
<1>4. /\ \A t \in Service : Once(Told(t), Sent(p)) /\ UseOnce(t, p)
      /\ \A n \in Node : Once(ToOwner(n), Spent(p)) /\ Once(OfOwner(n), Spent(p))
  BY PackageNow
<1>5. \A n \in Node : ToOwner(n)' = ToOwner(n) /\ OfOwner(n)' = OfOwner(n)
  BY <1>2 DEF UpBut, DownBut
<1>6. /\ \A n \in Node : Unbound(n, p)'
      /\ \A t \in Service : UseOnce(t, p)'
  <2>1. \A t \in Service : (Uses(t, p)' <=> Uses(t, p)) /\ (UseOnce(t, p)' <=> UseOnce(t, p))
    BY <1>1, UsesIs
  <2> QED
    BY <1>1, <1>3, <1>4, <2>1, UnboundIs, HereIsFinite
<1>7. /\ Once(Told(s)', Sent(p))
      /\ \A t \in Service : t # s => Told(t)' = Told(t)
  BY <1>2, <1>3, <1>4 DEF Grown, ToldBut
<1> QED
  BY <1>1, <1>3, <1>4, <1>5, <1>6, <1>7, PackageNext

(* A service that takes a message, ends or has handled one has as many     *)
(* uses of p as before, or one less, and then gives its reference back.    *)
UseEnds(s, p) ==
    /\ \A t \in Service \ {s} : /\ Uses(t, p)' <=> Uses(t, p)
                                /\ UseOnce(t, p)' <=> UseOnce(t, p)
    /\ UseOnce(s, p) => UseOnce(s, p)'
    /\ \/ (Uses(s, p)' <=> Uses(s, p)) /\ \A n \in Node : reference'[n][p] = reference[n][p]
       \/ /\ Uses(s, p) /\ ~Uses(s, p)'
          /\ reference' = [reference EXCEPT ![harbor[s]][p] = @ - 1]

LEMMA OthersUse ==
  ASSUME NEW p, NEW s \in Service,
         \A t \in Service \ {s} : /\ inbox'[t] = inbox[t]
                                  /\ handling'[t] = handling[t] /\ lost'[t] = lost[t]
  PROVE  \A t \in Service \ {s} : /\ Uses(t, p)' <=> Uses(t, p)
                                  /\ UseOnce(t, p)' <=> UseOnce(t, p)
  BY UsesIs

LEMMA ExitEnds ==
  ASSUME Shape, NEW p \in Pub, NEW s \in Service, Exit(s)
  PROVE  UseEnds(s, p)
<1>1. /\ inbox \in [Service -> Seq(Answers)] /\ handling \in [Service -> SUBSET Pub]
      /\ lost \in [Service -> SUBSET Pub]
  BY DEF Shape
<1>2. /\ inbox'[s] = <<>> /\ handling'[s] = {}
      /\ lost'[s] = lost[s] \cup handling[s] \cup Brought(inbox[s])
      /\ UNCHANGED reference
      /\ \A t \in Service \ {s} : /\ inbox'[t] = inbox[t]
                                  /\ handling'[t] = handling[t] /\ lost'[t] = lost[t]
  BY <1>1 DEF Exit
<1>3. ~In(inbox'[s], Spent(p)) /\ Once(inbox'[s], Spent(p))
  BY <1>2 DEF In, Once
<1>4. p \in Brought(inbox[s]) <=> In(inbox[s], Spent(p))
  BY <1>1, BroughtIs DEF Spent
<1>5. UseOnce(s, p)' /\ (Uses(s, p)' <=> Uses(s, p))
  BY <1>2, <1>3, <1>4, UsesIs
<1> QED
  BY <1>2, <1>5, OthersUse DEF UseEnds

LEMMA HandledEnds ==
  ASSUME Shape, NEW p \in Pub, NEW s \in Service, UseOnce(s, p), NEW q \in Pub, Handled(s, q)
  PROVE  UseEnds(s, p)
<1>1. /\ UNCHANGED <<inbox, lost>>
      /\ q \in handling[s] /\ handling' = [handling EXCEPT ![s] = @ \ {q}]
      /\ reference' = [reference EXCEPT ![harbor[s]][q] = @ - 1]
  BY HandledDoes
<1>2. /\ inbox'[s] = inbox[s] /\ lost'[s] = lost[s] /\ handling'[s] = handling[s] \ {q}
      /\ \A t \in Service \ {s} : /\ inbox'[t] = inbox[t]
                                  /\ handling'[t] = handling[t] /\ lost'[t] = lost[t]
  BY <1>1 DEF Shape
<1>3. UseOnce(s, p)'
  BY <1>2, UsesIs
<1>4. CASE q = p
  <2>1. Uses(s, p) /\ ~Uses(s, p)'
    BY <1>1, <1>2, <1>4, UsesIs
  <2> QED
    BY <1>1, <1>2, <1>3, <1>4, <2>1, OthersUse DEF UseEnds
<1>5. CASE q # p
  <2>1. Uses(s, p)' <=> Uses(s, p)
    BY <1>2, <1>5, UsesIs
  <2>2. \A n \in Node : reference'[n][p] = reference[n][p]
    BY <1>1, <1>5 DEF Shape
  <2> QED
    BY <1>2, <1>3, <2>1, <2>2, OthersUse DEF UseEnds
<1> QED
  BY <1>4, <1>5

LEMMA ReceiveEnds ==
  ASSUME Shape, NEW p \in Pub, NEW s \in Service, UseOnce(s, p), Receive(s)
  PROVE  UseEnds(s, p)
<1>1. PICK m \in Answers :
               /\ Shrunk(inbox[s], inbox'[s], m) /\ In(inbox[s], m)
               /\ \/ \E q \in Pub : m = Says("multicast", q) /\ Received(s, q)
                  \/ (\E c \in {"SUB", "PUB"} : m = Says(c, None))
                        /\ UNCHANGED <<reference, handling, lost>>
  BY ReceiveDoes
<1>2. \A y : /\ In(inbox[s], y) <=> In(inbox'[s], y) \/ y = m
             /\ Once(inbox[s], y) => Once(inbox'[s], y) /\ (y = m => ~In(inbox'[s], y))
  BY <1>1 DEF Shrunk
<1>3. \A t \in Service \ {s} : inbox'[t] = inbox[t]
  BY ReceiveDoes DEF InboxBut
<1>4. /\ Once(inbox[s], Spent(p))
      /\ In(inbox[s], Spent(p)) => p \notin handling[s] /\ p \notin lost[s]
      /\ ~(p \in handling[s] /\ p \in lost[s])
  BY UsesIs
<1>5. /\ handling \in [Service -> SUBSET Pub] /\ lost \in [Service -> SUBSET Pub]
      /\ reference \in [Node -> [Pub -> Int]]
  BY DEF Shape
<1>6. CASE (\E c \in {"SUB", "PUB"} : m = Says(c, None)) /\ UNCHANGED <<reference, handling, lost>>
  <2>1. m # Spent(p)
    BY <1>6, OtherSays
  <2>2. UseOnce(s, p)' /\ (Uses(s, p)' <=> Uses(s, p))
    BY <1>2, <1>4, <1>6, <2>1, UsesIs
  <2> QED
    BY <1>3, <1>6, <2>2, OthersUse DEF UseEnds
<1>7. ASSUME NEW q \in Pub, m = Spent(q), Received(s, q) PROVE UseEnds(s, p)
  <2>1. q # p => m # Spent(p)
    BY <1>7, OtherSays
  <2>2. CASE reference' = [reference EXCEPT ![harbor[s]][q] = @ - 1] /\ UNCHANGED <<handling, lost>>
    <3>1. UseOnce(s, p)'
      BY <1>2, <1>4, <2>2, UsesIs
    <3>2. CASE q = p
      <4>1. Uses(s, p) /\ ~Uses(s, p)'
        BY <1>1, <1>2, <1>4, <1>7, <2>2, <3>2, UsesIs
      <4> QED
        BY <1>3, <2>2, <3>1, <3>2, <4>1, OthersUse DEF UseEnds
    <3>3. CASE q # p
      <4>1. Uses(s, p)' <=> Uses(s, p)
        BY <1>2, <2>1, <2>2, <3>3, UsesIs
      <4>2. \A n \in Node : reference'[n][p] = reference[n][p]
        BY <1>5, <2>2, <3>3
      <4> QED
        BY <1>3, <2>2, <3>1, <4>1, <4>2, OthersUse DEF UseEnds
    <3> QED
      BY <3>2, <3>3
  <2>3. CASE /\ UNCHANGED reference
             /\ \A t \in Service \ {s} : handling'[t] = handling[t] /\ lost'[t] = lost[t]
             /\ \/ handling'[s] = handling[s] \cup {q} /\ lost'[s] = lost[s]
                \/ lost'[s] = lost[s] \cup {q} /\ handling'[s] = handling[s]
    <3>1. UseOnce(s, p)' /\ (Uses(s, p)' <=> Uses(s, p))
      <4>1. CASE q = p
        BY <1>1, <1>2, <1>4, <1>7, <2>3, <4>1, UsesIs
      <4>2. CASE q # p
        BY <1>2, <1>4, <2>1, <2>3, <4>2, UsesIs
      <4> QED
        BY <4>1, <4>2
    <3> QED
      BY <1>3, <2>3, <3>1, OthersUse DEF UseEnds
  <2> QED
    BY <1>5, <1>7, <2>2, <2>3, ReceivedDoes
<1> QED
  BY <1>1, <1>6, <1>7 DEF Spent

LEMMA PackageEnds ==
  ASSUME Shape, NEW p \in Pub, PackageOK(p), NEW s \in Service, UseEnds(s, p),
         TellsCalm(p), UpsCalm(p), DownsCalm(p), UNCHANGED pubs
  PROVE  PackageOK(p)'
<1>1. UsesCalm(p)
  <2> SUFFICES ASSUME NEW t \in Service PROVE UseCalm(t, p)
    BY DEF UsesCalm
  <2> QED
    BY DEF UseCalm, UseEnds
<1>2. ASSUME NEW n \in Node, Unbound(n, p) PROVE reference'[n][p] = reference[n][p]
  <2>1. CASE \A k \in Node : reference'[k][p] = reference[k][p]
    BY <2>1
  <2>2. CASE Uses(s, p) /\ reference' = [reference EXCEPT ![harbor[s]][p] = @ - 1]
    <3>1. harbor[s] # n
      BY <1>2, <2>2, UnboundIs DEF Here
    <3> QED
      BY <2>2, <3>1 DEF Shape
  <2> QED
    BY <2>1, <2>2 DEF UseEnds
<1> QED
  BY <1>1, <1>2, PackageUsed

LEMMA PackageExit ==
  ASSUME Shape, NEW p \in Pub, PackageOK(p), NEW s \in Service, Exit(s)
  PROVE  PackageOK(p)'
<1>1. UpBut({}) /\ DownBut({})
  BY ExitDoes
<1>2. UpsCalm(p) /\ DownsCalm(p)
  BY <1>1, PassingIsCalm, SpreadingIsCalm
<1>3. Says("USUB", s) # Sent(p)
  BY OtherSays
<1>4. (Grown(Told(s), Told(s)', Says("USUB", s)) /\ ToldBut({s})) \/ ToldBut({})
  BY ExitDoes
<1>5. TellsCalm(p)
  <2>1. CASE Grown(Told(s), Told(s)', Says("USUB", s)) /\ ToldBut({s})
    BY <1>3, <2>1, TellingIsCalm
  <2>2. CASE ToldBut({})
    BY <2>2, TellingIsCalm
  <2> QED
    BY <1>4, <2>1, <2>2
<1>6. UNCHANGED pubs /\ UseEnds(s, p)
  BY ExitEnds DEF Exit
<1> QED
  BY <1>2, <1>5, <1>6, PackageEnds

LEMMA PackageReceive ==
  ASSUME Shape, NEW p \in Pub, PackageOK(p), NEW s \in Service,
         Receive(s) \/ \E q \in Pub : Handled(s, q)
  PROVE  PackageOK(p)'
<1>1. UNCHANGED <<to, pubs>>
  BY HandledDoes DEF Receive
<1>2. ToldBut({}) /\ UpBut({}) /\ DownBut({})
  BY <1>1 DEF ToldBut, UpBut, DownBut, Told, ToOwner, OfOwner
<1>3. TellsCalm(p) /\ UpsCalm(p) /\ DownsCalm(p)
  BY <1>2, TellingIsCalm, PassingIsCalm, SpreadingIsCalm
<1>4. UseOnce(s, p)
  BY PackageNow
<1>5. UseEnds(s, p)
  BY <1>4, ReceiveEnds, HandledEnds
<1> QED
  BY <1>1, <1>3, <1>5, PackageEnds

(* What multicastd does but for a publication                              *)
LEMMA PackageSub ==
  ASSUME Shape, NEW p \in Pub, PackageOK(p), NEW n \in Node, NEW s \in Service,
         Sub(n, s) \/ SubCall(n, s) \/ Usub(n, s)
  PROVE  PackageOK(p)'
<1>0. UNCHANGED <<reference, handling, lost, pubs>>
  BY DEF Sub, SubCall, Usub
<1>1. CASE Sub(n, s)
  <2>1. /\ Takes(Told(s), Told(s)', Says("SUB", s)) /\ ToldBut({s}) /\ UpBut({}) /\ DownBut({})
        /\ Got(s, Says("SUB", None)) /\ InboxBut({s}) /\ Says("SUB", None) # Spent(p)
    BY <1>1, SubDoes, OtherSays
  <2>2. TellsCalm(p)
    BY <2>1, TellingIsCalm
  <2>3. UpsCalm(p) /\ DownsCalm(p)
    BY <2>1, PassingIsCalm, SpreadingIsCalm
  <2>4. BoxesCalm(p)
    BY <2>1, GettingIsCalm
  <2> QED
    BY <1>0, <2>2, <2>3, <2>4, PackageQuiet
<1>2. CASE SubCall(n, s)
  <2>1. /\ Takes(Told(s), Told(s)', Says("SUB", s)) /\ ToldBut({s}) /\ UpBut({n}) /\ DownBut({})
        /\ Grown(ToOwner(n), ToOwner(n)', Says("SUBR", s)) /\ Says("SUBR", s) # Spent(p)
        /\ UNCHANGED inbox
    BY <1>2, SubCallDoes, OtherSays DEF SubCall
  <2>2. TellsCalm(p)
    BY <2>1, TellingIsCalm
  <2>3. UpsCalm(p)
    BY <2>1, PassingIsCalm
  <2>4. DownsCalm(p) /\ BoxesCalm(p)
    BY <2>1, SpreadingIsCalm, AnsweringIsCalm
  <2> QED
    BY <1>0, <2>2, <2>3, <2>4, PackageQuiet
<1>3. CASE Usub(n, s)
  <2>1. /\ Takes(Told(s), Told(s)', Says("USUB", s)) /\ ToldBut({s}) /\ DownBut({})
        /\ \/ Grown(ToOwner(n), ToOwner(n)', Says("USUBR", None)) /\ UpBut({n})
           \/ UpBut({})
        /\ Says("USUBR", None) # Spent(p) /\ UNCHANGED inbox
    BY <1>3, UsubDoes, OtherSays DEF Usub
  <2>2. TellsCalm(p)
    BY <2>1, TellingIsCalm
  <2>3. UpsCalm(p)
    <3>1. CASE UpBut({})
      BY <3>1, PassingIsCalm
    <3>2. CASE UpBut({n}) /\ Grown(ToOwner(n), ToOwner(n)', Says("USUBR", None))
      BY <2>1, <3>2, PassingIsCalm
    <3> QED
      BY <2>1, <3>1, <3>2
  <2>4. DownsCalm(p) /\ BoxesCalm(p)
    BY <2>1, SpreadingIsCalm, AnsweringIsCalm
  <2> QED
    BY <1>0, <2>2, <2>3, <2>4, PackageQuiet
<1> QED
  BY <1>1, <1>2, <1>3

LEMMA PackageOwner ==
  ASSUME Shape, NEW p \in Pub, PackageOK(p), NEW n \in Node,
         SubR(n) \/ SubAnswered(n) \/ UsubR(n) \/ DelR(n)
  PROVE  PackageOK(p)'
<1>0. UNCHANGED <<reference, handling, lost, pubs>>
  BY DEF SubR, SubAnswered, UsubR, DelR
<1>1. CASE SubR(n)
  <2>1. PICK s \in Here(n), c \in {"some", "none"} :
               /\ Takes(ToOwner(n), ToOwner(n)', Says("SUBR", s))
               /\ Grown(OfOwner(n), OfOwner(n)', Says(c, s))
    BY <1>1, SubRDoes
  <2>2. /\ ToldBut({}) /\ UpBut({n}) /\ DownBut({n}) /\ UNCHANGED inbox
        /\ Says(c, s) # Spent(p)
    BY <1>1, SubRDoes, OtherSays DEF SubR
  <2>3. UpsCalm(p)
    BY <2>1, <2>2, PassingIsCalm
  <2>4. DownsCalm(p)
    BY <2>1, <2>2, SpreadingIsCalm
  <2>5. TellsCalm(p) /\ BoxesCalm(p)
    BY <2>2, TellingIsCalm, AnsweringIsCalm
  <2> QED
    BY <1>0, <2>3, <2>4, <2>5, PackageQuiet
<1>2. CASE SubAnswered(n)
  <2>1. PICK s \in Here(n), c \in {"some", "none"} :
               /\ Takes(OfOwner(n), OfOwner(n)', Says(c, s))
               /\ Got(s, Says("SUB", None)) /\ InboxBut({s})
    BY <1>2, SubAnsweredDoes
  <2>2. /\ ToldBut({}) /\ UpBut({}) /\ DownBut({n}) /\ Says("SUB", None) # Spent(p)
    BY <1>2, SubAnsweredDoes, OtherSays
  <2>3. DownsCalm(p)
    BY <2>1, <2>2, SpreadingIsCalm
  <2>4. BoxesCalm(p)
    BY <2>1, <2>2, GettingIsCalm
  <2>5. TellsCalm(p) /\ UpsCalm(p)
    BY <2>2, TellingIsCalm, PassingIsCalm
  <2> QED
    BY <1>0, <2>3, <2>4, <2>5, PackageQuiet
<1>3. CASE UsubR(n)
  <2>1. /\ Takes(ToOwner(n), ToOwner(n)', Says("USUBR", None))
        /\ ToldBut({}) /\ UpBut({n}) /\ DownBut({}) /\ UNCHANGED inbox
    BY <1>3, UsubRDoes DEF UsubR
  <2>2. UpsCalm(p)
    BY <2>1, PassingIsCalm
  <2>3. TellsCalm(p) /\ DownsCalm(p) /\ BoxesCalm(p)
    BY <2>1, TellingIsCalm, SpreadingIsCalm, AnsweringIsCalm
  <2> QED
    BY <1>0, <2>2, <2>3, PackageQuiet
<1>4. CASE DelR(n)
  <2>1. /\ Takes(OfOwner(n), OfOwner(n)', Says("DELR", None))
        /\ ToldBut({}) /\ UpBut({}) /\ DownBut({n}) /\ UNCHANGED inbox
    BY <1>4, DelRDoes DEF DelR
  <2>2. DownsCalm(p)
    BY <2>1, SpreadingIsCalm
  <2>3. TellsCalm(p) /\ UpsCalm(p) /\ BoxesCalm(p)
    BY <2>1, TellingIsCalm, PassingIsCalm, AnsweringIsCalm
  <2> QED
    BY <1>0, <2>2, <2>3, PackageQuiet
<1> QED
  BY <1>1, <1>2, <1>3, <1>4

LEMMA PackageDel ==
  ASSUME Shape, NEW p \in Pub, PackageOK(p), NEW n \in Node, NEW x \in Node \cup Service, Del(n, x)
  PROVE  PackageOK(p)'
<1>0. UNCHANGED <<reference, handling, lost, pubs, inbox>>
  BY DEF Del
<1>1. BoxesCalm(p)
  BY <1>0, AnsweringIsCalm
<1>2. Says("DEL", None) # Spent(p) /\ Says("DELR", None) # Spent(p)
  BY OtherSays
<1>3. CASE /\ Takes(Told(x), Told(x)', Says("DEL", None))
           /\ Grown(ToOwner(n), ToOwner(n)', Says("DEL", None))
           /\ ToldBut({x}) /\ UpBut({n}) /\ DownBut({})
  <2>1. TellsCalm(p)
    BY <1>3, TellingIsCalm
  <2>2. UpsCalm(p)
    BY <1>2, <1>3, PassingIsCalm
  <2>3. DownsCalm(p)
    BY <1>3, SpreadingIsCalm
  <2> QED
    BY <1>0, <1>1, <2>1, <2>2, <2>3, PackageQuiet
<1>4. CASE /\ Reached(Says("DELR", None))
           /\ \/ ToldBut({x}) /\ UpBut({}) /\ Takes(Told(x), Told(x)', Says("DEL", None))
              \/ ToldBut({}) /\ UpBut({x}) /\ Takes(ToOwner(x), ToOwner(x)', Says("DEL", None))
  <2>1. DownsCalm(p)
    BY <1>2, <1>4, SpreadingIsCalm
  <2>2. CASE ToldBut({x}) /\ UpBut({}) /\ Takes(Told(x), Told(x)', Says("DEL", None))
    <3>1. TellsCalm(p)
      BY <2>2, TellingIsCalm
    <3>2. UpsCalm(p)
      BY <2>2, PassingIsCalm
    <3> QED
      BY <1>0, <1>1, <2>1, <3>1, <3>2, PackageQuiet
  <2>3. CASE ToldBut({}) /\ UpBut({x}) /\ Takes(ToOwner(x), ToOwner(x)', Says("DEL", None))
    <3>1. TellsCalm(p)
      BY <2>3, TellingIsCalm
    <3>2. UpsCalm(p)
      BY <2>3, PassingIsCalm
    <3> QED
      BY <1>0, <1>1, <2>1, <3>1, <3>2, PackageQuiet
  <2> QED
    BY <1>4, <2>2, <2>3
<1> QED
  BY <1>3, <1>4, DelDoes

(* A publication goes on to the owner.                                     *)
LEMMA PackageRemote ==
  ASSUME Shape, NEW p \in Pub, PackageOK(p), NEW n \in Node, NEW s \in Service, PubRemote(n, s)
  PROVE  PackageOK(p)'
<1>0. UNCHANGED <<reference, handling, lost, pubs>>
  BY DEF PubRemote
<1>1. PICK q \in Pub : /\ Takes(Told(s), Told(s)', Sent(q))
                       /\ Grown(ToOwner(n), ToOwner(n)', Spent(q))
  BY PubRemoteDoes DEF Sent, Spent
<1>2. /\ ToldBut({s}) /\ UpBut({n}) /\ DownBut({})
      /\ Got(s, Says("PUB", None)) /\ InboxBut({s}) /\ Says("PUB", None) # Spent(p)
  BY PubRemoteDoes, OtherSays
<1>3. BoxesCalm(p) /\ DownsCalm(p) /\ TellsCalm(p)
  <2>1. BoxesCalm(p)
    BY <1>2, GettingIsCalm
  <2>2. DownsCalm(p)
    BY <1>2, SpreadingIsCalm
  <2>3. TellsCalm(p)
    BY <1>1, <1>2, TellingIsCalm
  <2> QED
    BY <2>1, <2>2, <2>3
<1>4. CASE q # p
  <2>1. Spent(q) # Spent(p)
    BY <1>4, OtherSays
  <2>2. UpsCalm(p)
    BY <1>1, <1>2, <2>1, PassingIsCalm
  <2> QED
    BY <1>0, <1>3, <2>2, PackageQuiet
<1>5. CASE q = p
  <2>1. In(Told(s), Sent(p))
    BY <1>1, <1>5 DEF Takes
  <2>2. /\ ~(p > pubs) /\ \A t \in Service : t # s => ~In(Told(t), Sent(p))
        /\ \A k \in Node : ~In(ToOwner(k), Spent(p)) /\ Unbound(k, p) /\ ~In(OfOwner(k), Spent(p))
    BY <2>1, PackageNow
  <2>3. /\ \A t \in Service : Once(Told(t), Sent(p)) /\ UseOnce(t, p)
        /\ \A k \in Node : Once(ToOwner(k), Spent(p)) /\ Once(OfOwner(k), Spent(p))
    BY PackageNow
  <2>4. /\ \A t \in Service : ~In(Told(t)', Sent(p)) /\ Once(Told(t)', Sent(p))
    BY <1>1, <1>2, <1>5, <2>2, <2>3 DEF Takes, Shrunk, ToldBut
  <2>5. /\ \A k \in Node : In(ToOwner(k)', Spent(p)) => k = n
        /\ \A k \in Node : Once(ToOwner(k)', Spent(p))
    BY <1>1, <1>2, <1>5, <2>2, <2>3 DEF Grown, UpBut
  <2>6. /\ \A k \in Node : ~In(OfOwner(k)', Spent(p)) /\ Once(OfOwner(k)', Spent(p))
        /\ \A t \in Service : UseOnce(t, p)' /\ (Uses(t, p)' => Uses(t, p))
    <3>1. UsesCalm(p)
      BY <1>0, <1>3, BoxesUse
    <3> QED
      BY <1>3, <2>2, <2>3, <3>1 DEF DownsCalm, Calm, UsesCalm, UseCalm
  <2>7. \A k \in Node : Unbound(k, p)'
    BY <1>0, <2>2, <2>6, UnboundIs DEF Here
  <2> QED
    BY <1>0, <2>2, <2>4, <2>5, <2>6, <2>7, PackageNext
<1> QED
  BY <1>4, <1>5

(* What a delivery does to the other packages, and to those of other nodes *)
LEMMA DeliveredTo ==
  ASSUME Shape, GroupsOK, NEW p \in Pub, NEW q \in Pub, NEW n \in Node,
         NEW x \in Node \cup Service, Delivered(n, q, x)
  PROVE  /\ q # p => BoxesCalm(p) /\ HandsSame(p) /\ \A k \in Node : reference'[k][p] = reference[k][p]
         /\ \A k \in Node : k # n /\ Unbound(k, p) => Unbound(k, p)'
         /\ (\A t \in Here(n) : ~Uses(t, q)) =>
                \A t \in Service : UseOnce(t, q) => UseOnce(t, q)'
<1>1. Set(channel[n]) \subseteq Here(n)
  BY SetIs DEF GroupsOK
<1>2. /\ \A a : Spent(q) # Says("PUB", a) /\ Spent(p) # Says("PUB", a)
      /\ q # p => Spent(q) # Spent(p)
  BY OtherSays
<1>3. /\ \A t \in Service : \A y :
           /\ In(inbox'[t], y) <=> \/ In(inbox[t], y)
                                   \/ t \in Set(channel[n]) \cap alive /\ y = Spent(q)
                                   \/ t = x /\ t \in alive /\ y = Says("PUB", None)
           /\ Once(inbox[t], y) /\ y # Says("PUB", None)
                 /\ (t \in Set(channel[n]) /\ y = Spent(q) => ~In(inbox[t], y))
              => Once(inbox'[t], y)
      /\ reference' = [reference EXCEPT ![n][q] = IF Set(channel[n]) = {} THEN 0 ELSE channel_n[n]]
  BY DEF Delivered, Spent
<1>a. /\ UNCHANGED handling
      /\ lost' = [t \in Service |-> IF t \in Set(channel[n]) \ alive THEN lost[t] \cup {q} ELSE lost[t]]
  BY DEF Delivered
<1>4. ASSUME q # p PROVE BoxesCalm(p) /\ HandsSame(p) /\ \A k \in Node : reference'[k][p] = reference[k][p]
  <2>1. \A k \in Node : reference'[k][p] = reference[k][p]
    BY <1>3, <1>4 DEF Shape
  <2>2. BoxesCalm(p)
    BY <1>2, <1>3, <1>4 DEF BoxesCalm, Calm
  <2>3. HandsSame(p)
    BY <1>4, <1>a DEF HandsSame
  <2> QED
    BY <2>1, <2>2, <2>3
<1>5. ASSUME NEW k \in Node, k # n, Unbound(k, p) PROVE Unbound(k, p)'
  <2>1. reference'[k][p] = reference[k][p]
    BY <1>3, <1>5 DEF Shape
  <2>2. \A t \in Here(k) : t \in Service /\ t \notin Set(channel[n])
    BY <1>1, <1>5 DEF Here
  <2>3. \A t \in Here(k) : Uses(t, p)' => Uses(t, p)
    <3>1. \A t \in Here(k) : In(inbox'[t], Spent(p)) => In(inbox[t], Spent(p))
      BY <1>2, <1>3, <2>2
    <3>2. \A t \in Here(k) : lost'[t] = lost[t] /\ handling'[t] = handling[t]
      BY <1>a, <2>2
    <3> QED
      BY <3>1, <3>2, UsesIs
  <2> QED
    BY <1>5, <2>1, <2>3, UnboundIs
<1>6. ASSUME \A t \in Here(n) : ~Uses(t, q), NEW t \in Service, UseOnce(t, q)
      PROVE  UseOnce(t, q)'
  <2>1. Once(inbox[t], Spent(q)) /\ (t \in Set(channel[n]) => ~Uses(t, q))
    BY <1>1, <1>6, UsesIs
  <2>2. t \in Set(channel[n]) =>
            ~In(inbox[t], Spent(q)) /\ q \notin handling[t] /\ q \notin lost[t]
    BY <2>1, UsesIs
  <2>3. Once(inbox'[t], Spent(q))
    BY <1>2, <1>3, <2>1, <2>2
  <2>4. In(inbox'[t], Spent(q)) <=> In(inbox[t], Spent(q)) \/ t \in Set(channel[n]) \cap alive
    BY <1>2, <1>3
  <2>5. /\ handling'[t] = handling[t]
        /\ q \in lost'[t] <=> q \in lost[t] \/ t \in Set(channel[n]) \ alive
    BY <1>a
  <2> QED
    BY <1>6, <2>2, <2>3, <2>4, <2>5, UsesIs
<1> QED
  BY <1>4, <1>5, <1>6

(* A publication of p at n, when it is not the owner: the only one there   *)
LEMMA PackageSpread ==
  ASSUME Shape, GroupsOK, NEW p \in Pub, PackageOK(p), NEW n \in Node, n # Owner,
         Delivered(n, p, Owner), Takes(OfOwner(n), OfOwner(n)', Spent(p)),
         ToldBut({}), UpBut({}), DownBut({n}), UNCHANGED pubs
  PROVE  PackageOK(p)'
<1>0. Owner \in Node
  BY MulticastAssumption
<1>1. In(OfOwner(n), Spent(p))
  BY DEF Takes
<1>2. /\ \A t \in Service : ~In(Told(t), Sent(p))
      /\ \A k \in Node : ~In(ToOwner(k), Spent(p))
      /\ ~(p > pubs) /\ Unbound(n, p)
  BY <1>1, PackageNow
<1>3. /\ \A t \in Service : Once(Told(t), Sent(p)) /\ UseOnce(t, p)
      /\ \A k \in Node : Once(ToOwner(k), Spent(p)) /\ Once(OfOwner(k), Spent(p))
      /\ \A k \in Node : In(OfOwner(k), Spent(p)) => Unbound(k, p)
  BY PackageNow
<1>4. /\ \A t \in Service : Told(t)' = Told(t)
      /\ \A k \in Node : ToOwner(k)' = ToOwner(k)
  BY DEF ToldBut, UpBut
<1>5. \A k \in Node : Once(OfOwner(k)', Spent(p)) /\ (In(OfOwner(k)', Spent(p)) => k # n /\ In(OfOwner(k), Spent(p)))
  BY <1>3 DEF Takes, Shrunk, DownBut
<1>6. \A k \in Node : In(OfOwner(k)', Spent(p)) => Unbound(k, p)'
  BY <1>0, <1>3, <1>5, DeliveredTo
<1>7. \A t \in Service : UseOnce(t, p)'
  <2>1. \A t \in Here(n) : ~Uses(t, p)
    BY <1>2, UnboundIs
  <2> QED
    BY <1>0, <1>3, <2>1, DeliveredTo
<1> QED
  BY <1>2, <1>3, <1>4, <1>5, <1>6, <1>7, PackageNext

(* A publication of p at the owner: it was nowhere else.                   *)
LEMMA PackageReached ==
  ASSUME Shape, GroupsOK, NEW p \in Pub, PackageOK(p), NEW x \in Node \cup Service,
         Delivered(Owner, p, x), Reached(Spent(p)), UNCHANGED pubs,
         \/ x \in Service /\ ToldBut({x}) /\ UpBut({}) /\ Takes(Told(x), Told(x)', Sent(p))
         \/ x \in Node /\ ToldBut({}) /\ UpBut({x}) /\ Takes(ToOwner(x), ToOwner(x)', Spent(p))
  PROVE  PackageOK(p)'
<1>0. Owner \in Node
  BY MulticastAssumption
<1>1. (\E t \in Service : In(Told(t), Sent(p))) \/ (\E k \in Node : In(ToOwner(k), Spent(p)))
  BY DEF Takes
<1>2. /\ \A k \in Node : Unbound(k, p) /\ ~In(OfOwner(k), Spent(p))
      /\ ~(p > pubs)
  BY <1>1, PackageNow
<1>3. /\ \A t \in Service : Once(Told(t), Sent(p)) /\ UseOnce(t, p)
      /\ \A k \in Node : Once(ToOwner(k), Spent(p)) /\ Once(OfOwner(k), Spent(p))
  BY PackageNow
<1>4. /\ \A s, t \in Service : In(Told(s), Sent(p)) /\ In(Told(t), Sent(p)) => s = t
      /\ \A m, k \in Node : In(ToOwner(m), Spent(p)) /\ In(ToOwner(k), Spent(p)) => m = k
      /\ \A s \in Service, k \in Node : ~(In(Told(s), Sent(p)) /\ In(ToOwner(k), Spent(p)))
  BY PackageNow
<1>5. /\ \A t \in Service : ~In(Told(t)', Sent(p)) /\ Once(Told(t)', Sent(p))
      /\ \A k \in Node : ~In(ToOwner(k)', Spent(p)) /\ Once(ToOwner(k)', Spent(p))
  <2>1. CASE x \in Service /\ ToldBut({x}) /\ UpBut({}) /\ Takes(Told(x), Told(x)', Sent(p))
    <3>1. /\ \A t \in Service : t # x => Told(t)' = Told(t) /\ ~In(Told(t), Sent(p))
          /\ \A k \in Node : ToOwner(k)' = ToOwner(k) /\ ~In(ToOwner(k), Spent(p))
      BY <1>4, <2>1 DEF Takes, ToldBut, UpBut
    <3>2. ~In(Told(x)', Sent(p)) /\ Once(Told(x)', Sent(p))
      BY <1>3, <2>1 DEF Takes, Shrunk
    <3> QED
      BY <1>3, <3>1, <3>2
  <2>2. CASE x \in Node /\ ToldBut({}) /\ UpBut({x}) /\ Takes(ToOwner(x), ToOwner(x)', Spent(p))
    <3>1. /\ \A t \in Service : Told(t)' = Told(t) /\ ~In(Told(t), Sent(p))
          /\ \A k \in Node : k # x => ToOwner(k)' = ToOwner(k) /\ ~In(ToOwner(k), Spent(p))
      BY <1>4, <2>2 DEF Takes, ToldBut, UpBut
    <3>2. ~In(ToOwner(x)', Spent(p)) /\ Once(ToOwner(x)', Spent(p))
      BY <1>3, <2>2 DEF Takes, Shrunk
    <3> QED
      BY <1>3, <3>1, <3>2
  <2> QED
    BY <2>1, <2>2
<1>6. Owner \notin Set(remote)
  BY DEF Set, Shape
<1>7. \A k \in Node : Once(OfOwner(k)', Spent(p)) /\ (In(OfOwner(k)', Spent(p)) => k # Owner)
  <2> SUFFICES ASSUME NEW k \in Node
               PROVE  Once(OfOwner(k)', Spent(p)) /\ (In(OfOwner(k)', Spent(p)) => k # Owner)
    OBVIOUS
  <2>1. CASE k \in Set(remote)
    <3>1. Grown(OfOwner(k), OfOwner(k)', Spent(p))
      BY <2>1 DEF Reached
    <3> QED
      BY <1>2, <1>3, <1>6, <2>1, <3>1 DEF Grown
  <2>2. CASE k \notin Set(remote)
    <3>1. OfOwner(k)' = OfOwner(k)
      BY <2>2 DEF Reached
    <3> QED
      BY <1>2, <1>3, <3>1
  <2> QED
    BY <2>1, <2>2
<1>8. \A k \in Node : In(OfOwner(k)', Spent(p)) => Unbound(k, p)'
  BY <1>0, <1>2, <1>7, DeliveredTo
<1>9. \A t \in Service : UseOnce(t, p)'
  <2>1. \A t \in Here(Owner) : ~Uses(t, p)
    BY <1>0, <1>2, UnboundIs
  <2> QED
    BY <1>0, <1>3, <2>1, DeliveredTo
<1> QED
  BY <1>2, <1>5, <1>7, <1>8, <1>9, PackageNext

LEMMA PackageHere ==
  ASSUME Shape, GroupsOK, NEW p \in Pub, PackageOK(p), NEW n \in Node, NEW x \in Node \cup Service,
         PubHere(n, x)
  PROVE  PackageOK(p)'
<1>0. UNCHANGED pubs
  BY DEF PubHere
<1>1. PICK q \in Pub :
          /\ Delivered(n, q, x)
          /\ \/ /\ n # Owner /\ x = Owner /\ Takes(OfOwner(n), OfOwner(n)', Spent(q))
                /\ ToldBut({}) /\ UpBut({}) /\ DownBut({n})
             \/ /\ n = Owner /\ Reached(Spent(q))
                /\ \/ x \in Service /\ ToldBut({x}) /\ UpBut({}) /\ Takes(Told(x), Told(x)', Sent(q))
                   \/ x \in Node /\ ToldBut({}) /\ UpBut({x}) /\ Takes(ToOwner(x), ToOwner(x)', Spent(q))
  BY PubHereDoes DEF Sent, Spent
<1>2. CASE q = p
  BY <1>0, <1>1, <1>2, PackageSpread, PackageReached
<1>3. CASE q # p
  <2>1. BoxesCalm(p) /\ HandsSame(p) /\ \A k \in Node : reference'[k][p] = reference[k][p]
    BY <1>1, <1>3, DeliveredTo
  <2>2. Spent(q) # Spent(p)
    BY <1>3, OtherSays
  <2>3. CASE /\ Takes(OfOwner(n), OfOwner(n)', Spent(q))
             /\ ToldBut({}) /\ UpBut({}) /\ DownBut({n})
    <3>1. DownsCalm(p)
      BY <2>3, SpreadingIsCalm
    <3>2. TellsCalm(p) /\ UpsCalm(p)
      BY <2>3, TellingIsCalm, PassingIsCalm
    <3> QED
      BY <1>0, <2>1, <3>1, <3>2, PackageQuiet
  <2>4. CASE Reached(Spent(q)) /\ ToldBut({x}) /\ UpBut({}) /\ Takes(Told(x), Told(x)', Sent(q))
    <3>1. DownsCalm(p)
      BY <2>2, <2>4, SpreadingIsCalm
    <3>2. TellsCalm(p)
      BY <2>4, TellingIsCalm
    <3>3. UpsCalm(p)
      BY <2>4, PassingIsCalm
    <3> QED
      BY <1>0, <2>1, <3>1, <3>2, <3>3, PackageQuiet
  <2>5. CASE Reached(Spent(q)) /\ ToldBut({}) /\ UpBut({x}) /\ Takes(ToOwner(x), ToOwner(x)', Spent(q))
    <3>1. DownsCalm(p)
      BY <2>2, <2>5, SpreadingIsCalm
    <3>2. TellsCalm(p)
      BY <2>5, TellingIsCalm
    <3>3. UpsCalm(p)
      BY <2>5, PassingIsCalm
    <3> QED
      BY <1>0, <2>1, <3>1, <3>2, <3>3, PackageQuiet
  <2> QED
    BY <1>1, <2>3, <2>4, <2>5
<1> QED
  BY <1>2, <1>3

LEMMA PackageStep ==
  ASSUME Shape, GroupsOK, NEW p \in Pub, PackageOK(p), Next
  PROVE  PackageOK(p)'
<1>1. ASSUME NEW s \in Service, \/ Subscribe(s) \/ Unsubscribe(s) \/ Delete(s) \/ Publish(s)
                                \/ Exit(s) \/ Receive(s)
      PROVE  PackageOK(p)'
  BY <1>1, PackageTold, PackageNew, PackageExit, PackageReceive
<1>h. ASSUME NEW s \in Service, NEW q \in Pub, Handled(s, q) PROVE PackageOK(p)'
  BY <1>h, PackageReceive
<1>2. ASSUME NEW n \in Node, SubR(n) \/ SubAnswered(n) \/ UsubR(n) \/ DelR(n) PROVE PackageOK(p)'
  BY <1>2, PackageOwner
<1>3. ASSUME NEW n \in Node, NEW s \in Service, Sub(n, s) \/ SubCall(n, s) \/ Usub(n, s)
      PROVE  PackageOK(p)'
  BY <1>3, PackageSub
<1>4. ASSUME NEW n \in Node, NEW s \in Service, PubRemote(n, s) PROVE PackageOK(p)'
  BY <1>4, PackageRemote
<1>5. ASSUME NEW n \in Node, NEW x \in Node \cup Service, Del(n, x) \/ PubHere(n, x)
      PROVE  PackageOK(p)'
  BY <1>5, PackageDel, PackageHere
<1> QED
  BY <1>1, <1>h, <1>2, <1>3, <1>4, <1>5 DEF Next
-----------------------------------------------------------------------------
(* The references                                                          *)

LEMMA HoldingIs ==
  ASSUME NEW n \in Node, NEW p
  PROVE  /\ Holding(n, p) = {s \in Here(n) : Uses(s, p)}
         /\ Holding(n, p)' = {s \in Here(n) : Uses(s, p)'}
         /\ IsFiniteSet(Holding(n, p)) /\ Cardinality(Holding(n, p)) \in Nat
<1>1. Holding(n, p) = {s \in Here(n) : Uses(s, p)}
  BY DEF Holding
<1>2. Holding(n, p)' = {s \in Here(n) : Uses(s, p)'}
  BY DEF Holding, Here
<1>3. IsFiniteSet(Here(n)) /\ Holding(n, p) \subseteq Here(n)
  BY <1>1, HereIsFinite
<1> QED
  BY <1>1, <1>2, <1>3, FS_Subset, FS_CardinalityType

LEMMA CountWith ==
  ASSUME NEW n \in Node, NEW p, NEW H, Holding(n, p)' = H, reference'[n][p] = Cardinality(H)
  PROVE  CountOK(n, p)'
  BY DEF CountOK

LEMMA CountKept ==
  ASSUME NEW n \in Node, NEW p, CountOK(n, p), \A s \in Here(n) : Uses(s, p)' <=> Uses(s, p),
         reference'[n][p] = reference[n][p]
  PROVE  CountOK(n, p)'
<1>1. Holding(n, p)' = Holding(n, p)
  BY HoldingIs
<1> QED
  BY <1>1, CountWith DEF CountOK

LEMMA CountSame ==
  ASSUME NEW n \in Node, NEW p, CountOK(n, p), UNCHANGED <<inbox, reference, handling, lost>>
  PROVE  CountOK(n, p)'
<1>1. \A s \in Here(n) : Uses(s, p)' <=> Uses(s, p)
  BY UsesIs
<1> QED
  BY <1>1, CountKept

LEMMA CountAnswered ==
  ASSUME NEW n \in Node, NEW p, CountOK(n, p), NEW s, NEW l, l # Spent(p), InboxBut({s}), Got(s, l),
         UNCHANGED <<reference, handling, lost>>
  PROVE  CountOK(n, p)'
<1>1. \A t \in Here(n) : In(inbox'[t], Spent(p)) <=> In(inbox[t], Spent(p))
  <2> TAKE t \in Here(n)
  <2>1. CASE t = s
    BY <2>1 DEF Got, Grown
  <2>2. CASE t # s
    BY <2>2 DEF InboxBut, Here
  <2> QED
    BY <2>1, <2>2
<1>2. \A t \in Here(n) : Uses(t, p)' <=> Uses(t, p)
  BY <1>1, UsesIs
<1> QED
  BY <1>2, CountKept

LEMMA CountEnds ==
  ASSUME Shape, NEW n \in Node, NEW p \in Pub, CountOK(n, p), NEW s \in Service, UseEnds(s, p)
  PROVE  CountOK(n, p)'
<1>1. Here(n) \subseteq Service /\ (s \in Here(n) <=> harbor[s] = n)
  BY DEF Here
<1>2. \A t \in Service \ {s} : Uses(t, p)' <=> Uses(t, p)
  BY DEF UseEnds
<1>3. CASE (Uses(s, p)' <=> Uses(s, p)) /\ \A k \in Node : reference'[k][p] = reference[k][p]
  <2>1. \A t \in Here(n) : Uses(t, p)' <=> Uses(t, p)
    BY <1>1, <1>2, <1>3
  <2> QED
    BY <1>3, <2>1, CountKept
<1>4. CASE /\ Uses(s, p) /\ ~Uses(s, p)'
           /\ reference' = [reference EXCEPT ![harbor[s]][p] = @ - 1]
  <2>1. CASE harbor[s] # n
    <3>1. reference'[n][p] = reference[n][p]
      BY <1>4, <2>1 DEF Shape
    <3>2. \A t \in Here(n) : Uses(t, p)' <=> Uses(t, p)
      BY <1>1, <1>2, <2>1
    <3> QED
      BY <3>1, <3>2, CountKept
  <2>2. CASE harbor[s] = n
    <3>1. reference'[n][p] = reference[n][p] - 1 /\ reference[n][p] \in Int
      BY <1>4, <2>2 DEF Shape
    <3>2. s \in Holding(n, p) /\ Holding(n, p)' = Holding(n, p) \ {s}
      BY <1>1, <1>2, <1>4, <2>2, HoldingIs
    <3>3. Cardinality(Holding(n, p) \ {s}) = Cardinality(Holding(n, p)) - 1
      BY <3>2, HoldingIs, FS_RemoveElement
    <3>4. reference'[n][p] = Cardinality(Holding(n, p) \ {s})
      BY <3>1, <3>3 DEF CountOK
    <3> QED
      BY <3>2, <3>4, CountWith
  <2> QED
    BY <2>1, <2>2
<1> QED
  BY <1>3, <1>4 DEF UseEnds

(* A publication of p at n: nobody there holds it yet.                     *)
LEMMA CountPublished ==
  ASSUME Shape, GroupsOK, NEW n \in Node, NEW p \in Pub, Unbound(n, p), NEW x \in Node \cup Service,
         Delivered(n, p, x)
  PROVE  CountOK(n, p)'
<1> DEFINE group == Set(channel[n])
<1>1. /\ group \subseteq Here(n) /\ IsFiniteSet(group) /\ channel_n[n] = Cardinality(group)
      /\ channel_n[n] \in Nat
  BY SetIs DEF GroupsOK
<1>2. \A t \in Here(n) : Uses(t, p)' <=> t \in group
  <2>1. \A a : Spent(p) # Says("PUB", a)
    BY OtherSays
  <2>2. \A t \in Service : In(inbox'[t], Spent(p)) <=>
            \/ In(inbox[t], Spent(p))
            \/ t \in Set(channel[n]) \cap alive /\ Spent(p) = Says("multicast", p)
            \/ t = x /\ t \in alive /\ Spent(p) = Says("PUB", None)
    BY DEF Delivered
  <2>3. \A t \in Service : /\ handling'[t] = handling[t]
                           /\ p \in lost'[t] <=> p \in lost[t] \/ t \in Set(channel[n]) \ alive
    BY DEF Delivered
  <2>4. \A t \in Here(n) : t \in Service /\ ~Uses(t, p)
    BY UnboundIs DEF Here
  <2>5. Spent(p) = Says("multicast", p)
    BY DEF Spent
  <2> SUFFICES ASSUME NEW t \in Here(n) PROVE Uses(t, p)' <=> t \in group
    OBVIOUS
  <2>6. t \in Service /\ ~In(inbox[t], Spent(p)) /\ p \notin handling[t] /\ p \notin lost[t]
    BY <2>4, UsesIs
  <2>7. In(inbox'[t], Spent(p)) <=> t \in group \cap alive
    BY <2>1, <2>2, <2>5, <2>6
  <2>8. p \notin handling'[t] /\ (p \in lost'[t] <=> t \in group \ alive)
    BY <2>3, <2>6
  <2> QED
    BY <2>7, <2>8, UsesIs
<1>3. Holding(n, p)' = group
  BY <1>1, <1>2, HoldingIs
<1>4. reference'[n][p] = Cardinality(group)
  <2>1. reference'[n][p] = IF group = {} THEN 0 ELSE channel_n[n]
    BY DEF Delivered, Shape
  <2>2. Cardinality({}) = 0
    BY FS_EmptySet
  <2> QED
    BY <1>1, <2>1, <2>2
<1> HIDE DEF group
<1> QED
  BY <1>3, <1>4, CountWith


LEMMA CountHere ==
  ASSUME Shape, GroupsOK, NEW n \in Node, NEW p \in Pub, PackageOK(p), CountOK(n, p),
         NEW m \in Node, NEW x \in Node \cup Service, PubHere(m, x)
  PROVE  CountOK(n, p)'
<1>1. PICK q \in Pub :
          /\ Delivered(m, q, x)
          /\ \/ m # Owner /\ Takes(OfOwner(m), OfOwner(m)', Spent(q))
             \/ m = Owner /\ x \in Service /\ Takes(Told(x), Told(x)', Sent(q))
             \/ m = Owner /\ x \in Node /\ Takes(ToOwner(x), ToOwner(x)', Spent(q))
  BY PubHereDoes DEF Sent, Spent
<1>2. CASE m = n /\ q = p
  <2>1. Unbound(n, p)
    BY <1>1, <1>2, PackageNow DEF Takes
  <2> QED
    BY <1>1, <1>2, <2>1, CountPublished
<1>3. CASE ~(m = n /\ q = p)
  <2>1. \A a : Spent(p) # Says("PUB", a)
    BY OtherSays
  <2>2. Set(channel[m]) \subseteq Here(m)
    BY SetIs DEF GroupsOK
  <2>3. \A t \in Here(n) : t \in Set(channel[m]) => q # p
    BY <1>3, <2>2 DEF Here
  <2>4. q # p => Says("multicast", q) # Spent(p)
    BY OtherSays DEF Spent
  <2>5. \A t \in Service : In(inbox'[t], Spent(p)) <=>
            \/ In(inbox[t], Spent(p))
            \/ t \in Set(channel[m]) \cap alive /\ Spent(p) = Says("multicast", q)
            \/ t = x /\ t \in alive /\ Spent(p) = Says("PUB", None)
    BY <1>1 DEF Delivered
  <2>6. \A t \in Here(n) : Uses(t, p)' <=> Uses(t, p)
    <3>1. \A t \in Here(n) : In(inbox'[t], Spent(p)) <=> In(inbox[t], Spent(p))
      BY <2>1, <2>3, <2>4, <2>5, HereIsFinite
    <3>2. \A t \in Service : /\ handling'[t] = handling[t]
                             /\ p \in lost'[t] <=>
                                    p \in lost[t] \/ (t \in Set(channel[m]) \ alive /\ p = q)
      BY <1>1 DEF Delivered
    <3>3. \A t \in Here(n) : /\ p \in handling'[t] <=> p \in handling[t]
                             /\ p \in lost'[t] <=> p \in lost[t]
      BY <2>3, <3>2, HereIsFinite
    <3> QED
      BY <3>1, <3>3, UsesIs
  <2>7. reference'[n][p] = reference[n][p]
    BY <1>1, <1>3 DEF Delivered, Shape
  <2> QED
    BY <2>6, <2>7, CountKept
<1> QED
  BY <1>2, <1>3

LEMMA CountStep ==
  ASSUME Shape, GroupsOK, NEW n \in Node, NEW p \in Pub, PackageOK(p), CountOK(n, p), Next
  PROVE  CountOK(n, p)'
<1>0. ASSUME UNCHANGED <<inbox, reference, handling, lost>> PROVE CountOK(n, p)'
  BY <1>0, CountSame
<1>1. ASSUME NEW s \in Service, \/ Subscribe(s) \/ Unsubscribe(s) \/ Delete(s) \/ Publish(s)
                                \/ Exit(s) \/ Receive(s)
      PROVE  CountOK(n, p)'
  <2>1. CASE Subscribe(s) \/ Unsubscribe(s) \/ Delete(s) \/ Publish(s)
    BY <1>0, <2>1 DEF Subscribe, Unsubscribe, Delete, Publish
  <2>2. CASE Exit(s) \/ Receive(s)
    <3>1. UseEnds(s, p)
      BY <2>2, ExitEnds, ReceiveEnds, PackageNow
    <3> QED
      BY <3>1, CountEnds
  <2> QED
    BY <1>1, <2>1, <2>2
<1>h. ASSUME NEW s \in Service, NEW q \in Pub, Handled(s, q) PROVE CountOK(n, p)'
  <2>1. UseEnds(s, p)
    BY <1>h, HandledEnds, PackageNow
  <2> QED
    BY <2>1, CountEnds
<1>2. ASSUME NEW m \in Node, SubR(m) \/ UsubR(m) \/ DelR(m)
      PROVE  CountOK(n, p)'
  BY <1>0, <1>2 DEF SubR, UsubR, DelR
<1>3. ASSUME NEW m \in Node, SubAnswered(m) PROVE CountOK(n, p)'
  <2>1. PICK s \in Here(m) : Got(s, Says("SUB", None)) /\ InboxBut({s})
    BY <1>3, SubAnsweredDoes
  <2>2. Says("SUB", None) # Spent(p) /\ UNCHANGED <<reference, handling, lost>>
    BY <1>3, OtherSays DEF SubAnswered
  <2> QED
    BY <2>1, <2>2, CountAnswered
<1>4. ASSUME NEW m \in Node, NEW s \in Service, Sub(m, s) \/ PubRemote(m, s) PROVE CountOK(n, p)'
  <2>1. InboxBut({s}) /\ (Got(s, Says("SUB", None)) \/ Got(s, Says("PUB", None)))
    BY <1>4, SubDoes, PubRemoteDoes
  <2>2. /\ Says("SUB", None) # Spent(p) /\ Says("PUB", None) # Spent(p)
        /\ UNCHANGED <<reference, handling, lost>>
    BY <1>4, OtherSays DEF Sub, PubRemote
  <2> QED
    BY <2>1, <2>2, CountAnswered
<1>5. ASSUME NEW m \in Node, NEW s \in Service, SubCall(m, s) \/ Usub(m, s) PROVE CountOK(n, p)'
  BY <1>0, <1>5 DEF SubCall, Usub
<1>6. ASSUME NEW m \in Node, NEW x \in Node \cup Service, Del(m, x) PROVE CountOK(n, p)'
  BY <1>0, <1>6 DEF Del
<1>7. ASSUME NEW m \in Node, NEW x \in Node \cup Service, PubHere(m, x) PROVE CountOK(n, p)'
  BY <1>7, CountHere
<1> QED
  BY <1>1, <1>h, <1>2, <1>3, <1>4, <1>5, <1>6, <1>7 DEF Next

(* Each subscriber has one message at most that points to the package.     *)
Carried(n, p) == {s \in Here(n) : In(inbox[s], Says("multicast", p))}

LEMMA CopiesAreCarried ==
  ASSUME Shape, NEW n \in Node, NEW p \in Pub, PackageOK(p)
  PROVE  Cardinality(Copies(n, p)) = Cardinality(Carried(n, p))
<1> DEFINE H == Carried(n, p)
           Place(s) == {k \in DOMAIN inbox[s] : inbox[s][k] = Says("multicast", p)}
           f == [s \in H |-> <<s, CHOOSE k \in DOMAIN inbox[s] : inbox[s][k] = Says("multicast", p)>>]
<1>1. Copies(n, p) = UNION {{s} \X Place(s) : s \in Here(n)}
  BY DEF Copies, Here
<1>2. H \subseteq Here(n) /\ Here(n) \subseteq Service /\ IsFiniteSet(H)
  <2>1. H \subseteq Here(n)
    BY DEF Carried
  <2> QED
    BY <2>1, HereIsFinite, FS_Subset
<1>3. \A s \in Here(n) : s \in H <=> \E k \in DOMAIN inbox[s] : inbox[s][k] = Says("multicast", p)
  BY DEF Carried, In
<1>4. \A s \in Here(n) : \A j, k \in Place(s) : j = k
  BY <1>2 DEF PackageOK, UseOnce, Once
<1>5. \A s \in H : f[s] = <<s, f[s][2]>> /\ f[s][2] \in Place(s)
  BY <1>2, <1>3
<1> HIDE DEF f, H
<1>6. DOMAIN f = H
  BY DEF f
<1>7. \A s \in H : f[s] \in Copies(n, p)
  <2> SUFFICES ASSUME NEW s \in H PROVE f[s] \in Copies(n, p)
    OBVIOUS
  <2>1. PICK k : k = f[s][2]
    OBVIOUS
  <2>2. f[s] = <<s, k>> /\ k \in Place(s) /\ s \in Here(n)
    BY <1>2, <1>5, <2>1
  <2> QED
    BY <1>1, <2>2
<1>8. \A c \in Copies(n, p) : \E s \in H : f[s] = c
  <2> SUFFICES ASSUME NEW c \in Copies(n, p) PROVE \E s \in H : f[s] = c
    OBVIOUS
  <2>1. PICK s \in Here(n) : c \in {s} \X Place(s)
    BY <1>1
  <2>2. PICK k \in Place(s) : c = <<s, k>>
    BY <2>1
  <2>3. s \in H
    BY <1>3, <2>2
  <2>4. PICK j : j = f[s][2]
    OBVIOUS
  <2>5. f[s] = <<s, j>> /\ j \in Place(s)
    BY <1>5, <2>3, <2>4
  <2>6. j = k
    BY <1>4, <2>2, <2>5
  <2> QED
    BY <2>2, <2>3, <2>5, <2>6
<1>9. \A s, t \in H : f[s] = f[t] => s = t
  <2> SUFFICES ASSUME NEW s \in H, NEW t \in H, f[s] = f[t] PROVE s = t
    OBVIOUS
  <2>1. f[s] = <<s, f[s][2]>> /\ f[t] = <<t, f[t][2]>>
    BY <1>5
  <2> QED
    BY <2>1
<1>10. f \in Bijection(H, Copies(n, p))
  <2>1. f \in [H -> Copies(n, p)]
    <3>1. f = [s \in H |-> f[s]]
      BY DEF f
    <3> QED
      BY <1>7, <3>1
  <2> QED
    BY <1>8, <1>9, <2>1 DEF Bijection, Injection, Surjection, IsInjective
<1> QED
  BY <1>2, <1>10, FS_Bijection DEF ExistsBijection, H

(* A reference is a message's, a dispatch function's or a lost one.        *)
LEMMA HoldingsAre ==
  ASSUME Shape, NEW n \in Node, NEW p \in Pub, PackageOK(p)
  PROVE  Cardinality(Holding(n, p)) = Cardinality(Copies(n, p)) + Cardinality(Handling(n, p))
                                          + Cardinality(Lost(n, p))
<1> DEFINE C == Carried(n, p)
           D == Handling(n, p)
           L == Lost(n, p)
<1>1. /\ Holding(n, p) = C \cup (D \cup L)
      /\ C \subseteq Here(n) /\ D \subseteq Here(n) /\ L \subseteq Here(n)
  BY DEF Holding, Carried, Handling, Lost, Uses, Here
<1>2. C \cap (D \cup L) = {} /\ D \cap L = {}
  BY DEF PackageOK, UseOnce, Carried, Handling, Lost, Here
<1>3. IsFiniteSet(C) /\ IsFiniteSet(D) /\ IsFiniteSet(L)
  BY <1>1, HereIsFinite, FS_Subset
<1>a. Cardinality({}) = 0
  BY FS_EmptySet
<1>4. Cardinality(C) = Cardinality(Copies(n, p))
  BY CopiesAreCarried
<1> HIDE DEF C, D, L
<1>5. IsFiniteSet(D \cup L) /\ Cardinality(D \cup L) = Cardinality(D) + Cardinality(L)
  <2>1. /\ IsFiniteSet(D \cup L)
        /\ Cardinality(D \cup L) = Cardinality(D) + Cardinality(L) - Cardinality(D \cap L)
    BY <1>3, FS_Union
  <2>2. Cardinality(D \cap L) = 0 /\ Cardinality(D) \in Nat /\ Cardinality(L) \in Nat
    BY <1>2, <1>3, <1>a, FS_CardinalityType
  <2> QED
    BY <2>1, <2>2
<1>6. Cardinality(C \cup (D \cup L)) = Cardinality(C) + Cardinality(D \cup L)
  <2>1. Cardinality(C \cup (D \cup L))
            = Cardinality(C) + Cardinality(D \cup L) - Cardinality(C \cap (D \cup L))
    BY <1>3, <1>5, FS_Union
  <2>2. Cardinality(C \cap (D \cup L)) = 0 /\ Cardinality(C) \in Nat
        /\ Cardinality(D \cup L) \in Nat
    BY <1>2, <1>3, <1>5, <1>a, FS_CardinalityType
  <2> QED
    BY <2>1, <2>2
<1>7. /\ Cardinality(C) \in Nat /\ Cardinality(D) \in Nat /\ Cardinality(L) \in Nat
  BY <1>3, FS_CardinalityType
<1>8. Cardinality(Holding(n, p)) = Cardinality(C) + Cardinality(D) + Cardinality(L)
  BY <1>1, <1>5, <1>6, <1>7
<1> QED
  BY <1>4, <1>8 DEF D, L
-----------------------------------------------------------------------------
(* The theorems                                                            *)

LEMMA NothingIn ==
  \A m, b : ~In(<<>>, m) /\ Once(<<>>, m) /\ NotBehind(<<>>, m, b)
  BY DEF In, Once, NotBehind

LEMMA InitIsInv == Init => Inv
<1> SUFFICES ASSUME Init PROVE Inv
  OBVIOUS
<1>0. Owner \in Node /\ {} # None /\ harbor \in [Service -> Node] /\ Cardinality({}) = 0
  BY FS_EmptySet, MulticastAssumption
<1>1. Shape
  <2>1. Typed(to)
    <3>1. to = [n \in Node |-> [x \in Node \cup Service |-> <<>>]]
      BY DEF Init
    <3>2. \A S : <<>> \in Seq(S)
      OBVIOUS
    <3> QED
      BY <3>1, <3>2 DEF Typed
  <2>2. chan \in [Service -> [channel : BOOLEAN, subscribe : BOOLEAN, waits : SUBSET {"SUB", "PUB"}]]
    BY DEF Init
  <2>3. /\ alive \subseteq Service /\ inbox \in [Service -> Seq(Answers)]
        /\ channel \in [Node -> {None} \cup SUBSET Service] /\ channel_n \in [Node -> Int]
        /\ remote \in {None} \cup SUBSET (Node \ {Owner}) /\ calling \in [Node -> SUBSET Service]
    BY DEF Init
  <2>4. reference \in [Node -> [Pub -> Int]] /\ handed \in [Service -> Int]
    BY DEF Init
  <2>8. handling \in [Service -> SUBSET Pub] /\ lost \in [Service -> SUBSET Pub]
    BY DEF Init
  <2>5. pubs \in 0..MaxPub
    <3>1. MaxPub \in Nat /\ pubs = 0
      BY MulticastAssumption DEF Init
    <3> QED
      BY <3>1
  <2>6. published \in Int
    BY DEF Init
  <2>7. crossed \in BOOLEAN
    BY Zenon DEF Init
  <2> QED
    BY <2>1, <2>2, <2>3, <2>4, <2>5, <2>6, <2>7, <2>8 DEF Shape
<1>2. /\ \A s \in Service : Told(s) = <<>> /\ inbox[s] = <<>> /\ ~chan[s].subscribe /\ harbor[s] \in Node
      /\ \A n \in Node : ToOwner(n) = <<>> /\ OfOwner(n) = <<>> /\ calling[n] = {}
  BY <1>0 DEF Init, Told, ToOwner, OfOwner
<1>3. \A n \in Node : /\ channel[n] = IF n = Owner THEN {} ELSE None
                      /\ Set(channel[n]) = {} /\ channel_n[n] = 0
  BY <1>0 DEF Init, Set
<1>4. GroupsOK
  BY <1>0, <1>2, <1>3 DEF GroupsOK, GroupOK
<1>5. AskedAll
  <2> SUFFICES ASSUME NEW s \in Service PROVE AskedOnce(s)
    BY DEF AskedAll
  <2>1. ~Asks(s) /\ ~Waits(s) /\ ~Has(s) /\ ~Remotely(s) /\ ~Some(s) /\ ~Nobody(s)
    BY <1>2, NothingIn DEF Asks, Waits, Has, Remotely, Some, Nobody
  <2> QED
    BY <1>2, <2>1, NothingIn DEF AskedOnce
<1>6. MemberAll
  <2> SUFFICES ASSUME NEW s \in Service PROVE MemberOK(s)
    BY DEF MemberAll
  <2>1. ~Waits(s) /\ ~Has(s) /\ ~Leaves(s) /\ ~Subscribed(s)
    BY <1>2, NothingIn DEF Waits, Has, Leaves, Subscribed
  <2> QED
    BY <1>2, <2>1, NothingIn DEF MemberOK
<1>7. NodeAll
  <2> SUFFICES ASSUME NEW n \in Node PROVE EndOK(n) /\ RemoteOK(n) /\ HandedOK(n)
    BY DEF NodeAll, NodeOK
  <2>1. EndOK(n) /\ ~Some1(n) /\ ~Left(n)
    BY <1>2, NothingIn DEF EndOK, Some1, Left
  <2>2. RemoteOK(n)
    BY <1>2, <1>3, <2>1, NothingIn DEF RemoteOK
  <2> QED
    BY <1>3, <2>1, <2>2 DEF HandedOK
<1>8. ASSUME NEW p \in Pub PROVE PackageOK(p) /\ \A n \in Node : CountOK(n, p)
  <2>1. \A n \in Node : Holding(n, p) = {} /\ reference[n][p] = 0 /\ Unbound(n, p)
    <3>1. \A s \in Service : ~Uses(s, p)
      BY <1>2, NothingIn DEF Uses, Init
    <3> QED
      BY <3>1 DEF Holding, Unbound, Here, Init
  <2>2. /\ \A s \in Service : ~Written(s, p)
        /\ \A n \in Node : ~Passed(n, p) /\ ~Spread(n, p)
    BY <1>2, NothingIn DEF Written, Passed, Spread
  <2>3. PackageOK(p)
    <3>1. \A s \in Service : UseOnce(s, p)
      BY <1>2, NothingIn DEF UseOnce, Init
    <3> QED
      BY <1>2, <2>1, <2>2, <3>1, NothingIn DEF PackageOK
  <2>4. ASSUME NEW n \in Node PROVE CountOK(n, p)
    <3>1. Cardinality(Holding(n, p)) = 0 /\ reference[n][p] = 0
      BY <1>0, <2>1
    <3> QED
      BY <3>1 DEF CountOK
  <2> QED
    BY <2>3, <2>4
<1> QED
  BY <1>1, <1>4, <1>5, <1>6, <1>7, <1>8 DEF Inv

LEMMA StepKeepsInv == Inv /\ [Next]_vars => Inv'
<1> SUFFICES ASSUME Inv, [Next]_vars PROVE Inv'
  OBVIOUS
<1>1. CASE Next
  <2>1. /\ Shape /\ GroupsOK /\ AskedAll /\ MemberAll /\ NodeAll /\ EndAll
        /\ \A p \in Pub : PackageOK(p) /\ \A n \in Node : CountOK(n, p)
    BY DEF Inv, NodeAll, NodeOK, EndAll
  <2>2. Shape'
    BY <1>1, <2>1, ShapeStep
  <2>3. GroupsOK'
    BY <1>1, <2>1, GroupsStep
  <2>4. AskedAll' /\ MemberAll'
    BY <1>1, <2>1, AskedStep, MemberStep
  <2>5. NodeAll'
    BY <1>1, <2>1, NodeStep
  <2>6. ASSUME NEW p \in Pub PROVE PackageOK(p)' /\ \A n \in Node : CountOK(n, p)'
    BY <1>1, <2>1, PackageStep, CountStep
  <2> QED
    BY <2>2, <2>3, <2>4, <2>5, <2>6 DEF Inv, Pub
<1>2. CASE UNCHANGED vars
  <2>1. /\ alive' = alive /\ chan' = chan /\ inbox' = inbox /\ to' = to /\ channel' = channel
        /\ channel_n' = channel_n /\ remote' = remote /\ calling' = calling
        /\ reference' = reference /\ handling' = handling /\ lost' = lost /\ pubs' = pubs /\ published' = published
        /\ handed' = handed /\ crossed' = crossed
    BY <1>2 DEF vars
  <2>2. Shape' /\ GroupsOK'
    BY <2>1 DEF Inv, Shape, Typed, GroupsOK, GroupOK, Here, Set
  <2>3. AskedAll' /\ MemberAll'
    <3>1. ASSUME NEW s \in Service
          PROVE  /\ (Asks(s) <=> Asks(s)') /\ (Waits(s) <=> Waits(s)') /\ (Has(s) <=> Has(s)')
                 /\ (Leaves(s) <=> Leaves(s)') /\ (Subscribed(s) <=> Subscribed(s)')
                 /\ (Remotely(s) <=> Remotely(s)') /\ (Some(s) <=> Some(s)') /\ (Nobody(s) <=> Nobody(s)')
      BY <2>1 DEF Asks, Waits, Has, Leaves, Remotely, Some, Nobody, Subscribed, Told, ToOwner,
                  OfOwner, Says, In
    <3>2. ASSUME NEW s \in Service
          PROVE  /\ Told(s)' = Told(s)
                 /\ ToOwner(harbor[s])' = ToOwner(harbor[s]) /\ OfOwner(harbor[s])' = OfOwner(harbor[s])
      BY <2>1 DEF Told, ToOwner, OfOwner
    <3>3. \A s \in Service : AskedOnce(s)'
      <4> SUFFICES ASSUME NEW s \in Service PROVE AskedOnce(s)'
        OBVIOUS
      <4>1. /\ Once(Told(s), Says("SUB", s)) <=> Once(Told(s), Says("SUB", s))'
            /\ Once(inbox[s], Says("SUB", None)) <=> Once(inbox[s], Says("SUB", None))'
        BY <2>1, <3>2 DEF Once, Says
      <4>2. Once(ToOwner(harbor[s]), Says("SUBR", s)) <=> Once(ToOwner(harbor[s]), Says("SUBR", s))'
        BY <3>2 DEF Once, Says
      <4>3. /\ Once(OfOwner(harbor[s]), Says("some", s)) <=> Once(OfOwner(harbor[s]), Says("some", s))'
            /\ Once(OfOwner(harbor[s]), Says("none", s)) <=> Once(OfOwner(harbor[s]), Says("none", s))'
        BY <3>2 DEF Once, Says
      <4>4. AskedOnce(s) /\ chan'[s] = chan[s]
        BY <2>1 DEF Inv, AskedAll
      <4> QED
        BY <3>1, <4>1, <4>2, <4>3, <4>4 DEF AskedOnce
    <3>4. \A s \in Service : MemberOK(s)'
      BY <2>1, <3>1, <3>2 DEF Inv, MemberAll, MemberOK, Says, NotBehind, Set
    <3> QED
      BY <3>3, <3>4 DEF AskedAll, MemberAll
  <2>4. NodeAll'
    BY <2>1 DEF Inv, NodeAll, NodeOK, EndOK, RemoteOK, HandedOK, Some1, Left, InFlight, Here, ToOwner,
                OfOwner, Says, In, NotBehind, Set
  <2>5. ASSUME NEW p \in Pub PROVE PackageOK(p)' /\ \A n \in Node : CountOK(n, p)'
    <3>1. /\ TellsCalm(p) /\ UpsCalm(p) /\ DownsCalm(p) /\ BoxesCalm(p)
      BY <2>1 DEF TellsCalm, UpsCalm, DownsCalm, BoxesCalm, Calm, Told, ToOwner, OfOwner
    <3>2. PackageOK(p)'
      BY <2>1, <3>1, PackageQuiet DEF Inv
    <3>3. \A n \in Node : CountOK(n, p)'
      BY <2>1, CountSame DEF Inv
    <3> QED
      BY <3>2, <3>3
  <2> QED
    BY <2>2, <2>3, <2>4, <2>5 DEF Inv, Pub
<1> QED
  BY <1>1, <1>2

LEMMA InvHolds == Spec => []Inv
  BY InitIsInv, StepKeepsInv, PTL DEF Spec

(* multicastd.lua's counts are those of its groups, a group is never kept  *)
(* without a subscriber but by the owner, and every SUB that waits for the *)
(* owner has one request or one answer on its way.                         *)
THEOREM TypeCorrect == Spec => []TypeOK
<1>1. Inv => TypeOK
  <2> SUFFICES ASSUME Inv PROVE TypeOK
    OBVIOUS
  <2>1. Shape /\ GroupsOK /\ AskedAll
    BY DEF Inv
  <2>2. ASSUME NEW n \in Node
        PROVE  /\ channel[n] = None \/ channel[n] \subseteq {s \in Service : harbor[s] = n}
               /\ channel_n[n] = Cardinality(Set(channel[n]))
               /\ n # Owner => channel[n] # {}
    BY <2>1 DEF GroupsOK, GroupOK, Here
  <2>3. ASSUME NEW n \in Node, NEW s \in calling[n]
        PROVE  \E m \in {"SUBR", "some", "none"} :
                   \/ \E k \in DOMAIN to[Owner][n] : to[Owner][n][k] = Says(m, s)
                   \/ \E k \in DOMAIN to[n][Owner] : to[n][Owner][k] = Says(m, s)
    <3>1. s \in Service /\ harbor[s] = n
      BY <2>1, <2>3 DEF GroupsOK, Here
    <3>2. Remotely(s) \/ Some(s) \/ Nobody(s)
      BY <2>1, <2>3, <3>1 DEF AskedAll, AskedOnce, Waits
    <3> QED
      BY <3>1, <3>2 DEF Remotely, Some, Nobody, In, ToOwner, OfOwner
  <2>4. /\ remote = None \/ remote \subseteq Node \ {Owner}
        /\ chan \in [Service -> [channel : BOOLEAN, subscribe : BOOLEAN, waits : SUBSET {"SUB", "PUB"}]]
    BY <2>1 DEF Shape
  <2> QED
    BY <2>2, <2>3, <2>4 DEF TypeOK
<1> QED
  BY <1>1, InvHolds, PTL

(* lua-multicast.cc frees a package at its last mc.close: its count is     *)
(* that of the messages of the node's services that point to it, of the    *)
(* dispatch functions that deal with one, and of the references that are   *)
(* lost to an unpack that raises (multicast.lua:78) or to an exit.         *)
THEOREM PackagesAreCounted == Spec => []PackagesCounted
<1>1. Inv => PackagesCounted
  <2> SUFFICES ASSUME Inv, NEW n \in Node, NEW p \in Pub
               PROVE  reference[n][p] = Cardinality(Copies(n, p)) + Cardinality(Handling(n, p))
                                            + Cardinality(Lost(n, p))
    BY DEF PackagesCounted
  <2>1. PackageOK(p) /\ CountOK(n, p)
    BY DEF Inv
  <2> QED
    BY <2>1, HoldingsAre DEF Inv, CountOK
<1> QED
  BY <1>1, InvHolds, PTL

(* Who has the answer of multicastd.lua's SUB gets every publication of    *)
(* the channel from then on, unless the last subscriber of its node has    *)
(* left while another SUB of the node waited for the owner.                *)
THEOREM NothingIsMissed == Spec => []NothingMissed
<1>1. Inv => NothingMissed
  <2> SUFFICES ASSUME Inv, NEW s \in alive, channel[Owner] # None, chan[s].subscribe
               PROVE  /\ s \in Set(channel[harbor[s]])
                      /\ ~crossed \/ harbor[s] = Owner =>
                             handed[s] = published - InFlight(harbor[s])
    BY DEF NothingMissed
  <2>1. PICK n \in Node : n = harbor[s]
    BY MulticastAssumption DEF Inv, Shape
  <2>2. s \in Set(channel[n])
    BY <2>1 DEF Inv, Shape, MemberAll, MemberOK, Subscribed
  <2>3. HandedOK(n)
    BY DEF Inv, NodeAll, NodeOK
  <2> QED
    BY <2>1, <2>2, <2>3 DEF HandedOK
<1> QED
  BY <1>1, InvHolds, PTL
=============================================================================
