-------------------------- MODULE TimerWheelProofs --------------------------
(***************************************************************************)
(* Proofs about TimerWheel, for every size of a block and a level, any     *)
(* timeouts and delays, and any readings of the clock:                     *)
(*                                                                         *)
(*   FiledWhereLookedFor  a timeout is in the list that its expiry says;   *)
(*   WheelIsAlarms        the wheel implements the alarm clock of Alarms.  *)
(*                                                                         *)
(* A tick moves the place of those timeouts only whose block begins, all   *)
(* of which are in the one list that is filed again (BlockMoves); a list   *)
(* keeps the order of its requests, since before it moves nothing due in   *)
(* it can be filed anywhere else (ShiftedOK).                              *)
(***************************************************************************)
EXTENDS TimerWheel, SequenceTheorems, WellFoundedInduction, TLAPS

(* Division: quotient and remainder, and that nothing else is one.         *)
LEMMA DivMod ==
  ASSUME NEW a \in Nat, NEW s \in Nat \ {0}
  PROVE  a % s \in 0..s-1 /\ \E q \in Nat : a = s * q + (a % s)
<1>1. a % s \in 0..s-1
  OBVIOUS
<1>2. a \div s \in Int
  OBVIOUS
<1>3. a = s * (a \div s) + (a % s)
  OBVIOUS
<1>4. a \div s >= 0
  OBVIOUS
<1>5. a \div s \in Nat
  BY <1>2, <1>4
<1> QED
  BY <1>1, <1>3, <1>5

(* Only the remainder is below the divisor and leaves a multiple.          *)
LEMMA ModIs ==
  ASSUME NEW s \in Nat \ {0}, NEW q \in Nat, NEW r \in 0..s-1, NEW a, a = s * q + r
  PROVE  a % s = r
<1>0. a \in Nat
  <2>1. s * q \in Nat
    OBVIOUS
  <2> QED
    BY <2>1
<1>1. PICK p \in Nat : a = s * p + (a % s) /\ a % s \in 0..s-1
  BY <1>0, DivMod
<1>2. p = q
  <2> DEFINE m == a % s
  <2>0. m \in 0..s-1 /\ s * p + m = s * q + r
    BY <1>1
  <2> HIDE DEF m
  <2>1. CASE p >= q + 1
    <3>1. s * p >= s * (q + 1)
      BY <2>1
    <3>2. s * (q + 1) = s * q + s
      OBVIOUS
    <3>3. PICK x \in Int, y \in Int : x = s * p /\ y = s * q
      OBVIOUS
    <3> QED
      BY <2>0, <3>1, <3>2, <3>3
  <2>2. CASE q >= p + 1
    <3>1. s * q >= s * (p + 1)
      BY <2>2
    <3>2. s * (p + 1) = s * p + s
      OBVIOUS
    <3>3. PICK x \in Int, y \in Int : x = s * p /\ y = s * q
      OBVIOUS
    <3> QED
      BY <2>0, <3>1, <3>2, <3>3
  <2> QED
    BY <2>1, <2>2
<1> QED
  BY <1>1, <1>2

(* A set of naturals that is not empty has a least element.                *)
LEMMA LeastNat ==
    ASSUME NEW T, T \subseteq Nat, T # {}
    PROVE  \E x \in T : \A y \in T : x <= y
<1> DEFINE R == OpToRel(<, Nat)
<1>1. \A a, b \in Nat : <<a, b>> \in R <=> a < b
  BY DEF OpToRel
<1>2. IsWellFoundedOn(R, Nat)
  BY NatLessThanWellFounded, Zenon
<1> HIDE DEF R
<1>3. PICK x \in T : \A y \in T : ~(<<y, x>> \in R)
  BY <1>2, WFMin
<1>4. \A y \in T : ~(y < x)
  BY <1>1, <1>3
<1> QED
  BY <1>4

(* Induction over the naturals, for a set                                  *)
LEMMA SetInduction ==
    ASSUME NEW X, 0 \in X, \A n \in Nat : n \in X => n + 1 \in X
    PROVE  Nat \subseteq X
<1> SUFFICES ASSUME Nat \ X # {} PROVE FALSE
  OBVIOUS
<1>1. PICK x \in Nat \ X : \A y \in Nat \ X : x <= y
  BY LeastNat
<1>2. x # 0 /\ x - 1 \in Nat
  OBVIOUS
<1>3. x - 1 \in X
  BY <1>1, <1>2
<1> QED
  BY <1>1, <1>2, <1>3
-----------------------------------------------------------------------------
(* Lists                                                                   *)

(* What Append does to a list                                              *)
LEMMA AppendIs ==
    /\ <<>> \in Seq(Event)
    /\ \A l \in Seq(Event), e \in Event :
          /\ Append(l, e) \in Seq(Event)
          /\ Len(Append(l, e)) = Len(l) + 1
          /\ \A i \in 1..Len(l)+1 : Append(l, e)[i] = IF i <= Len(l) THEN l[i] ELSE e
<1>1. ASSUME NEW l \in Seq(Event), NEW e \in Event
      PROVE  /\ Append(l, e) \in Seq(Event)
             /\ Len(Append(l, e)) = Len(l) + 1
             /\ \A i \in 1..Len(l)+1 : Append(l, e)[i] = IF i <= Len(l) THEN l[i] ELSE e
  OBVIOUS
<1> QED
  BY <1>1

(* What holds of the empty list, and of a longer one if of a list, holds   *)
(* of all.                                                                 *)
LEMMA ListInduction ==
    ASSUME NEW X, <<>> \in X,
           \A l \in Seq(Event), e \in Event : l \in X => Append(l, e) \in X
    PROVE  \A l \in Seq(Event) : l \in X
<1> DEFINE Y == {n \in Nat : \A l \in Seq(Event) : Len(l) = n => l \in X}
<1>1. 0 \in Y
  <2>1. \A l \in Seq(Event) : Len(l) = 0 => l = <<>>
    OBVIOUS
  <2> QED
    BY <2>1
<1>2. \A n \in Nat : n \in Y => n + 1 \in Y
  <2> SUFFICES ASSUME NEW n \in Nat, n \in Y PROVE n + 1 \in Y
    OBVIOUS
  <2>1. n + 1 \in Nat
    OBVIOUS
  <2> SUFFICES ASSUME NEW l \in Seq(Event), Len(l) = n + 1 PROVE l \in X
    BY <2>1
  <2> DEFINE f == [k \in 1..n |-> l[k]]
  <2>2. f \in Seq(Event) /\ Len(f) = n
    <3>1. f \in [1..n -> Event]
      OBVIOUS
    <3> QED
      BY <3>1
  <2>3. PICK e \in Event : e = l[n + 1]
    OBVIOUS
  <2>4. /\ Append(f, e) \in Seq(Event) /\ Len(Append(f, e)) = n + 1
        /\ \A k \in 1..n+1 : Append(f, e)[k] = IF k <= n THEN f[k] ELSE e
    <3> HIDE DEF f
    <3> QED
      BY <2>2
  <2>5. \A k \in 1..n+1 : Append(f, e)[k] = l[k]
    BY <2>3, <2>4
  <2>6. Append(f, e) = l
    <3> HIDE DEF f
    <3> QED
      BY <2>4, <2>5, SeqEqual
  <2>7. f \in X
    <3> HIDE DEF f
    <3> QED
      BY <2>2
  <2> HIDE DEF f
  <2> QED
    BY <2>2, <2>6, <2>7
<1>3. Nat \subseteq Y
  <2> HIDE DEF Y
  <2> QED
    BY <1>1, <1>2, SetInduction
<1> QED
  BY <1>3

(* The elements of lists put together                                      *)
LEMMA ElementsOf ==
    /\ Elements(<<>>) = {}
    /\ \A e \in Event : <<e>> \in Seq(Event) /\ Elements(<<e>>) = {e}
    /\ \A l \in Seq(Event), e \in Event : Elements(Append(l, e)) = Elements(l) \cup {e}
    /\ \A l, m \in Seq(Event) : Elements(l \o m) = Elements(l) \cup Elements(m)
    /\ \A l \in Seq(Event) : /\ Elements(l) \subseteq Event
                             /\ Elements(l) = {} <=> l = <<>>
    /\ \A l \in Seq(Event) : l # <<>> => /\ Head(l) \in Event /\ Tail(l) \in Seq(Event)
                                         /\ Elements(l) = Elements(Tail(l)) \cup {Head(l)}
<1>1. Elements(<<>>) = {}
  BY DEF Elements
<1>2. \A e \in Event : <<e>> \in Seq(Event) /\ Elements(<<e>>) = {e}
  BY DEF Elements
<1>3. ASSUME NEW l \in Seq(Event), NEW m \in Seq(Event)
      PROVE  Elements(l \o m) = Elements(l) \cup Elements(m)
  <2>1. PICK a \in Nat, b \in Nat : a = Len(l) /\ b = Len(m)
    OBVIOUS
  <2>2. /\ DOMAIN (l \o m) = 1..a+b /\ DOMAIN l = 1..a /\ DOMAIN m = 1..b
        /\ \A k \in 1..a+b : (l \o m)[k] = IF k <= a THEN l[k] ELSE m[k - a]
    BY <2>1
  <2>3. ASSUME NEW x \in Elements(l \o m) PROVE x \in Elements(l) \cup Elements(m)
    <3>1. PICK k \in 1..a+b : x = (l \o m)[k]
      BY <2>2 DEF Elements
    <3>2. CASE k <= a
      BY <2>2, <3>1, <3>2 DEF Elements
    <3>3. CASE k > a
      <4>1. PICK j \in 1..b : j = k - a
        BY <3>3
      <4>2. x = m[j]
        BY <2>2, <3>1, <3>3, <4>1
      <4> QED
        BY <2>2, <4>2 DEF Elements
    <3> QED
      BY <3>2, <3>3
  <2>4. ASSUME NEW x \in Elements(l) PROVE x \in Elements(l \o m)
    <3>1. PICK k \in 1..a : x = l[k]
      BY <2>2 DEF Elements
    <3>2. k \in 1..a+b /\ x = (l \o m)[k]
      BY <2>2, <3>1
    <3> QED
      BY <2>2, <3>2 DEF Elements
  <2>5. ASSUME NEW x \in Elements(m) PROVE x \in Elements(l \o m)
    <3>1. PICK k \in 1..b : x = m[k]
      BY <2>2 DEF Elements
    <3>2. PICK j \in 1..a+b : j = k + a
      OBVIOUS
    <3>3. ~(j <= a) /\ j - a = k
      BY <3>2
    <3>4. x = (l \o m)[j]
      BY <2>2, <3>1, <3>3
    <3> QED
      BY <2>2, <3>4 DEF Elements
  <2> QED
    BY <2>3, <2>4, <2>5
<1>4. ASSUME NEW l \in Seq(Event), NEW e \in Event
      PROVE  Elements(Append(l, e)) = Elements(l) \cup {e}
  <2>1. Append(l, e) = l \o <<e>>
    OBVIOUS
  <2> QED
    BY <1>2, <1>3, <2>1
<1>5. ASSUME NEW l \in Seq(Event)
      PROVE  Elements(l) \subseteq Event /\ (Elements(l) = {} <=> l = <<>>)
  <2>1. Elements(l) \subseteq Event
    BY DEF Elements
  <2>2. l # <<>> => l[1] \in Elements(l)
    BY DEF Elements
  <2> QED
    BY <1>1, <2>1, <2>2
<1>6. ASSUME NEW l \in Seq(Event), l # <<>>
      PROVE  /\ Head(l) \in Event /\ Tail(l) \in Seq(Event)
             /\ Elements(l) = Elements(Tail(l)) \cup {Head(l)}
  <2>1. Head(l) \in Event /\ Tail(l) \in Seq(Event) /\ Len(Tail(l)) = Len(l) - 1
    BY <1>6
  <2>2. PICK h \in Event, r \in Seq(Event) : h = Head(l) /\ r = Tail(l)
    BY <2>1
  <2>3. /\ <<h>> \o r \in Seq(Event) /\ Len(<<h>> \o r) = Len(l)
        /\ \A k \in 1..Len(l) : (<<h>> \o r)[k] = l[k]
    <3>1. PICK v \in Seq(Event) : v = <<h>> /\ Len(v) = 1 /\ v[1] = h
      BY <1>2
    <3>2. /\ v \o r \in Seq(Event) /\ Len(v \o r) = Len(l)
          /\ \A k \in 1..Len(l) : (v \o r)[k] = IF k <= 1 THEN v[k] ELSE r[k - 1]
      BY <2>1, <2>2, <3>1
    <3>3. \A k \in 1..Len(l) : k > 1 => r[k - 1] = l[k]
      BY <2>1, <2>2
    <3>4. h = l[1]
      BY <1>6, <2>2
    <3> QED
      BY <3>1, <3>2, <3>3, <3>4
  <2>4. <<h>> \o r = l
    <3>1. PICK v \in Seq(Event) : v = <<h>> \o r
      BY <2>3
    <3>2. Len(v) = Len(l) /\ \A k \in 1..Len(l) : v[k] = l[k]
      BY <2>3, <3>1
    <3>3. v = l
      BY <3>2, SeqEqual
    <3> QED
      BY <3>1, <3>3
  <2>5. Elements(<<h>> \o r) = Elements(<<h>>) \cup Elements(r)
    BY <1>2, <1>3
  <2> QED
    BY <1>2, <2>1, <2>2, <2>4, <2>5
<1> QED
  BY <1>1, <1>2, <1>3, <1>4, <1>5, <1>6

(* The recursion of Among has a value, which is the one it says.           *)
LEMMA AmongIs ==
    ASSUME NEW S
    PROVE  /\ Among(<<>>, S) = <<>>
           /\ \A l \in Seq(Event), e \in Event :
                Among(Append(l, e), S) = IF e \in S THEN Append(Among(l, S), e) ELSE Among(l, S)
           /\ \A l \in Seq(Event) : Among(l, S) \in Seq(Event)
<1> DEFINE Step(f, l, i) == IF i = 0 THEN <<>>
                            ELSE IF l[i] \in S THEN Append(f[i-1], l[i]) ELSE f[i-1]
           Eq(f, l) == f = [i \in 0..Len(l) |-> Step(f, l, i)]
           Kept(l) == CHOOSE f : Eq(f, l)
<1>1. \A l : Among(l, S) = Kept(l)[Len(l)]
  BY DEF Among
<1>2. ASSUME NEW l \in Seq(Event)
      PROVE  \E f \in [0..Len(l) -> Seq(Event)] : Eq(f, l)
  <2> DEFINE X == {m \in Seq(Event) : \E f \in [0..Len(m) -> Seq(Event)] : Eq(f, m)}
  <2>1. <<>> \in X
    <3> DEFINE f == [i \in 0..0 |-> <<>>]
    <3>1. Len(<<>>) = 0 /\ <<>> \in Seq(Event)
      OBVIOUS
    <3>2. f \in [0..0 -> Seq(Event)]
      OBVIOUS
    <3>3. f = [i \in 0..0 |-> Step(f, <<>>, i)]
      OBVIOUS
    <3>4. Eq(f, <<>>) /\ f \in [0..Len(<<>>) -> Seq(Event)]
      BY <3>1, <3>2, <3>3
    <3> HIDE DEF f, Eq
    <3> QED
      BY <3>1, <3>4
  <2>2. ASSUME NEW m \in Seq(Event), NEW e \in Event, m \in X
        PROVE  Append(m, e) \in X
    <3>1. PICK f \in [0..Len(m) -> Seq(Event)] : Eq(f, m)
      <4> HIDE DEF Eq
      <4> QED
        BY <2>2
    <3>2. PICK n \in Nat : n = Len(m)
      OBVIOUS
    <3>3. PICK v \in Seq(Event) : v = Append(m, e)
      BY AppendIs
    <3>4. /\ Len(v) = n + 1 /\ v[n+1] = e
          /\ \A i \in 1..n : v[i] = m[i]
      BY <3>2, <3>3, AppendIs
    <3> DEFINE last == IF e \in S THEN Append(f[n], e) ELSE f[n]
               g == [i \in 0..n+1 |-> IF i = n + 1 THEN last ELSE f[i]]
    <3>5. last \in Seq(Event)
      <4>1. f[n] \in Seq(Event)
        <5>1. n \in 0..Len(m)
          BY <3>2
        <5>2. f \in [0..Len(m) -> Seq(Event)]
          BY <3>1
        <5> HIDE DEF Eq
        <5> QED
          BY <5>1, <5>2, Zenon
      <4> QED
        BY <4>1, AppendIs
    <3>6. g \in [0..n+1 -> Seq(Event)]
      <4> HIDE DEF last
      <4> QED
        BY <3>2, <3>5
    <3>7. \A i \in 0..n+1 : g[i] = Step(g, v, i)
      <4> TAKE i \in 0..n+1
      <4>1. CASE i = n + 1
        <5>1. g[i] = last /\ g[i-1] = f[n] /\ i # 0 /\ v[i] = e
          BY <3>4, <4>1
        <5> HIDE DEF g
        <5> QED
          BY <5>1
      <4>2. CASE i # n + 1
        <5>1. i \in 0..n /\ g[i] = f[i] /\ (i # 0 => g[i-1] = f[i-1] /\ v[i] = m[i])
          BY <3>4, <4>2
        <5>2. f[i] = Step(f, m, i)
          <6> HIDE DEF Step, g
          <6> QED
            BY <3>1, <3>2, <5>1
        <5> HIDE DEF g
        <5> QED
          BY <5>1, <5>2
      <4> QED
        BY <4>1, <4>2
    <3>8. Eq(g, v)
      <4> HIDE DEF Step, last
      <4> QED
        BY <3>4, <3>6, <3>7
    <3> HIDE DEF g, Eq
    <3> QED
      BY <3>3, <3>4, <3>6, <3>8
  <2>3. l \in X
    <3> HIDE DEF X
    <3> QED
      BY <2>1, <2>2, ListInduction
  <2> HIDE DEF Eq
  <2> QED
    BY <2>3
<1>3. ASSUME NEW l \in Seq(Event)
      PROVE  \A i \in 0..Len(l) : Kept(l)[i] = Step(Kept(l), l, i)
  <2>1. \E f : Eq(f, l)
    <3> HIDE DEF Eq
    <3> QED
      BY <1>2
  <2>2. Eq(Kept(l), l)
    <3> HIDE DEF Eq
    <3> QED
      BY <2>1
  <2> HIDE DEF Kept, Step
  <2> QED
    BY <2>2
<1> HIDE DEF Kept, Eq
(* The first places of a longer list are those of the shorter.             *)
<1>4. ASSUME NEW l \in Seq(Event), NEW e \in Event
      PROVE  \A i \in 0..Len(l) : Kept(Append(l, e))[i] = Kept(l)[i]
  <2>1. PICK n \in Nat : n = Len(l)
    OBVIOUS
  <2>2. PICK v \in Seq(Event) : v = Append(l, e)
    BY AppendIs
  <2>3. Len(v) = n + 1 /\ \A i \in 1..n : v[i] = l[i]
    BY <2>1, <2>2
  <2> DEFINE Y == {i \in Nat : i <= n => Kept(v)[i] = Kept(l)[i]}
  <2>4. \A i \in 0..n : /\ Kept(v)[i] = Step(Kept(v), v, i)
                        /\ Kept(l)[i] = Step(Kept(l), l, i)
    <3> HIDE DEF Step
    <3> QED
      BY <1>3, <2>1, <2>3
  <2>5. 0 \in Y
    BY <2>4
  <2>6. \A i \in Nat : i \in Y => i + 1 \in Y
    <3> SUFFICES ASSUME NEW i \in Nat, i \in Y PROVE i + 1 \in Y
      OBVIOUS
    <3>0. i + 1 \in Nat
      OBVIOUS
    <3> SUFFICES ASSUME i + 1 <= n PROVE Kept(v)[i+1] = Kept(l)[i+1]
      BY <3>0
    <3>1. Kept(v)[i] = Kept(l)[i]
      OBVIOUS
    <3>2. i + 1 \in 1..n /\ i + 1 \in 0..n /\ (i + 1) - 1 = i /\ i + 1 # 0
      OBVIOUS
    <3>3. v[i+1] = l[i+1]
      BY <2>3, <3>2
    <3>4. Kept(v)[i+1] = Step(Kept(v), v, i+1) /\ Kept(l)[i+1] = Step(Kept(l), l, i+1)
      <4> HIDE DEF Step, Y
      <4> QED
        BY <2>4, <3>2
    <3> HIDE DEF Y
    <3> QED
      BY <3>1, <3>2, <3>3, <3>4
  <2>7. Nat \subseteq Y
    <3> HIDE DEF Y
    <3> QED
      BY <2>5, <2>6, SetInduction
  <2> QED
    BY <2>1, <2>2, <2>7
<1>5. Among(<<>>, S) = <<>>
  <2>1. <<>> \in Seq(Event) /\ Len(<<>>) = 0 /\ 0 \in 0..0
    OBVIOUS
  <2>2. Kept(<<>>)[0] = Step(Kept(<<>>), <<>>, 0)
    <3> HIDE DEF Step
    <3> QED
      BY <1>3, <2>1
  <2> QED
    BY <1>1, <2>1, <2>2
<1>6. ASSUME NEW l \in Seq(Event), NEW e \in Event
      PROVE  Among(Append(l, e), S) = IF e \in S THEN Append(Among(l, S), e) ELSE Among(l, S)
  <2>1. PICK n \in Nat : n = Len(l)
    OBVIOUS
  <2>2. PICK v \in Seq(Event) : v = Append(l, e)
    BY AppendIs
  <2>3. Len(v) = n + 1 /\ v[n + 1] = e
    BY <2>1, <2>2
  <2>4. Kept(v)[n + 1] = Step(Kept(v), v, n + 1)
    <3>1. n + 1 \in 0..Len(v)
      BY <2>3
    <3> HIDE DEF Step
    <3> QED
      BY <1>3, <3>1
  <2>5. Kept(v)[n] = Kept(l)[n]
    BY <1>4, <2>1, <2>2
  <2>6. (n + 1) - 1 = n /\ n + 1 # 0
    OBVIOUS
  <2>7. Kept(v)[n + 1] = IF e \in S THEN Append(Kept(l)[n], e) ELSE Kept(l)[n]
    BY <2>3, <2>4, <2>5, <2>6
  <2> QED
    BY <1>1, <2>1, <2>2, <2>3, <2>7
<1>7. \A l \in Seq(Event) : Among(l, S) \in Seq(Event)
  <2> DEFINE X == {l \in Seq(Event) : Among(l, S) \in Seq(Event)}
  <2>1. <<>> \in X
    BY <1>5, AppendIs
  <2>2. \A l \in Seq(Event), e \in Event : l \in X => Append(l, e) \in X
    BY <1>6, AppendIs
  <2> HIDE DEF X
  <2>3. \A l \in Seq(Event) : l \in X
    BY <2>1, <2>2, ListInduction
  <2> QED
    BY <2>3 DEF X
<1> QED
  BY <1>5, <1>6, <1>7

(* Among keeps the members that are in S.                                  *)
LEMMA AmongElements ==
    ASSUME NEW S
    PROVE  \A l \in Seq(Event) : Elements(Among(l, S)) = Elements(l) \cap S
<1> DEFINE X == {l \in Seq(Event) : Elements(Among(l, S)) = Elements(l) \cap S}
<1>1. <<>> \in X
  BY AmongIs, ElementsOf
<1>2. ASSUME NEW l \in Seq(Event), NEW e \in Event, l \in X
      PROVE  Append(l, e) \in X
  <2>1. Among(l, S) \in Seq(Event) /\ Append(l, e) \in Seq(Event)
    BY AmongIs, AppendIs
  <2>2. Elements(Append(l, e)) = Elements(l) \cup {e}
    BY ElementsOf
  <2>3. CASE e \in S
    <3>1. Among(Append(l, e), S) = Append(Among(l, S), e)
      BY <2>3, AmongIs
    <3>2. Elements(Append(Among(l, S), e)) = Elements(Among(l, S)) \cup {e}
      BY <2>1, ElementsOf
    <3> QED
      BY <1>2, <2>1, <2>2, <2>3, <3>1, <3>2
  <2>4. CASE e \notin S
    <3>1. Among(Append(l, e), S) = Among(l, S)
      BY <2>4, AmongIs
    <3> QED
      BY <1>2, <2>1, <2>2, <2>4, <3>1
  <2> QED
    BY <2>3, <2>4
<1> HIDE DEF X
<1>3. \A l \in Seq(Event) : l \in X
  BY <1>1, <1>2, ListInduction
<1> QED
  BY <1>3 DEF X

(* Two sets that agree on a list choose the same from it.                  *)
LEMMA AmongSame ==
    ASSUME NEW S, NEW T
    PROVE  \A l \in Seq(Event) : Elements(l) \cap S = Elements(l) \cap T =>
                                    Among(l, S) = Among(l, T)
<1> DEFINE X == {l \in Seq(Event) : Elements(l) \cap S = Elements(l) \cap T =>
                                    Among(l, S) = Among(l, T)}
<1>1. <<>> \in X
  BY AmongIs
<1>2. ASSUME NEW l \in Seq(Event), NEW e \in Event, l \in X
      PROVE  Append(l, e) \in X
  <2> SUFFICES ASSUME Elements(Append(l, e)) \cap S = Elements(Append(l, e)) \cap T
               PROVE  Among(Append(l, e), S) = Among(Append(l, e), T)
    OBVIOUS
  <2>1. Elements(Append(l, e)) = Elements(l) \cup {e}
    BY ElementsOf
  <2>2. (e \in S <=> e \in T) /\ Elements(l) \cap S = Elements(l) \cap T
    BY <2>1
  <2>3. Among(l, S) = Among(l, T)
    BY <1>2, <2>2
  <2>4. Among(Append(l, e), S) = IF e \in S THEN Append(Among(l, S), e) ELSE Among(l, S)
    BY AmongIs
  <2>5. Among(Append(l, e), T) = IF e \in T THEN Append(Among(l, T), e) ELSE Among(l, T)
    BY AmongIs
  <2> QED
    BY <2>2, <2>3, <2>4, <2>5
<1> HIDE DEF X
<1>3. \A l \in Seq(Event) : l \in X
  BY <1>1, <1>2, ListInduction
<1> QED
  BY <1>3 DEF X

(* A list all in S, or all outside                                         *)
LEMMA AmongAll ==
    ASSUME NEW S
    PROVE  \A l \in Seq(Event) : /\ Elements(l) \subseteq S => Among(l, S) = l
                                 /\ Elements(l) \cap S = {} => Among(l, S) = <<>>
<1>1. ASSUME NEW l \in Seq(Event), Elements(l) \cap S = {}
      PROVE  Among(l, S) = <<>>
  <2>1. Among(l, S) \in Seq(Event)
    BY AmongIs
  <2>2. Elements(Among(l, S)) = {}
    BY <1>1, AmongElements
  <2> QED
    BY <2>1, <2>2, ElementsOf
<1> DEFINE X == {l \in Seq(Event) : Elements(l) \subseteq S => Among(l, S) = l}
<1>2. <<>> \in X
  BY AmongIs
<1>3. ASSUME NEW l \in Seq(Event), NEW e \in Event, l \in X
      PROVE  Append(l, e) \in X
  <2>1. Elements(Append(l, e)) = Elements(l) \cup {e}
    BY ElementsOf
  <2>2. Among(Append(l, e), S) = IF e \in S THEN Append(Among(l, S), e) ELSE Among(l, S)
    BY AmongIs
  <2> QED
    BY <1>3, <2>1, <2>2
<1> HIDE DEF X
<1>4. \A l \in Seq(Event) : l \in X
  BY <1>2, <1>3, ListInduction
<1> QED
  BY <1>1, <1>4 DEF X

(* Among goes through a concatenation ...                                  *)
LEMMA AmongConcat ==
    ASSUME NEW S, NEW l \in Seq(Event)
    PROVE  \A m \in Seq(Event) : Among(l \o m, S) = Among(l, S) \o Among(m, S)
<1> DEFINE X == {m \in Seq(Event) : Among(l \o m, S) = Among(l, S) \o Among(m, S)}
<1>0. PICK a \in Seq(Event) : a = Among(l, S)
  BY AmongIs
<1>1. <<>> \in X
  <2>1. l \o <<>> = l /\ a \o <<>> = a
    OBVIOUS
  <2> QED
    BY <1>0, <2>1, AmongIs
<1>2. ASSUME NEW m \in Seq(Event), NEW e \in Event, m \in X
      PROVE  Append(m, e) \in X
  <2>1. PICK b \in Seq(Event) : b = Among(m, S)
    BY AmongIs
  <2>2. l \o Append(m, e) = Append(l \o m, e) /\ a \o Append(b, e) = Append(a \o b, e)
    OBVIOUS
  <2>3. Among(Append(m, e), S) = IF e \in S THEN Append(b, e) ELSE b
    BY <2>1, AmongIs
  <2>4. l \o m \in Seq(Event)
    OBVIOUS
  <2>5. Among(Append(l \o m, e), S) = IF e \in S THEN Append(Among(l \o m, S), e)
                                                 ELSE Among(l \o m, S)
    BY <2>4, AmongIs
  <2>6. Among(l \o m, S) = a \o b
    BY <1>0, <1>2, <2>1
  <2> QED
    BY <1>0, <2>2, <2>3, <2>5, <2>6, AppendIs
<1> HIDE DEF X
<1>3. \A m \in Seq(Event) : m \in X
  BY <1>1, <1>2, ListInduction
<1> QED
  BY <1>3 DEF X

(* ... and twice is once for both sets.                                    *)
LEMMA AmongTwice ==
    ASSUME NEW S, NEW T
    PROVE  \A l \in Seq(Event) : Among(Among(l, S), T) = Among(l, S \cap T)
<1> DEFINE X == {l \in Seq(Event) : Among(Among(l, S), T) = Among(l, S \cap T)}
<1>1. <<>> \in X
  BY AmongIs
<1>2. ASSUME NEW l \in Seq(Event), NEW e \in Event, l \in X
      PROVE  Append(l, e) \in X
  <2>1. PICK b \in Seq(Event) : b = Among(l, S)
    BY AmongIs
  <2>2. Among(Append(l, e), S) = IF e \in S THEN Append(b, e) ELSE b
    BY <2>1, AmongIs
  <2>3. Among(Append(b, e), T) = IF e \in T THEN Append(Among(b, T), e) ELSE Among(b, T)
    BY AmongIs
  <2>4. Among(Append(l, e), S \cap T) = IF e \in S \cap T THEN Append(Among(l, S \cap T), e)
                                                       ELSE Among(l, S \cap T)
    BY AmongIs
  <2> QED
    BY <1>2, <2>1, <2>2, <2>3, <2>4, AppendIs
<1> HIDE DEF X
<1>3. \A l \in Seq(Event) : l \in X
  BY <1>1, <1>2, ListInduction
<1> QED
  BY <1>3 DEF X
-----------------------------------------------------------------------------
(* Blocks of ticks                                                         *)

(* The quotient is a natural number ...                                    *)
LEMMA DivType ==
    ASSUME NEW a \in Nat, NEW s \in Nat \ {0}
    PROVE  a \div s \in Nat /\ a % s \in 0..s-1 /\ a = s * (a \div s) + (a % s)
<1>1. a % s \in 0..s-1
  OBVIOUS
<1>2. a \div s \in Int
  OBVIOUS
<1>3. a = s * (a \div s) + (a % s)
  OBVIOUS
<1>4. a \div s >= 0
  OBVIOUS
<1> QED
  BY <1>1, <1>2, <1>3, <1>4

(* ... and is told by what it leaves.                                      *)
LEMMA DivIs ==
    ASSUME NEW s \in Nat \ {0}, NEW q \in Nat, NEW r \in 0..s-1, NEW a, a = s * q + r
    PROVE  a \div s = q /\ a % s = r
<1>0. a \in Nat
  <2>1. s * q \in Nat
    OBVIOUS
  <2> QED
    BY <2>1
<1>1. PICK p \in Nat : p = a \div s
  BY <1>0, DivType
<1>2. a % s = r
  BY ModIs
<1>3. s * p = s * q
  <2>1. a = s * p + r
    BY <1>0, <1>1, <1>2, DivType
  <2>2. PICK y \in Int, z \in Int : y = s * p /\ z = s * q
    OBVIOUS
  <2> QED
    BY <2>1, <2>2
<1>4. p = q
  <2>1. CASE p >= q + 1
    <3>1. s * p >= s * (q + 1)
      BY <2>1
    <3>2. s * (q + 1) = s * q + s
      OBVIOUS
    <3>3. PICK x \in Int, y \in Int : x = s * p /\ y = s * q
      OBVIOUS
    <3> QED
      BY <1>3, <3>1, <3>2, <3>3
  <2>2. CASE q >= p + 1
    <3>1. s * q >= s * (p + 1)
      BY <2>2
    <3>2. s * (p + 1) = s * p + s
      OBVIOUS
    <3>3. PICK x \in Int, y \in Int : x = s * p /\ y = s * q
      OBVIOUS
    <3> QED
      BY <1>3, <3>1, <3>2, <3>3
  <2> QED
    BY <2>1, <2>2
<1> QED
  BY <1>1, <1>2, <1>4

(* A block of s * l ticks is made of l blocks of s.                        *)
LEMMA DivNests ==
    ASSUME NEW s \in Nat \ {0}, NEW l \in Nat \ {0}, NEW a \in Nat
    PROVE  /\ a \div (s * l) = (a \div s) \div l
           /\ a % (s * l) = s * ((a \div s) % l) + (a % s)
<1>1. PICK q \in Nat, r \in 0..s-1 : q = a \div s /\ r = a % s /\ a = s * q + r
  BY DivType
<1>2. PICK p \in Nat, m \in 0..l-1 : p = q \div l /\ m = q % l /\ q = l * p + m
  BY DivType
<1>3. s * l \in Nat \ {0}
  OBVIOUS
<1>4. PICK w \in Nat : w = s * m + r
  <2>1. s * m \in Nat
    OBVIOUS
  <2> QED
    BY <2>1
<1>5. w < s * l
  <2>1. m + 1 <= l
    OBVIOUS
  <2>2. s * (m + 1) <= s * l
    <3>1. PICK d \in Nat : l = (m + 1) + d
      <4>1. l - (m + 1) \in Nat
        BY <2>1
      <4> QED
        BY <4>1
    <3>2. s * l = s * (m + 1) + s * d
      BY <3>1
    <3>3. s * d \in Nat /\ s * (m + 1) \in Nat
      OBVIOUS
    <3> QED
      BY <3>2, <3>3
  <2>3. s * (m + 1) = s * m + s
    OBVIOUS
  <2>4. PICK y \in Int, z \in Int : y = s * m /\ z = s * l
    OBVIOUS
  <2> QED
    BY <1>4, <2>2, <2>3, <2>4
<1>6. a = (s * l) * p + w
  <2>1. s * q = s * (l * p) + s * m
    BY <1>2
  <2>2. s * (l * p) = (s * l) * p
    OBVIOUS
  <2>3. PICK y \in Int, z \in Int, u \in Int, v \in Int :
            y = (s * l) * p /\ z = s * m /\ u = s * q /\ v = s * (l * p)
    OBVIOUS
  <2>4. u = v + z /\ v = y
    BY <2>1, <2>2, <2>3
  <2>5. a = u + r /\ w = z + r
    BY <1>1, <1>4, <2>3
  <2>6. a = y + w
    BY <2>4, <2>5
  <2> QED
    BY <2>3, <2>6
<1>7. a \div (s * l) = p /\ a % (s * l) = w
  <2>1. w \in 0..(s * l)-1
    BY <1>3, <1>5
  <2> QED
    BY <1>3, <1>6, <2>1, DivIs
<1> QED
  BY <1>1, <1>2, <1>4, <1>7

(* The next tick begins a block if it is a multiple of the block's length, *)
(* and the tick before it is then the last of its own.                     *)
LEMMA DivSteps ==
    ASSUME NEW s \in Nat \ {0}, NEW a \in Nat
    PROVE  /\ (a + 1) % s = 0 => /\ (a + 1) \div s = (a \div s) + 1
                                 /\ \A x \in Nat : x \div s = a \div s => x <= a
           /\ (a + 1) % s # 0 => (a + 1) \div s = a \div s
<1>1. PICK q \in Nat, r \in 0..s-1 : q = a \div s /\ r = a % s /\ a = s * q + r
  BY DivType
<1>2. CASE r = s - 1
  <2>1. a + 1 = s * (q + 1) + 0
    <3>1. s * (q + 1) = s * q + s
      OBVIOUS
    <3>2. PICK y \in Int : y = s * q
      OBVIOUS
    <3> QED
      BY <1>1, <1>2, <3>1, <3>2
  <2>2. (a + 1) \div s = q + 1 /\ (a + 1) % s = 0
    <3>1. PICK p \in Nat, b \in Nat, z \in 0..s-1 : p = q + 1 /\ b = a + 1 /\ z = 0
      OBVIOUS
    <3>2. b = s * p + z
      BY <2>1, <3>1
    <3>3. b \div s = p /\ b % s = z
      BY <3>2, DivIs
    <3> QED
      BY <3>1, <3>3
  <2>3. ASSUME NEW x \in Nat, x \div s = a \div s PROVE x <= a
    <3>1. PICK m \in 0..s-1 : x = s * q + m
      <4>1. x % s \in 0..s-1 /\ x = s * (x \div s) + (x % s)
        BY DivType
      <4>2. x \div s = q
        BY <1>1, <2>3
      <4> QED
        BY <4>1, <4>2
    <3>2. PICK y \in Int : y = s * q
      OBVIOUS
    <3> QED
      BY <1>1, <1>2, <3>1, <3>2
  <2> QED
    BY <1>1, <2>2, <2>3
<1>3. CASE r # s - 1
  <2>1. a + 1 = s * q + (r + 1) /\ r + 1 \in 0..s-1 /\ r + 1 # 0
    <3>1. PICK y \in Int : y = s * q
      OBVIOUS
    <3> QED
      BY <1>1, <1>3, <3>1
  <2>2. (a + 1) \div s = q /\ (a + 1) % s = r + 1
    <3>1. PICK b \in Nat, z \in 0..s-1 : z = r + 1 /\ b = a + 1
      BY <2>1
    <3>2. b = s * q + z
      BY <2>1, <3>1
    <3>3. b \div s = q /\ b % s = z
      BY <3>2, DivIs
    <3> QED
      BY <3>1, <3>3
  <2> QED
    BY <1>1, <2>1, <2>2
<1> QED
  BY <1>2, <1>3

(* Two ticks of a block are less than its length apart.                    *)
LEMMA DivNear ==
    ASSUME NEW s \in Nat \ {0}, NEW a \in Nat, NEW b \in Nat, a \div s = b \div s
    PROVE  a - b < s
<1>1. PICK q \in Nat, r \in 0..s-1 : q = a \div s /\ a = s * q + r
  BY DivType
<1>2. PICK m \in 0..s-1 : b = s * q + m
  <2>1. b % s \in 0..s-1 /\ b = s * (b \div s) + (b % s)
    BY DivType
  <2>2. b \div s = q
    BY <1>1
  <2> QED
    BY <2>1, <2>2
<1>3. PICK y \in Int : y = s * q
  OBVIOUS
<1> QED
  BY <1>1, <1>2, <1>3

(* The spans, each a multiple of the one before                            *)
LEMMA SpanIs ==
    /\ \A j \in 0..4 : Span[j] \in Nat \ {0}
    /\ Span[0] = TIME_NEAR /\ Ticks = Span[4]
    /\ \A i \in Level : Span[i + 1] = Span[i] * TIME_LEVEL
    /\ \A j \in 0..3 : Span[j] <= Span[3]
    /\ Span[3] < Ticks
<1> DEFINE L == TIME_LEVEL
<1>0. TIME_NEAR \in Nat \ {0} /\ L \in Nat \ {0, 1}
  BY WheelAssumption
<1>1. PICK a \in Nat \ {0}, b \in Nat \ {0}, c \in Nat \ {0} :
          a = L * L /\ b = L * L * L /\ c = L * L * L * L
  BY <1>0
<1>2. /\ Span[0] = TIME_NEAR * 1 /\ Span[1] = TIME_NEAR * L /\ Span[2] = TIME_NEAR * (L * L)
      /\ Span[3] = TIME_NEAR * (L * L * L) /\ Span[4] = TIME_NEAR * (L * L * L * L)
  <2> HIDE <1>0
  <2> QED
    BY DEF Span
<1>3. /\ Span[1] = Span[0] * L /\ Span[2] = Span[1] * L /\ Span[3] = Span[2] * L
      /\ Span[4] = Span[3] * L
  BY <1>0, <1>2
<1>4. Span[0] = TIME_NEAR
  BY <1>0, <1>2
<1> HIDE DEF L
<1>5. \A s \in Nat \ {0} : s * L \in Nat \ {0} /\ s < s * L
  <2> SUFFICES ASSUME NEW s \in Nat \ {0} PROVE s * L \in Nat \ {0} /\ s < s * L
    OBVIOUS
  <2>1. PICK d \in Nat : L = d + 2
    <3>1. L - 2 \in Nat /\ L = (L - 2) + 2
      BY <1>0
    <3> QED
      BY <3>1
  <2>2. s * (d + 2) = s * d + s + s /\ s * d \in Nat
    OBVIOUS
  <2> QED
    BY <2>1, <2>2
<1>6. /\ Span[0] \in Nat \ {0} /\ Span[1] \in Nat \ {0} /\ Span[2] \in Nat \ {0}
      /\ Span[3] \in Nat \ {0} /\ Span[4] \in Nat \ {0}
      /\ Span[0] < Span[1] /\ Span[1] < Span[2] /\ Span[2] < Span[3] /\ Span[3] < Span[4]
  <2>1. Span[0] \in Nat \ {0}
    BY <1>0, <1>4
  <2>2. Span[1] \in Nat \ {0} /\ Span[0] < Span[1]
    BY <1>3, <1>5, <2>1
  <2>3. Span[2] \in Nat \ {0} /\ Span[1] < Span[2]
    BY <1>3, <1>5, <2>2
  <2>4. Span[3] \in Nat \ {0} /\ Span[2] < Span[3]
    BY <1>3, <1>5, <2>3
  <2>5. Span[4] \in Nat \ {0} /\ Span[3] < Span[4]
    BY <1>3, <1>5, <2>4
  <2> QED
    BY <2>1, <2>2, <2>3, <2>4, <2>5
<1>7. \A j \in 0..4 : j = 0 \/ j = 1 \/ j = 2 \/ j = 3 \/ j = 4
  OBVIOUS
<1>8. \A j \in 0..3 : j = 0 \/ j = 1 \/ j = 2 \/ j = 3
  OBVIOUS
<1>9. \A i \in Level : Span[i + 1] = Span[i] * L
  BY <1>3, <1>8 DEF Level
<1>10. \A j \in 0..3 : Span[j] <= Span[3]
  BY <1>6, <1>8
<1>11. \A j \in 0..4 : Span[j] \in Nat \ {0}
  BY <1>6, <1>7
<1> QED
  BY <1>4, <1>6, <1>9, <1>10, <1>11 DEF Ticks, L
-----------------------------------------------------------------------------
(* Places: level -1 is near, and its blocks are the ticks themselves.      *)

Levels == -1..3
Block(j, x) == IF j = -1 THEN x ELSE x \div Span[j]
Same(j, x, y) == Block(j, x) = Block(j, y)
Home(x, now) == IF IsNear(x, now) THEN -1 ELSE LevelOf(x, now)
Cell(i, x) == IF i = -1 THEN NearIndex(x) ELSE Index(i, x)
Cells(i) == IF i = -1 THEN 0..TIME_NEAR-1 ELSE 0..TIME_LEVEL-1

(* What of a level's place the block of the next level leaves open         *)
LEMMA BlockIs ==
    /\ \A x \in Nat, j \in -1..4 : Block(j, x) \in Nat
    /\ \A x \in 0..Ticks-1 : Block(4, x) = 0
    /\ \A x, y \in Nat, j \in Levels : Same(j, x, y) => Same(j + 1, x, y) /\ Cell(j, x) = Cell(j, y)
    /\ \A x, y \in Nat, j \in Levels :
          Same(j + 1, x, y) /\ Cell(j, x) = Cell(j, y) => Same(j, x, y)
    /\ \A x \in Nat, i \in Levels : Cell(i, x) \in Cells(i)
<1>0. TIME_NEAR \in Nat \ {0} /\ TIME_LEVEL \in Nat \ {0} /\ -1 \in Int
  BY WheelAssumption
<1>1. ASSUME NEW x \in Nat, NEW j \in -1..4 PROVE Block(j, x) \in Nat
  <2>1. CASE j = -1
    BY <2>1 DEF Block
  <2>2. CASE j \in 0..4
    <3>1. Span[j] \in Nat \ {0} /\ j # -1
      BY <2>2, SpanIs
    <3> QED
      BY <3>1, DivType DEF Block
  <2> QED
    BY <2>1, <2>2
<1>2. ASSUME NEW x \in 0..Ticks-1 PROVE Block(4, x) = 0
  <2>1. PICK s \in Nat \ {0} : s = Span[4] /\ s = Ticks
    BY SpanIs
  <2>2. x \in 0..s-1 /\ x = s * 0 + x /\ 0 \in Nat
    BY <2>1
  <2>3. x \div s = 0
    BY <2>2, DivIs
  <2> QED
    BY <2>1, <2>3 DEF Block
<1> DEFINE Width(i) == IF i = -1 THEN TIME_NEAR ELSE TIME_LEVEL
<1>3. ASSUME NEW i \in Levels
      PROVE  /\ Width(i) \in Nat \ {0} /\ Cells(i) = 0..Width(i)-1
             /\ \A x \in Nat : /\ Block(i + 1, x) = Block(i, x) \div Width(i)
                               /\ Cell(i, x) = Block(i, x) % Width(i)
  <2>1. CASE i = -1
    <3>1. i + 1 = 0 /\ Span[0] = TIME_NEAR /\ 0 # -1
      BY <2>1, SpanIs
    <3> QED
      BY <1>0, <2>1, <3>1 DEF Block, Cell, Cells, NearIndex
  <2>2. CASE i \in Level
    <3>1. i # -1 /\ i + 1 # -1 /\ i \in 0..4
      BY <2>2 DEF Level
    <3>2. Span[i] \in Nat \ {0} /\ Span[i + 1] = Span[i] * TIME_LEVEL
      BY <2>2, <3>1, SpanIs
    <3>3. \A x \in Nat : x \div (Span[i] * TIME_LEVEL) = (x \div Span[i]) \div TIME_LEVEL
      BY <1>0, <3>2, DivNests
    <3> QED
      BY <1>0, <3>1, <3>2, <3>3 DEF Block, Cell, Cells, Index
  <2> QED
    BY <2>1, <2>2 DEF Levels, Level
<1> HIDE DEF Width
<1>4. \A x, y \in Nat, j \in Levels : Same(j, x, y) => Same(j + 1, x, y) /\ Cell(j, x) = Cell(j, y)
  BY <1>3 DEF Same
<1>5. ASSUME NEW x \in Nat, NEW y \in Nat, NEW j \in Levels,
             Same(j + 1, x, y), Cell(j, x) = Cell(j, y)
      PROVE  Same(j, x, y)
  <2>0. j \in -1..4
    BY DEF Levels
  <2>1. PICK a \in Nat, b \in Nat, s \in Nat \ {0} :
            a = Block(j, x) /\ b = Block(j, y) /\ s = Width(j)
    BY <1>1, <1>3, <2>0
  <2>2. a \div s = b \div s /\ a % s = b % s
    BY <1>3, <1>5, <2>1 DEF Same
  <2>3. a = s * (a \div s) + (a % s) /\ b = s * (b \div s) + (b % s)
    BY DivType
  <2> QED
    BY <2>1, <2>2, <2>3 DEF Same
<1>6. \A x \in Nat, i \in Levels : Cell(i, x) \in Cells(i)
  <2> SUFFICES ASSUME NEW x \in Nat, NEW i \in Levels PROVE Cell(i, x) \in Cells(i)
    OBVIOUS
  <2>1. Block(i, x) \in Nat
    BY <1>1 DEF Levels
  <2> QED
    BY <1>3, <2>1, DivType
<1> QED
  BY <1>1, <1>2, <1>4, <1>5, <1>6

(* Ticks that share a block share those around it.                         *)
LEMMA SameUpward ==
    ASSUME NEW x \in Nat, NEW y \in Nat, NEW i \in -1..4, NEW j \in -1..4,
           i <= j, Same(i, x, y)
    PROVE  Same(j, x, y)
<1> DEFINE Y == {n \in Nat : i + n <= 4 => Same(i + n, x, y)}
<1>1. 0 \in Y
  <2>1. i + 0 = i
    OBVIOUS
  <2> QED
    BY <2>1
<1>2. \A n \in Nat : n \in Y => n + 1 \in Y
  <2> SUFFICES ASSUME NEW n \in Nat, n \in Y PROVE n + 1 \in Y
    OBVIOUS
  <2>0. n + 1 \in Nat
    OBVIOUS
  <2> SUFFICES ASSUME i + (n + 1) <= 4 PROVE Same(i + (n + 1), x, y)
    BY <2>0
  <2>1. i + n \in Levels /\ i + n <= 4 /\ (i + n) + 1 = i + (n + 1)
    BY DEF Levels
  <2>2. Same(i + n, x, y)
    BY <2>1
  <2>3. Same((i + n) + 1, x, y)
    <3> HIDE DEF Y
    <3> QED
      BY <2>1, <2>2, BlockIs
  <2> QED
    BY <2>1, <2>3
<1>3. Nat \subseteq Y
  <2> HIDE DEF Y
  <2> QED
    BY <1>1, <1>2, SetInduction
<1>4. PICK n \in Nat : n = j - i
  OBVIOUS
<1>5. i + n = j
  BY <1>4
<1> QED
  BY <1>3, <1>5

(* The level of a timeout is the one whose block it is not in, and whose   *)
(* next level's it is.                                                     *)
LEMMA HomeIs ==
    ASSUME NEW x \in 0..Ticks-1, NEW now \in 0..Ticks-1
    PROVE  /\ Home(x, now) \in Levels
           /\ \A i \in Levels : Home(x, now) = i <=> /\ Same(i + 1, x, now)
                                                     /\ i = -1 \/ ~Same(i, x, now)
<1>0. x \in Nat /\ now \in Nat
  <2>1. Ticks \in Nat
    BY SpanIs
  <2> QED
    BY <2>1
<1>1. IsNear(x, now) <=> Same(0, x, now)
  BY SpanIs DEF IsNear, SameBlock, Same, Block
<1>2. \A j \in 0..4 : SameBlock(x, now, Span[j]) <=> Same(j, x, now)
  BY DEF SameBlock, Same, Block
<1>3. Same(4, x, now)
  BY BlockIs DEF Same
<1>4. \A i, j \in -1..4 : i <= j /\ Same(i, x, now) => Same(j, x, now)
  BY <1>0, SameUpward
<1> DEFINE IsLevel(i) == /\ i = 3 \/ SameBlock(x, now, Span[i + 1])
                         /\ \A j \in Level : j < i => ~SameBlock(x, now, Span[j + 1])
<1>5. ASSUME ~Same(0, x, now), NEW i \in Level
      PROVE  IsLevel(i) <=> Same(i + 1, x, now) /\ ~Same(i, x, now)
  <2>1. ASSUME IsLevel(i) PROVE Same(i + 1, x, now) /\ ~Same(i, x, now)
    <3>1. Same(i + 1, x, now)
      <4>1. CASE i = 3
        BY <1>3, <4>1
      <4>2. CASE i # 3
        <5>1. i + 1 \in 0..4
          BY DEF Level
        <5> QED
          BY <1>2, <2>1, <4>2, <5>1
      <4> QED
        BY <4>1, <4>2
    <3>2. ~Same(i, x, now)
      <4>1. CASE i = 0
        BY <1>5, <4>1
      <4>2. CASE i # 0
        <5>1. PICK j \in Level : j = i - 1
          BY <4>2 DEF Level
        <5>2. j < i /\ j + 1 = i /\ i \in 0..4
          BY <5>1 DEF Level
        <5>3. ~SameBlock(x, now, Span[j + 1])
          BY <2>1, <5>2
        <5> QED
          BY <1>2, <5>2, <5>3
      <4> QED
        BY <4>1, <4>2
    <3> QED
      BY <3>1, <3>2
  <2>2. ASSUME Same(i + 1, x, now), ~Same(i, x, now) PROVE IsLevel(i)
    <3>1. i + 1 \in 0..4 /\ i \in -1..4
      BY DEF Level
    <3>2. ASSUME NEW j \in Level, j < i PROVE ~SameBlock(x, now, Span[j + 1])
      <4>1. j + 1 \in 0..4 /\ j + 1 \in -1..4 /\ j + 1 <= i
        BY <3>2 DEF Level
      <4>2. ~Same(j + 1, x, now)
        BY <1>4, <2>2, <3>1, <4>1
      <4> QED
        BY <1>2, <4>1, <4>2
    <3> QED
      BY <1>2, <2>2, <3>1, <3>2
  <2> QED
    BY <2>1, <2>2
<1>6. ASSUME ~Same(0, x, now)
      PROVE  /\ LevelOf(x, now) \in Level
             /\ Same(LevelOf(x, now) + 1, x, now) /\ ~Same(LevelOf(x, now), x, now)
  <2>1. \E i \in Level : Same(i + 1, x, now) /\ ~Same(i, x, now)
    <3>1. 0 \in Level /\ 1 \in Level /\ 2 \in Level /\ 3 \in Level
          /\ 0 + 1 = 1 /\ 1 + 1 = 2 /\ 2 + 1 = 3 /\ 3 + 1 = 4
      BY DEF Level
    <3>2. CASE ~Same(3, x, now)
      BY <1>3, <3>1, <3>2
    <3>3. CASE Same(3, x, now) /\ ~Same(2, x, now)
      BY <3>1, <3>3
    <3>4. CASE Same(2, x, now) /\ ~Same(1, x, now)
      BY <3>1, <3>4
    <3>5. CASE Same(1, x, now)
      BY <1>6, <3>1, <3>5
    <3> QED
      BY <3>2, <3>3, <3>4, <3>5
  <2>2. \E i \in Level : IsLevel(i)
    <3> HIDE DEF IsLevel
    <3> QED
      BY <1>5, <1>6, <2>1
  <2>3. LevelOf(x, now) = CHOOSE i \in Level : IsLevel(i)
    BY DEF LevelOf
  <2> HIDE DEF IsLevel
  <2>4. LevelOf(x, now) \in Level /\ IsLevel(LevelOf(x, now))
    BY <2>2, <2>3
  <2> QED
    BY <1>5, <1>6, <2>4
<1> HIDE DEF IsLevel
<1>7. CASE Same(0, x, now)
  <2>1. Home(x, now) = -1
    BY <1>1, <1>7 DEF Home
  <2>2. -1 \in Levels /\ (-1) + 1 = 0
    BY DEF Levels
  <2>3. ASSUME NEW i \in Levels, i # -1 PROVE Same(i, x, now)
    <3>1. i \in -1..4 /\ 0 \in -1..4 /\ 0 <= i
      BY <2>3 DEF Levels
    <3> QED
      BY <1>4, <1>7, <3>1
  <2> QED
    BY <1>7, <2>1, <2>2, <2>3
<1>8. CASE ~Same(0, x, now)
  <2>1. PICK h \in Level : h = Home(x, now) /\ Same(h + 1, x, now) /\ ~Same(h, x, now)
    BY <1>1, <1>6, <1>8 DEF Home
  <2>2. h \in Levels /\ h # -1
    BY DEF Level, Levels
  <2>3. ASSUME NEW i \in Levels, Same(i + 1, x, now), i = -1 \/ ~Same(i, x, now)
        PROVE  i = h
    <3>1. i # -1 /\ i \in Level
      <4>1. i = -1 => i + 1 = 0
        OBVIOUS
      <4> QED
        BY <1>8, <2>3, <4>1 DEF Level, Levels
    <3>2. ~(h + 1 <= i) /\ ~(i + 1 <= h)
      <4>1. /\ i \in -1..4 /\ i + 1 \in -1..4 /\ h \in -1..4 /\ h + 1 \in -1..4
        BY <3>1 DEF Level
      <4> QED
        BY <1>4, <2>1, <2>3, <3>1, <4>1
    <3> QED
      BY <3>1, <3>2 DEF Level
  <2> QED
    BY <2>1, <2>2, <2>3
<1> QED
  BY <1>7, <1>8
-----------------------------------------------------------------------------
(* The next tick                                                           *)

(* What is still to come at tick now, the counter's wrap included          *)
Ahead(x, now) == x > now \/ now - x > Span[3]

Begins(i, ct) == ct % Span[i] = 0 /\ Index(i, ct) # 0

(* Which blocks another tick begins                                        *)
LEMMA BlocksStep ==
    ASSUME NEW now \in 0..Ticks-1, NEW ct \in 0..Ticks-1, ct = now + 1
    PROVE  /\ \A j \in 0..4 : /\ ct % Span[j] # 0 => Same(j, ct, now)
                              /\ ct % Span[j] = 0 =>
                                    /\ ~Same(j, ct, now)
                                    /\ \A x \in Nat : Same(j, x, now) => x <= now
           /\ \A i \in Level : ct % Span[i + 1] = 0 <=> ct % Span[i] = 0 /\ Index(i, ct) = 0
           /\ ct % Span[4] # 0
<1>0. now \in Nat /\ ct \in Nat /\ TIME_LEVEL \in Nat \ {0}
  <2>1. Ticks \in Nat
    BY SpanIs
  <2> QED
    BY <2>1, WheelAssumption
<1>1. ASSUME NEW j \in 0..4
      PROVE  /\ ct % Span[j] # 0 => Same(j, ct, now)
             /\ ct % Span[j] = 0 => /\ ~Same(j, ct, now)
                                    /\ \A x \in Nat : Same(j, x, now) => x <= now
  <2>1. PICK s \in Nat \ {0} : s = Span[j]
    BY SpanIs
  <2>2. j # -1
    OBVIOUS
  <2>3. now \div s \in Nat
    BY <1>0, DivType
  <2>4. /\ ct % s = 0 => /\ ct \div s = (now \div s) + 1
                         /\ \A x \in Nat : x \div s = now \div s => x <= now
        /\ ct % s # 0 => ct \div s = now \div s
    BY <1>0, DivSteps
  <2> QED
    BY <2>1, <2>2, <2>3, <2>4 DEF Same, Block
<1>2. ASSUME NEW i \in Level
      PROVE  ct % Span[i + 1] = 0 <=> ct % Span[i] = 0 /\ Index(i, ct) = 0
  <2>1. PICK s \in Nat \ {0}, l \in Nat \ {0} : s = Span[i] /\ l = TIME_LEVEL
    BY <1>0, SpanIs DEF Level
  <2>2. ct % Span[i + 1] = s * ((ct \div s) % l) + (ct % s)
    <3>1. Span[i + 1] = s * l
      BY <2>1, SpanIs
    <3>2. ct % (s * l) = s * ((ct \div s) % l) + (ct % s)
      BY <1>0, DivNests
    <3> QED
      BY <3>1, <3>2
  <2>3. PICK m \in Nat, r \in Nat : m = (ct \div s) % l /\ r = ct % s /\ m = Index(i, ct)
    <3>1. ct \div s \in Nat /\ ct % s \in Nat
      <4>1. ct % s \in 0..s-1
        BY <1>0, DivType
      <4>2. ct \div s \in Nat
        BY <1>0, DivType
      <4> QED
        BY <4>1, <4>2
    <3>2. (ct \div s) % l \in Nat
      BY <3>1, DivType
    <3> QED
      BY <2>1, <3>1, <3>2 DEF Index
  <2>4. CASE m = 0
    <3>1. s * m = 0
      BY <2>4
    <3> QED
      BY <2>1, <2>2, <2>3, <2>4, <3>1
  <2>5. CASE m # 0
    <3>1. PICK y \in Nat \ {0} : y = s * m
      BY <2>5
    <3> QED
      BY <2>1, <2>2, <2>3, <2>5, <3>1
  <2> QED
    BY <2>4, <2>5
<1>3. ct % Span[4] # 0
  <2>1. PICK s \in Nat \ {0} : s = Span[4] /\ s = Ticks
    BY SpanIs
  <2>2. PICK z \in Nat, m \in 0..s-1 : z = 0 /\ m = ct
    BY <2>1
  <2>3. m = s * z + m
    BY <2>2
  <2>4. m % s = m
    <3> HIDE <2>1
    <3>1. \A a : a = s * z + m => a % s = m
      BY ModIs
    <3> QED
      BY <2>3, <3>1
  <2> QED
    BY <1>0, <2>1, <2>2, <2>4
<1> QED
  BY <1>1, <1>2, <1>3

(* If no level's block begins, everything stays where it is.               *)
LEMMA NothingMoves ==
    ASSUME NEW now \in 0..Ticks-1, NEW ct \in 0..Ticks-1, ct = now + 1,
           \A i \in Level : ~Begins(i, ct), NEW x \in 0..Ticks-1
    PROVE  Home(x, ct) = Home(x, now)
<1>1. \A i \in Level : ct % Span[i + 1] # 0 => ct % Span[i] # 0
  BY BlocksStep DEF Begins
<1>2. ct % Span[4] # 0 /\ ct % Span[3] # 0 /\ ct % Span[2] # 0 /\ ct % Span[1] # 0
      /\ ct % Span[0] # 0
  <2>1. /\ 0 \in Level /\ 1 \in Level /\ 2 \in Level /\ 3 \in Level
        /\ 0 + 1 = 1 /\ 1 + 1 = 2 /\ 2 + 1 = 3 /\ 3 + 1 = 4
    BY DEF Level
  <2> HIDE <1>1
  <2>2. ct % Span[4] # 0
    BY BlocksStep
  <2>3. ct % Span[3] # 0
    BY <1>1, <2>1, <2>2
  <2>4. ct % Span[2] # 0
    BY <1>1, <2>1, <2>3
  <2>5. ct % Span[1] # 0
    BY <1>1, <2>1, <2>4
  <2> QED
    BY <1>1, <2>1, <2>2, <2>3, <2>4, <2>5
<1>3. \A j \in 0..4 : Same(j, ct, now)
  <2>1. \A j \in 0..4 : j = 0 \/ j = 1 \/ j = 2 \/ j = 3 \/ j = 4
    OBVIOUS
  <2>2. \A j \in 0..4 : ct % Span[j] # 0
    BY <1>2, <2>1
  <2> QED
    BY <2>2, BlocksStep
<1>4. PICK h \in Levels : h = Home(x, now)
  BY HomeIs
<1>5. Same(h + 1, x, now) /\ (h = -1 \/ ~Same(h, x, now))
  BY <1>4, HomeIs
<1>6. h + 1 \in 0..4 /\ (h = -1 \/ h \in 0..4)
  BY DEF Levels
<1>7. Same(h + 1, x, ct) /\ (h = -1 \/ ~Same(h, x, ct))
  BY <1>3, <1>5, <1>6 DEF Same
<1> QED
  BY <1>4, <1>7, HomeIs

(* If a block of level i begins, and it is the outermost to, what is still *)
(* to come stays where it is, unless it is in the list of this block.      *)
LEMMA BlockMoves ==
    ASSUME NEW now \in 0..Ticks-1, NEW ct \in 0..Ticks-1, ct = now + 1,
           NEW i \in Level, Begins(i, ct), NEW x \in 0..Ticks-1, Ahead(x, now)
    PROVE  \/ Home(x, ct) = Home(x, now)
           \/ Home(x, now) = i /\ Cell(i, x) = Index(i, ct)
<1>0. x \in Nat /\ now \in Nat /\ ct \in Nat /\ i \in Levels /\ i # -1 /\ i \in 0..3
  <2>1. Ticks \in Nat
    BY SpanIs
  <2> QED
    BY <2>1 DEF Level, Levels
<1>1. \A j \in 0..4 : j > i => ct % Span[j] # 0
  <2>1. \A k \in Level : ct % Span[k] # 0 => ct % Span[k + 1] # 0
    BY BlocksStep
  <2>2. /\ 0 \in Level /\ 1 \in Level /\ 2 \in Level /\ 3 \in Level
        /\ 0 + 1 = 1 /\ 1 + 1 = 2 /\ 2 + 1 = 3 /\ 3 + 1 = 4
    BY DEF Level
  <2>3. ct % Span[i + 1] # 0
    BY BlocksStep DEF Begins
  <2>4. \A j \in 0..4 : j = 0 \/ j = 1 \/ j = 2 \/ j = 3 \/ j = 4
    OBVIOUS
  <2>5. i = 0 \/ i = 1 \/ i = 2 \/ i = 3
    BY <1>0
  <2>6. i = 3 => ct % Span[4] # 0
    BY <2>2, <2>3
  <2>7. i = 2 => ct % Span[3] # 0 /\ ct % Span[4] # 0
    BY <2>1, <2>2, <2>3
  <2>8. i = 1 => ct % Span[2] # 0 /\ ct % Span[3] # 0 /\ ct % Span[4] # 0
    BY <2>1, <2>2, <2>3
  <2>9. i = 0 => ct % Span[1] # 0 /\ ct % Span[2] # 0 /\ ct % Span[3] # 0 /\ ct % Span[4] # 0
    BY <2>1, <2>2, <2>3
  <2> HIDE <2>1
  <2>10. ASSUME NEW j \in 0..4, j > i PROVE ct % Span[j] # 0
    <3>1. j = 0 \/ j = 1 \/ j = 2 \/ j = 3 \/ j = 4
      OBVIOUS
    <3> QED
      BY <2>5, <2>6, <2>7, <2>8, <2>9, <2>10, <3>1
  <2> QED
    BY <2>10
<1>2. \A j \in 0..4 : j > i => Same(j, ct, now)
  BY <1>1, BlocksStep
<1>3. ~Same(i, x, now)
  <2> SUFFICES ASSUME Same(i, x, now) PROVE FALSE
    OBVIOUS
  <2>1. x <= now
    BY <1>0, BlocksStep DEF Begins
  <2>2. Same(3, x, now)
    <3>1. i \in -1..4 /\ 3 \in -1..4 /\ i <= 3
      BY <1>0
    <3> QED
      BY <1>0, <3>1, SameUpward
  <2>3. PICK s \in Nat \ {0} : s = Span[3]
    BY SpanIs
  <2>4. now \div s = x \div s
    BY <2>2, <2>3 DEF Same, Block
  <2>5. now - x < s
    BY <1>0, <2>4, DivNear
  <2> QED
    BY <1>0, <2>1, <2>3, <2>5 DEF Ahead
<1>4. PICK h \in Levels : h = Home(x, now)
  BY HomeIs
<1>5. Same(h + 1, x, now) /\ (h = -1 \/ ~Same(h, x, now))
  BY <1>4, HomeIs
<1>6. i + 1 \in 0..4 /\ h + 1 \in 0..4 /\ (h = -1 \/ h \in 0..4) /\ h \in -1..3
  BY <1>0 DEF Levels
<1>7. ~(h + 1 <= i)
  <2> SUFFICES ASSUME h + 1 <= i PROVE FALSE
    OBVIOUS
  <2>1. h + 1 \in -1..4 /\ i \in -1..4
    BY <1>0, <1>6
  <2> QED
    BY <1>0, <1>3, <1>5, <2>1, SameUpward
<1>8. CASE h > i
  <2>1. h + 1 > i /\ h \in 0..4 /\ h # -1
    BY <1>0, <1>6, <1>8
  <2>2. Same(h + 1, x, ct) /\ ~Same(h, x, ct)
    BY <1>2, <1>5, <1>6, <1>8, <2>1 DEF Same
  <2> QED
    BY <1>4, <2>2, HomeIs
<1>9. CASE h = i /\ Cell(i, x) # Index(i, ct)
  <2>1. Same(i + 1, x, ct)
    <3>1. i + 1 > i
      BY <1>0
    <3> QED
      BY <1>2, <1>5, <1>6, <1>9, <3>1 DEF Same
  <2>2. ~Same(i, x, ct)
    <3>1. Same(i, x, ct) => Cell(i, x) = Cell(i, ct)
      BY <1>0, BlockIs
    <3>2. Cell(i, ct) = Index(i, ct)
      BY <1>0 DEF Cell
    <3> QED
      BY <1>9, <3>1, <3>2
  <2> QED
    BY <1>0, <1>4, <1>9, <2>1, <2>2, HomeIs
<1> QED
  BY <1>0, <1>4, <1>6, <1>7, <1>8, <1>9

(* When the counter wraps, it is the list of the first block of level 3.   *)
LEMMA WrapMoves ==
    ASSUME NEW now \in 0..Ticks-1, now = Ticks - 1, NEW x \in 0..Ticks-1, Ahead(x, now)
    PROVE  \/ Home(x, 0) = Home(x, now)
           \/ Home(x, now) = 3 /\ Cell(3, x) = 0
<1>0. /\ x \in Nat /\ now \in Nat /\ 0 \in Nat /\ 3 \in Levels /\ 3 # -1
      /\ 0 \in 0..Ticks-1 /\ 3 + 1 = 4
  <2>1. Ticks \in Nat \ {0}
    BY SpanIs
  <2> QED
    BY <2>1 DEF Level, Levels
<1>1. PICK s \in Nat \ {0} : s = Span[3] /\ s < Ticks
  BY SpanIs
<1>2. ~Same(3, x, now)
  <2> SUFFICES ASSUME Same(3, x, now) PROVE FALSE
    OBVIOUS
  <2>1. now \div s = x \div s
    BY <1>0, <1>1 DEF Same, Block
  <2>2. now - x < s
    BY <1>0, <2>1, DivNear
  <2>3. x <= now
    BY <1>0
  <2> QED
    BY <1>0, <1>1, <2>2, <2>3 DEF Ahead
<1>3. Same(4, x, now) /\ Same(4, x, 0)
  BY <1>0, BlockIs DEF Same
<1>4. Home(x, now) = 3
  BY <1>0, <1>2, <1>3, HomeIs
<1>5. CASE Same(3, x, 0)
  <2>1. Cell(3, x) = Cell(3, 0)
    BY <1>0, <1>5, BlockIs
  <2>2. Cell(3, 0) = 0
    <3>1. 0 = s * 0 + 0 /\ 0 \in 0..s-1
      OBVIOUS
    <3>2. 0 \div s = 0
      BY <3>1, DivIs
    <3>3. PICK l \in Nat \ {0} : l = TIME_LEVEL
      BY WheelAssumption
    <3>4. 0 = l * 0 + 0 /\ 0 \in 0..l-1
      OBVIOUS
    <3>5. 0 % l = 0
      BY <3>4, DivIs
    <3> QED
      BY <1>0, <1>1, <3>2, <3>3, <3>5 DEF Cell, Index
  <2> QED
    BY <1>4, <2>1, <2>2
<1>6. CASE ~Same(3, x, 0)
  BY <1>0, <1>3, <1>4, <1>6, HomeIs
<1> QED
  BY <1>5, <1>6
-----------------------------------------------------------------------------
(* The wheel                                                               *)

ListAt(w, i, k) == IF i = -1 THEN w.near[k] ELSE w.t[i][k]
To(i, k, x, now) == {e \in Event : Home(x[e], now) = i /\ Cell(i, x[e]) = k}
Emptied(w, i, k) == IF i = -1 THEN [w EXCEPT !.near[k] = <<>>] ELSE [w EXCEPT !.t[i][k] = <<>>]
Expiries == [Event -> 0..Ticks-1]

Formed(w) ==
    w \in [near : [0..TIME_NEAR-1 -> Seq(Event)],
           t : [Level -> [0..TIME_LEVEL-1 -> Seq(Event)]]]

(* Of those in P each is in the list of its place, and nothing else is.    *)
WheelOK(w, P, x, now) ==
    /\ Formed(w)
    /\ \A i \in Levels : \A k \in Cells(i) : \A e \in Elements(ListAt(w, i, k)) :
          e \in P /\ Home(x[e], now) = i /\ Cell(i, x[e]) = k
    /\ \A e \in P : e \in Elements(ListAt(w, Home(x[e], now), Cell(Home(x[e], now), x[e])))

(* near and the levels as places -1 to 3                                   *)
LEMMA LevelsAre ==
    /\ \A i \in Levels : i = -1 \/ i \in Level
    /\ \A i \in Level : i \in Levels /\ i # -1 /\ Cells(i) = 0..TIME_LEVEL-1
    /\ -1 \in Levels /\ Cells(-1) = 0..TIME_NEAR-1
    /\ \A y \in 0..Ticks-1, now \in 0..Ticks-1 :
          /\ IsNear(y, now) <=> Home(y, now) = -1
          /\ ~IsNear(y, now) => LevelOf(y, now) = Home(y, now)
<1>1. \A i \in Levels : i = -1 \/ i \in Level
  BY DEF Levels, Level
<1>2. \A i \in Level : i \in Levels /\ i # -1 /\ Cells(i) = 0..TIME_LEVEL-1
  <2>1. \A i \in Level : i \in Levels /\ i # -1
    BY DEF Levels, Level
  <2> QED
    BY <2>1 DEF Cells
<1>3. -1 \in Levels /\ Cells(-1) = 0..TIME_NEAR-1
  <2>1. -1 \in Levels
    BY DEF Levels
  <2> QED
    BY <2>1 DEF Cells
<1>4. ASSUME NEW y \in 0..Ticks-1, NEW now \in 0..Ticks-1
      PROVE  /\ IsNear(y, now) <=> Home(y, now) = -1
             /\ ~IsNear(y, now) => LevelOf(y, now) = Home(y, now)
  <2>1. IsNear(y, now) <=> Same(0, y, now)
    BY SpanIs DEF IsNear, SameBlock, Same, Block
  <2>2. (-1) + 1 = 0
    OBVIOUS
  <2>3. Home(y, now) = -1 <=> Same(0, y, now)
    BY <1>3, <2>2, HomeIs
  <2> QED
    BY <2>1, <2>3 DEF Home
<1> QED
  BY <1>1, <1>2, <1>3, <1>4

(* Lists of a formed wheel are lists.                                      *)
LEMMA FormedIs ==
    ASSUME NEW w, Formed(w), NEW i \in Levels, NEW k \in Cells(i)
    PROVE  ListAt(w, i, k) \in Seq(Event)
<1>1. CASE i = -1
  BY <1>1, LevelsAre DEF Formed, ListAt
<1>2. CASE i \in Level
  <2>1. i # -1 /\ k \in 0..TIME_LEVEL-1
    BY <1>2, LevelsAre
  <2>2. w.t[i] \in [0..TIME_LEVEL-1 -> Seq(Event)]
    BY <1>2 DEF Formed
  <2> QED
    BY <2>1, <2>2 DEF ListAt
<1> QED
  BY <1>1, <1>2, LevelsAre

(* Taking one list out leaves the others.                                  *)
LEMMA EmptiedLists ==
    ASSUME NEW w, Formed(w), NEW i \in Levels, NEW k \in Cells(i)
    PROVE  /\ Formed(Emptied(w, i, k))
           /\ \A j \in Levels : \A m \in Cells(j) :
                ListAt(Emptied(w, i, k), j, m) = IF j = i /\ m = k THEN <<>> ELSE ListAt(w, j, m)
<1>0. <<>> \in Seq(Event)
  BY AppendIs
<1>1. CASE i = -1
  <2>1. k \in 0..TIME_NEAR-1
    BY <1>1, LevelsAre
  <2>2. PICK n : n = [w.near EXCEPT ![k] = <<>>]
    OBVIOUS
  <2>3. /\ n \in [0..TIME_NEAR-1 -> Seq(Event)]
        /\ \A m \in 0..TIME_NEAR-1 : n[m] = IF m = k THEN <<>> ELSE w.near[m]
    <3>1. w.near \in [0..TIME_NEAR-1 -> Seq(Event)]
      BY DEF Formed
    <3> QED
      BY <1>0, <2>1, <2>2, <3>1
  <2>4. Emptied(w, i, k) = [w EXCEPT !.near = n]
    BY <1>1, <2>2 DEF Emptied, Formed
  <2>5. PICK v : v = Emptied(w, i, k)
    OBVIOUS
  <2>6. Formed(v) /\ v.near = n /\ v.t = w.t
    BY <2>3, <2>4, <2>5 DEF Formed
  <2>7. ASSUME NEW j \in Levels, NEW m \in Cells(j)
        PROVE  ListAt(v, j, m) = IF j = i /\ m = k THEN <<>> ELSE ListAt(w, j, m)
    <3>1. CASE j = -1
      <4>1. m \in 0..TIME_NEAR-1
        BY <3>1, LevelsAre
      <4> QED
        BY <1>1, <2>3, <2>6, <3>1, <4>1 DEF ListAt
    <3>2. CASE j # -1
      BY <1>1, <2>6, <3>2 DEF ListAt
    <3> QED
      BY <3>1, <3>2
  <2> QED
    BY <2>5, <2>6, <2>7
<1>2. CASE i \in Level
  <2>1. k \in 0..TIME_LEVEL-1 /\ i # -1
    BY <1>2, LevelsAre
  <2>2. PICK n : n = [w.t EXCEPT ![i][k] = <<>>]
    OBVIOUS
  <2>3. /\ n \in [Level -> [0..TIME_LEVEL-1 -> Seq(Event)]]
        /\ \A j \in Level : \A m \in 0..TIME_LEVEL-1 :
              n[j][m] = IF j = i /\ m = k THEN <<>> ELSE w.t[j][m]
    <3>1. w.t \in [Level -> [0..TIME_LEVEL-1 -> Seq(Event)]]
      BY DEF Formed
    <3>2. PICK r : r = [w.t[i] EXCEPT ![k] = <<>>]
      OBVIOUS
    <3>3. /\ r \in [0..TIME_LEVEL-1 -> Seq(Event)]
          /\ \A m \in 0..TIME_LEVEL-1 : r[m] = IF m = k THEN <<>> ELSE w.t[i][m]
      <4>1. w.t[i] \in [0..TIME_LEVEL-1 -> Seq(Event)]
        BY <1>2, <3>1
      <4> QED
        BY <1>0, <2>1, <3>2, <4>1
    <3>4. n = [w.t EXCEPT ![i] = r]
      BY <2>2, <3>2
    <3> QED
      BY <1>2, <3>1, <3>3, <3>4
  <2>4. Emptied(w, i, k) = [w EXCEPT !.t = n]
    BY <2>1, <2>2 DEF Emptied, Formed
  <2>5. PICK v : v = Emptied(w, i, k)
    OBVIOUS
  <2>6. Formed(v) /\ v.near = w.near /\ v.t = n
    BY <2>3, <2>4, <2>5 DEF Formed
  <2>7. ASSUME NEW j \in Levels, NEW m \in Cells(j)
        PROVE  ListAt(v, j, m) = IF j = i /\ m = k THEN <<>> ELSE ListAt(w, j, m)
    <3>1. CASE j = -1
      BY <2>1, <2>6, <3>1 DEF ListAt
    <3>2. CASE j \in Level
      <4>1. m \in 0..TIME_LEVEL-1 /\ j # -1
        BY <3>2, LevelsAre
      <4> QED
        BY <2>3, <2>6, <3>2, <4>1 DEF ListAt
    <3> QED
      BY <3>1, <3>2, LevelsAre
  <2> QED
    BY <2>5, <2>6, <2>7
<1> QED
  BY <1>1, <1>2, LevelsAre

(* add_node appends to each list the timeouts of its place.                *)
LEMMA FiledLists ==
    ASSUME NEW w, Formed(w), NEW l \in Seq(Event), NEW x \in Expiries, NEW now \in 0..Ticks-1
    PROVE  /\ Formed(Filed(w, l, x, now))
           /\ \A i \in Levels : \A k \in Cells(i) :
                ListAt(Filed(w, l, x, now), i, k) = ListAt(w, i, k) \o Among(l, To(i, k, x, now))
<1>1. ASSUME NEW k \in Cells(-1)
      PROVE  /\ To(-1, k, x, now) = ToNear(k, x, now)
             /\ w.near[k] \in Seq(Event)
  <2>1. \A e \in Event : x[e] \in 0..Ticks-1
    BY DEF Expiries
  <2>2. w.near[k] \in Seq(Event)
    BY LevelsAre DEF Formed
  <2>3. \A e \in Event : IsNear(x[e], now) <=> Home(x[e], now) = -1
    BY <2>1, LevelsAre
  <2>4. \A y : Cell(-1, y) = NearIndex(y)
    BY DEF Cell
  <2> QED
    BY <2>2, <2>3, <2>4 DEF To, ToNear
<1>2. ASSUME NEW i \in Level, NEW k \in Cells(i)
      PROVE  /\ To(i, k, x, now) = ToLevel(i, k, x, now)
             /\ w.t[i][k] \in Seq(Event)
  <2>1. \A e \in Event : x[e] \in 0..Ticks-1
    BY DEF Expiries
  <2>2. k \in 0..TIME_LEVEL-1 /\ i # -1
    BY LevelsAre
  <2>3. w.t[i][k] \in Seq(Event)
    <3>1. w.t[i] \in [0..TIME_LEVEL-1 -> Seq(Event)]
      BY DEF Formed
    <3> QED
      BY <2>2, <3>1
  <2>4. \A e \in Event : Home(x[e], now) = i <=> ~IsNear(x[e], now) /\ LevelOf(x[e], now) = i
    BY <2>1, <2>2, LevelsAre
  <2>5. \A y : Cell(i, y) = Index(i, y)
    BY <2>2 DEF Cell
  <2> QED
    BY <2>3, <2>4, <2>5 DEF To, ToLevel
<1> DEFINE N == [k \in 0..TIME_NEAR-1 |-> w.near[k] \o Among(l, ToNear(k, x, now))]
           T == [i \in Level |-> [k \in 0..TIME_LEVEL-1 |->
                    w.t[i][k] \o Among(l, ToLevel(i, k, x, now))]]
<1>3. Filed(w, l, x, now) = [near |-> N, t |-> T]
  BY DEF Filed
<1>4. N \in [0..TIME_NEAR-1 -> Seq(Event)]
  <2> SUFFICES ASSUME NEW k \in 0..TIME_NEAR-1
               PROVE  w.near[k] \o Among(l, ToNear(k, x, now)) \in Seq(Event)
    OBVIOUS
  <2>1. w.near[k] \in Seq(Event)
    BY <1>1, LevelsAre
  <2>2. Among(l, ToNear(k, x, now)) \in Seq(Event)
    BY AmongIs
  <2> QED
    BY <2>1, <2>2
<1>5. T \in [Level -> [0..TIME_LEVEL-1 -> Seq(Event)]]
  <2> SUFFICES ASSUME NEW i \in Level, NEW k \in 0..TIME_LEVEL-1
               PROVE  w.t[i][k] \o Among(l, ToLevel(i, k, x, now)) \in Seq(Event)
    OBVIOUS
  <2>1. w.t[i][k] \in Seq(Event)
    BY <1>2, LevelsAre
  <2>2. Among(l, ToLevel(i, k, x, now)) \in Seq(Event)
    BY AmongIs
  <2> QED
    BY <2>1, <2>2
<1>6. ASSUME NEW i \in Levels, NEW k \in Cells(i)
      PROVE  ListAt([near |-> N, t |-> T], i, k) = ListAt(w, i, k) \o Among(l, To(i, k, x, now))
  <2>1. CASE i = -1
    <3>1. k \in 0..TIME_NEAR-1
      BY <2>1, LevelsAre
    <3>2. N[k] = w.near[k] \o Among(l, ToNear(k, x, now))
      BY <3>1
    <3> HIDE DEF N, T
    <3> QED
      BY <1>1, <2>1, <3>2 DEF ListAt
  <2>2. CASE i \in Level
    <3>1. k \in 0..TIME_LEVEL-1 /\ i # -1
      BY <2>2, LevelsAre
    <3>2. T[i][k] = w.t[i][k] \o Among(l, ToLevel(i, k, x, now))
      BY <2>2, <3>1
    <3> HIDE DEF N, T
    <3> QED
      BY <1>2, <2>2, <3>1, <3>2 DEF ListAt
  <2> QED
    BY <2>1, <2>2, LevelsAre
<1>7. Formed([near |-> N, t |-> T])
  <2> HIDE DEF N, T
  <2> QED
    BY <1>4, <1>5 DEF Formed
<1> HIDE DEF N, T
<1> QED
  BY <1>3, <1>6, <1>7

(* Sequences joined and extended, under names that a lemma can be cited by *)
Joined(a, b) == a \o b
Added(a, e) == Append(a, e)

(* The same for one list                                                   *)
LEMMA FiledListIs ==
    ASSUME NEW w, Formed(w), NEW l \in Seq(Event), NEW x \in Expiries, NEW now \in 0..Ticks-1,
           NEW i \in Levels, NEW k \in Cells(i)
    PROVE  ListAt(Filed(w, l, x, now), i, k) = Joined(ListAt(w, i, k), Among(l, To(i, k, x, now)))
BY FiledLists DEF Joined

(* A list that is filed adds its timeouts to those the wheel holds.        *)
LEMMA FiledOK ==
    ASSUME NEW w, NEW P \in SUBSET Event, NEW x \in Expiries, NEW now \in 0..Ticks-1,
           WheelOK(w, P, x, now), NEW l \in Seq(Event)
    PROVE  WheelOK(Filed(w, l, x, now), P \cup Elements(l), x, now)
<1>0. Formed(w)
  BY DEF WheelOK
<1>1. PICK v : v = Filed(w, l, x, now)
  OBVIOUS
<1>2. /\ Formed(v)
      /\ \A i \in Levels : \A k \in Cells(i) :
            ListAt(v, i, k) = ListAt(w, i, k) \o Among(l, To(i, k, x, now))
  BY <1>0, <1>1, FiledLists
<1>3. ASSUME NEW i \in Levels, NEW k \in Cells(i)
      PROVE  Elements(ListAt(v, i, k)) =
                Elements(ListAt(w, i, k)) \cup (Elements(l) \cap To(i, k, x, now))
  <2>1. ListAt(w, i, k) \in Seq(Event)
    BY <1>0, FormedIs
  <2>2. /\ Among(l, To(i, k, x, now)) \in Seq(Event)
        /\ Elements(Among(l, To(i, k, x, now))) = Elements(l) \cap To(i, k, x, now)
    BY AmongIs, AmongElements
  <2>3. ListAt(v, i, k) = ListAt(w, i, k) \o Among(l, To(i, k, x, now))
    BY <1>2
  <2>4. Elements(ListAt(w, i, k) \o Among(l, To(i, k, x, now))) =
            Elements(ListAt(w, i, k)) \cup Elements(Among(l, To(i, k, x, now)))
    BY <2>1, <2>2, ElementsOf
  <2> QED
    BY <2>2, <2>3, <2>4
<1>4. ASSUME NEW i \in Levels, NEW k \in Cells(i), NEW e \in Elements(ListAt(v, i, k))
      PROVE  e \in P \cup Elements(l) /\ Home(x[e], now) = i /\ Cell(i, x[e]) = k
  BY <1>3, <1>4 DEF WheelOK, To
<1>5. ASSUME NEW e \in P \cup Elements(l)
      PROVE  e \in Elements(ListAt(v, Home(x[e], now), Cell(Home(x[e], now), x[e])))
  <2>1. e \in Event
    BY ElementsOf
  <2>2. x[e] \in 0..Ticks-1 /\ x[e] \in Nat
    <3>1. Ticks \in Nat
      BY SpanIs
    <3>2. x[e] \in 0..Ticks-1
      BY <2>1 DEF Expiries
    <3> QED
      BY <3>1, <3>2
  <2>3. PICK i : i = Home(x[e], now)
    OBVIOUS
  <2>4. PICK k : k = Cell(i, x[e])
    OBVIOUS
  <2>5. i \in Levels /\ k \in Cells(i)
    BY <2>2, <2>3, <2>4, HomeIs, BlockIs
  <2>6. Elements(ListAt(v, i, k)) =
            Elements(ListAt(w, i, k)) \cup (Elements(l) \cap To(i, k, x, now))
    BY <1>3, <2>5
  <2>7. e \in P => e \in Elements(ListAt(w, i, k))
    BY <2>3, <2>4 DEF WheelOK
  <2>8. e \in To(i, k, x, now)
    BY <2>1, <2>3, <2>4 DEF To
  <2> QED
    BY <2>3, <2>4, <2>6, <2>7, <2>8
<1> QED
  BY <1>1, <1>2, <1>4, <1>5 DEF WheelOK

(* What a list that is taken out held is held no more.                     *)
LEMMA EmptiedOK ==
    ASSUME NEW w, NEW P \in SUBSET Event, NEW x \in Expiries, NEW now \in 0..Ticks-1,
           WheelOK(w, P, x, now), NEW i \in Levels, NEW k \in Cells(i)
    PROVE  WheelOK(Emptied(w, i, k), P \ Elements(ListAt(w, i, k)), x, now)
<1>0. Formed(w)
  BY DEF WheelOK
<1>1. PICK v : v = Emptied(w, i, k)
  OBVIOUS
<1>2. /\ Formed(v)
      /\ \A j \in Levels : \A m \in Cells(j) :
            ListAt(v, j, m) = IF j = i /\ m = k THEN <<>> ELSE ListAt(w, j, m)
  BY <1>0, <1>1, EmptiedLists
<1>3. Elements(<<>>) = {}
  BY ElementsOf
<1>4. ASSUME NEW j \in Levels, NEW m \in Cells(j), NEW e \in Elements(ListAt(v, j, m))
      PROVE  /\ e \in P \ Elements(ListAt(w, i, k))
             /\ Home(x[e], now) = j /\ Cell(j, x[e]) = m
  <2>1. ~(j = i /\ m = k) /\ ListAt(v, j, m) = ListAt(w, j, m)
    BY <1>2, <1>3, <1>4
  <2>2. e \in P /\ Home(x[e], now) = j /\ Cell(j, x[e]) = m
    BY <1>4, <2>1 DEF WheelOK
  <2>3. e \in Elements(ListAt(w, i, k)) => Home(x[e], now) = i /\ Cell(i, x[e]) = k
    BY DEF WheelOK
  <2> QED
    BY <2>1, <2>2, <2>3
<1>5. ASSUME NEW e \in P \ Elements(ListAt(w, i, k))
      PROVE  e \in Elements(ListAt(v, Home(x[e], now), Cell(Home(x[e], now), x[e])))
  <2>1. x[e] \in 0..Ticks-1 /\ x[e] \in Nat
    <3>1. Ticks \in Nat
      BY SpanIs
    <3>2. x[e] \in 0..Ticks-1
      BY DEF Expiries
    <3> QED
      BY <3>1, <3>2
  <2>2. PICK j : j = Home(x[e], now)
    OBVIOUS
  <2>3. PICK m : m = Cell(j, x[e])
    OBVIOUS
  <2>4. j \in Levels /\ m \in Cells(j)
    BY <2>1, <2>2, <2>3, HomeIs, BlockIs
  <2>5. e \in Elements(ListAt(w, j, m))
    BY <2>2, <2>3 DEF WheelOK
  <2>6. ~(j = i /\ m = k)
    BY <2>5
  <2>7. ListAt(v, j, m) = ListAt(w, j, m)
    BY <1>2, <2>4, <2>6
  <2> QED
    BY <2>2, <2>3, <2>5, <2>7
<1> QED
  BY <1>1, <1>2, <1>4, <1>5 DEF WheelOK

(* A wheel in which nothing moves is right at the next tick too.           *)
LEMMA Reread ==
    ASSUME NEW w, NEW P, NEW x, NEW now, NEW ct, WheelOK(w, P, x, now),
           \A e \in P : Home(x[e], ct) = Home(x[e], now)
    PROVE  WheelOK(w, P, x, ct)
BY DEF WheelOK

(* ... and so is one whose expiries are right for those it holds.          *)
LEMMA Rewound ==
    ASSUME NEW w, NEW P, NEW x, NEW y, NEW now, WheelOK(w, P, x, now),
           \A e \in P : y[e] = x[e]
    PROVE  WheelOK(w, P, y, now)
BY DEF WheelOK

Follows(now, ct) == ct = IF now + 1 = Ticks THEN 0 ELSE now + 1

(* The counter wraps at Ticks.                                             *)
LEMMA TickFollows ==
    ASSUME NEW now \in 0..Ticks-1
    PROVE  Follows(now, (now + 1) % Ticks) /\ (now + 1) % Ticks \in 0..Ticks-1
<1>1. PICK s \in Nat \ {0} : s = Ticks
  BY SpanIs
<1>2. CASE now + 1 = Ticks
  <2>1. PICK b, q \in Nat, z \in 0..s-1 : b = now + 1 /\ q = 1 /\ z = 0
    BY <1>1
  <2>2. b = s * q + z
    BY <1>1, <1>2, <2>1
  <2>3. b % s = z
    BY <2>2, ModIs
  <2> QED
    BY <1>1, <1>2, <2>1, <2>3 DEF Follows
<1>3. CASE now + 1 # Ticks
  <2>1. PICK b, q \in Nat, z \in 0..s-1 : b = now + 1 /\ q = 0 /\ z = now + 1
    BY <1>1, <1>3
  <2>2. b = s * q + z
    BY <1>1, <1>3, <2>1
  <2>3. b % s = z
    BY <2>2, ModIs
  <2> QED
    BY <1>1, <1>3, <2>1, <2>3 DEF Follows
<1> QED
  BY <1>2, <1>3

(* timer_shift refiles at most one list; only what it holds moves.         *)
LEMMA ShiftedIs ==
    ASSUME NEW now \in 0..Ticks-1, NEW ct \in 0..Ticks-1, Follows(now, ct)
    PROVE  \/ /\ Shifted(ct) = Wheel
              /\ \A x \in 0..Ticks-1 : Ahead(x, now) => Home(x, ct) = Home(x, now)
           \/ \E i \in Level : \E k \in Cells(i) :
                 /\ Shifted(ct) = Filed(Emptied(Wheel, i, k), ListAt(Wheel, i, k), expire, ct)
                 /\ \A x \in 0..Ticks-1 : Ahead(x, now) =>
                       Home(x, ct) = Home(x, now) \/ (Home(x, now) = i /\ Cell(i, x) = k)
<1>1. \A i \in Level : \A k :
          Refiled(i, k, ct) = Filed(Emptied(Wheel, i, k), ListAt(Wheel, i, k), expire, ct)
  BY LevelsAre DEF Refiled, Emptied, ListAt, Wheel
<1>2. CASE ct = 0
  <2>1. now = Ticks - 1
    <3>1. Ticks \in Nat
      BY SpanIs
    <3> QED
      BY <1>2, <3>1 DEF Follows
  <2>2. 3 \in Level /\ 0 \in Cells(3)
    <3>1. 3 \in Level
      BY DEF Level
    <3>2. 0 \in 0..TIME_LEVEL-1
      BY WheelAssumption
    <3> QED
      BY <3>1, <3>2, LevelsAre
  <2>3. Shifted(ct) = Refiled(3, 0, ct)
    BY <1>2 DEF Shifted
  <2>4. \A x \in 0..Ticks-1 : Ahead(x, now) =>
            Home(x, ct) = Home(x, now) \/ (Home(x, now) = 3 /\ Cell(3, x) = 0)
    BY <1>2, <2>1, WrapMoves
  <2> QED
    BY <1>1, <2>2, <2>3, <2>4
<1>3. CASE ct # 0
  <2>0. ct = now + 1
    BY <1>3 DEF Follows
  <2>1. CASE \E i \in Level : Begins(i, ct)
    <3>1. PICK i : i = CHOOSE j \in Level : Begins(j, ct)
      OBVIOUS
    <3>2. i \in Level /\ Begins(i, ct)
      BY <2>1, <3>1
    <3>3. Shifted(ct) = Refiled(i, Index(i, ct), ct)
      BY <1>3, <2>1, <3>1 DEF Shifted, Begins
    <3>4. Index(i, ct) \in Cells(i)
      <4>1. ct \in Nat
        <5>1. Ticks \in Nat
          BY SpanIs
        <5> QED
          BY <5>1
      <4>2. Cell(i, ct) \in Cells(i)
        BY <3>2, <4>1, BlockIs, LevelsAre
      <4> QED
        BY <3>2, <4>2, LevelsAre DEF Cell
    <3>5. \A x \in 0..Ticks-1 : Ahead(x, now) =>
              \/ Home(x, ct) = Home(x, now)
              \/ Home(x, now) = i /\ Cell(i, x) = Index(i, ct)
      BY <2>0, <3>2, BlockMoves
    <3> QED
      BY <1>1, <3>2, <3>3, <3>4, <3>5
  <2>2. CASE \A i \in Level : ~Begins(i, ct)
    <3>1. Shifted(ct) = Wheel
      BY <1>3, <2>2 DEF Shifted, Begins
    <3>2. \A x \in 0..Ticks-1 : Home(x, ct) = Home(x, now)
      BY <2>0, <2>2, NothingMoves
    <3> QED
      BY <3>1, <3>2
  <2> QED
    BY <2>1, <2>2
<1> QED
  BY <1>2, <1>3

(* What the wheel holds for tick x, in order                               *)
DueAt(x, exp) == {e \in Event : exp[e] = x}
Spot(w, x, now) == ListAt(w, Home(x, now), Cell(Home(x, now), x))
Due(w, x, now, exp) == Among(Spot(w, x, now), DueAt(x, exp))

(* Ticks are natural numbers.                                              *)
LEMMA TicksAre == Ticks \in Nat \ {0} /\ \A x \in 0..Ticks-1 : x \in Nat
<1>1. Ticks \in Nat \ {0}
  BY SpanIs
<1> QED
  BY <1>1

(* The list of a tick is a list.                                           *)
LEMMA SpotIs ==
    ASSUME NEW w, Formed(w), NEW x \in 0..Ticks-1, NEW now \in 0..Ticks-1
    PROVE  /\ Spot(w, x, now) \in Seq(Event)
           /\ Home(x, now) \in Levels /\ Cell(Home(x, now), x) \in Cells(Home(x, now))
<1>1. Home(x, now) \in Levels
  BY HomeIs
<1>2. Cell(Home(x, now), x) \in Cells(Home(x, now))
  BY <1>1, TicksAre, BlockIs
<1> QED
  BY <1>1, <1>2, FormedIs DEF Spot

(* Nothing is due that nobody asked for.                                   *)
LEMMA DueNone ==
    ASSUME NEW w, NEW P, NEW exp, NEW now \in 0..Ticks-1, WheelOK(w, P, exp, now),
           NEW x \in 0..Ticks-1, \A e \in P : exp[e] # x
    PROVE  Due(w, x, now, exp) = <<>>
<1>1. Formed(w)
  BY DEF WheelOK
<1>2. PICK l \in Seq(Event) : l = Spot(w, x, now)
  BY <1>1, SpotIs
<1>3. Elements(l) \subseteq P
  BY <1>1, <1>2, SpotIs DEF WheelOK, Spot
<1>4. Elements(l) \cap DueAt(x, exp) = {}
  BY <1>3 DEF DueAt
<1>5. Among(l, DueAt(x, exp)) = <<>>
  BY <1>4, AmongAll
<1> QED
  BY <1>2, <1>5 DEF Due

(* The cascade keeps every timeout in its place, and those of one tick in  *)
(* their order.                                                            *)
LEMMA ShiftedOK ==
    ASSUME NEW now \in 0..Ticks-1, NEW ct \in 0..Ticks-1, Follows(now, ct),
           NEW P \in SUBSET Event, expire \in Expiries,
           WheelOK(Wheel, P, expire, now), \A e \in P : Ahead(expire[e], now)
    PROVE  /\ WheelOK(Shifted(ct), P, expire, ct)
           /\ \A x \in 0..Ticks-1 :
                 Due(Shifted(ct), x, ct, expire) = Due(Wheel, x, now, expire)
<1>0. Formed(Wheel) /\ \A e \in P : expire[e] \in 0..Ticks-1
  BY DEF WheelOK, Expiries
<1>1. CASE /\ Shifted(ct) = Wheel
           /\ \A x \in 0..Ticks-1 : Ahead(x, now) => Home(x, ct) = Home(x, now)
  <2>1. WheelOK(Wheel, P, expire, ct)
    BY <1>0, <1>1, Reread
  <2>2. ASSUME NEW x \in 0..Ticks-1
        PROVE  Due(Wheel, x, ct, expire) = Due(Wheel, x, now, expire)
    <3>1. CASE \E e \in P : expire[e] = x
      BY <1>1, <3>1 DEF Due, Spot
    <3>2. CASE \A e \in P : expire[e] # x
      BY <2>1, <3>2, DueNone
    <3> QED
      BY <3>1, <3>2
  <2> QED
    BY <1>1, <2>1, <2>2
<1>2. ASSUME NEW i \in Level, NEW k \in Cells(i),
             Shifted(ct) = Filed(Emptied(Wheel, i, k), ListAt(Wheel, i, k), expire, ct),
             \A x \in 0..Ticks-1 : Ahead(x, now) =>
                Home(x, ct) = Home(x, now) \/ (Home(x, now) = i /\ Cell(i, x) = k)
      PROVE  /\ WheelOK(Shifted(ct), P, expire, ct)
             /\ \A x \in 0..Ticks-1 :
                   Due(Shifted(ct), x, ct, expire) = Due(Wheel, x, now, expire)
  <2>0. i \in Levels
    BY LevelsAre
  <2>1. PICK l \in Seq(Event) : l = ListAt(Wheel, i, k)
    BY <1>0, <2>0, FormedIs
  <2>2. PICK v : v = Emptied(Wheel, i, k)
    OBVIOUS
  <2>3. /\ Formed(v)
        /\ \A j \in Levels : \A m \in Cells(j) :
              ListAt(v, j, m) = IF j = i /\ m = k THEN <<>> ELSE ListAt(Wheel, j, m)
    BY <1>0, <2>0, <2>2, EmptiedLists
  <2>4. Elements(l) \subseteq P /\ \A e \in Elements(l) : Home(expire[e], now) = i
                                                       /\ Cell(i, expire[e]) = k
    BY <2>0, <2>1 DEF WheelOK
  <2>5. WheelOK(v, P \ Elements(l), expire, now)
    BY <2>0, <2>1, <2>2, EmptiedOK
  <2>6. ASSUME NEW e \in P \ Elements(l) PROVE Home(expire[e], ct) = Home(expire[e], now)
    <3>1. e \in Elements(ListAt(Wheel, Home(expire[e], now), Cell(Home(expire[e], now), expire[e])))
      BY DEF WheelOK
    <3>2. ~(Home(expire[e], now) = i /\ Cell(i, expire[e]) = k)
      BY <2>1, <3>1
    <3> QED
      BY <1>0, <1>2, <3>2
  <2>7. WheelOK(v, P \ Elements(l), expire, ct)
    BY <2>5, <2>6, Reread
  <2>8. (P \ Elements(l)) \cup Elements(l) = P
    BY <2>4
  <2>9. WheelOK(Filed(v, l, expire, ct), P, expire, ct)
    <3>1. WheelOK(Filed(v, l, expire, ct), (P \ Elements(l)) \cup Elements(l), expire, ct)
      BY <2>7, FiledOK
    <3> QED
      BY <2>8, <3>1
  <2>10. ASSUME NEW x \in 0..Ticks-1, NEW f \in P, expire[f] = x
         PROVE  Due(Filed(v, l, expire, ct), x, ct, expire) = Due(Wheel, x, now, expire)
    <3>0. Ahead(x, now) /\ f \in Event
      BY <2>10
    <3> DEFINE S == DueAt(x, expire)
    <3>1. PICK h \in Levels : h = Home(x, ct)
      BY HomeIs
    <3>2. PICK c \in Cells(h) : c = Cell(h, x)
      BY <3>1, TicksAre, BlockIs
    <3>3. PICK a \in Seq(Event) : a = ListAt(v, h, c)
      BY <2>3, FormedIs
    <3>4. Spot(Filed(v, l, expire, ct), x, ct) = a \o Among(l, To(h, c, expire, ct))
      <4>1. ListAt(Filed(v, l, expire, ct), h, c) = ListAt(v, h, c) \o Among(l, To(h, c, expire, ct))
        BY <2>3, FiledLists
      <4> QED
        BY <3>1, <3>2, <3>3, <4>1 DEF Spot
    <3>5. S \subseteq To(h, c, expire, ct)
      BY <3>1, <3>2 DEF DueAt, To
    <3>6. Due(Filed(v, l, expire, ct), x, ct, expire) = Among(a, S) \o Among(l, S)
      <4>1. PICK b \in Seq(Event) : b = Among(l, To(h, c, expire, ct))
        BY AmongIs
      <4>2. Among(a \o b, S) = Among(a, S) \o Among(b, S)
        BY AmongConcat
      <4>3. Among(b, S) = Among(l, To(h, c, expire, ct) \cap S)
        BY <4>1, AmongTwice
      <4>4. To(h, c, expire, ct) \cap S = S
        BY <3>5
      <4> QED
        BY <3>4, <4>1, <4>2, <4>3, <4>4 DEF Due
    <3>7. CASE Home(x, now) = i /\ Cell(i, x) = k
      <4>1. Due(Wheel, x, now, expire) = Among(l, S)
        BY <2>1, <3>7 DEF Due, Spot
      <4>2. Elements(a) \cap S = {}
        <5> SUFFICES ASSUME NEW e \in Elements(a), e \in S PROVE FALSE
          OBVIOUS
        <5>1. expire[e] = x
          BY DEF DueAt
        <5>2. e \in P \ Elements(l)
          BY <2>7, <3>3 DEF WheelOK
        <5>3. e \in Elements(ListAt(Wheel, i, k))
          BY <3>7, <5>1, <5>2 DEF WheelOK
        <5> QED
          BY <2>1, <5>2, <5>3
      <4>3. Among(a, S) = <<>>
        BY <4>2, AmongAll
      <4>4. PICK b \in Seq(Event) : b = Among(l, S)
        BY AmongIs
      <4>5. <<>> \o b = b
        OBVIOUS
      <4> QED
        BY <3>6, <4>1, <4>3, <4>4, <4>5
    <3>8. CASE ~(Home(x, now) = i /\ Cell(i, x) = k)
      <4>1. h = Home(x, now)
        BY <1>2, <3>0, <3>1, <3>8
      <4>2. a = ListAt(Wheel, h, c)
        BY <2>3, <3>2, <3>3, <3>8, <4>1
      <4>3. Due(Wheel, x, now, expire) = Among(a, S)
        BY <3>2, <4>1, <4>2 DEF Due, Spot
      <4>4. Elements(l) \cap S = {}
        BY <2>4, <3>8 DEF DueAt
      <4>5. Among(l, S) = <<>>
        BY <4>4, AmongAll
      <4>6. PICK b \in Seq(Event) : b = Among(a, S)
        BY AmongIs
      <4>7. b \o <<>> = b
        OBVIOUS
      <4> QED
        BY <3>6, <4>3, <4>5, <4>6, <4>7
    <3> QED
      BY <3>7, <3>8
  <2>11. ASSUME NEW x \in 0..Ticks-1
         PROVE  Due(Filed(v, l, expire, ct), x, ct, expire) = Due(Wheel, x, now, expire)
    <3>1. CASE \E f \in P : expire[f] = x
      BY <2>10, <3>1
    <3>2. CASE \A f \in P : expire[f] # x
      BY <2>9, <3>2, DueNone
    <3> QED
      BY <3>1, <3>2
  <2> QED
    BY <1>2, <2>1, <2>2, <2>9, <2>11
<1> QED
  BY <1>1, <1>2, ShiftedIs

(* The list of the present tick is what is due now, and all of it.         *)
LEMMA PresentIs ==
    ASSUME NEW w, NEW P \in SUBSET Event, NEW exp \in Expiries, NEW now \in 0..Ticks-1,
           WheelOK(w, P, exp, now)
    PROVE  /\ NearIndex(now) \in Cells(-1)
           /\ ListAt(w, -1, NearIndex(now)) \in Seq(Event)
           /\ \A e : e \in Elements(ListAt(w, -1, NearIndex(now))) <=> e \in P /\ exp[e] = now
           /\ ListAt(w, -1, NearIndex(now)) = Due(w, now, now, exp)
           /\ Due(Emptied(w, -1, NearIndex(now)), now, now, exp) = <<>>
           /\ \A x \in 0..Ticks-1 : x # now =>
                Due(Emptied(w, -1, NearIndex(now)), x, now, exp) = Due(w, x, now, exp)
<1>0. Formed(w) /\ now \in Nat /\ -1 \in Levels
  BY TicksAre, LevelsAre DEF WheelOK
<1>1. PICK u : u = NearIndex(now)
  OBVIOUS
<1>2. Cell(-1, now) = u /\ u \in Cells(-1)
  <2>1. Cell(-1, now) = u
    BY <1>1 DEF Cell
  <2> QED
    BY <1>0, <2>1, BlockIs
<1>3. Home(now, now) = -1
  <2>1. Same((-1) + 1, now, now)
    BY DEF Same
  <2> QED
    BY <1>0, <2>1, HomeIs
<1>4. PICK l \in Seq(Event) : l = ListAt(w, -1, u)
  BY <1>0, <1>2, FormedIs
<1>5. \A e : e \in Elements(l) <=> e \in P /\ exp[e] = now
  <2>1. ASSUME NEW e \in Elements(l) PROVE e \in P /\ exp[e] = now
    <3>1. e \in P /\ Home(exp[e], now) = -1 /\ Cell(-1, exp[e]) = u
      BY <1>0, <1>2, <1>4 DEF WheelOK
    <3>2. exp[e] \in 0..Ticks-1 /\ exp[e] \in Nat
      BY <3>1, TicksAre DEF Expiries
    <3>3. Same((-1) + 1, exp[e], now)
      BY <1>0, <3>1, <3>2, HomeIs
    <3>4. Same(-1, exp[e], now)
      BY <1>0, <1>2, <3>1, <3>2, <3>3, BlockIs
    <3> QED
      BY <3>1, <3>4 DEF Same, Block
  <2>2. ASSUME NEW e \in P, exp[e] = now PROVE e \in Elements(l)
    BY <1>2, <1>3, <1>4, <2>2 DEF WheelOK
  <2> QED
    BY <2>1, <2>2
<1>6. Spot(w, now, now) = l
  BY <1>2, <1>3, <1>4 DEF Spot
<1>7. Due(w, now, now, exp) = l
  <2>1. Elements(l) \subseteq DueAt(now, exp)
    BY <1>5 DEF DueAt
  <2> QED
    BY <1>6, <2>1, AmongAll DEF Due
<1>8. PICK v : v = Emptied(w, -1, u)
  OBVIOUS
<1>9. \A j \in Levels : \A m \in Cells(j) :
          ListAt(v, j, m) = IF j = -1 /\ m = u THEN <<>> ELSE ListAt(w, j, m)
  BY <1>0, <1>2, <1>8, EmptiedLists
<1>10. ASSUME NEW x \in 0..Ticks-1
       PROVE  /\ x = now => Due(v, x, now, exp) = <<>>
              /\ x # now => Due(v, x, now, exp) = Due(w, x, now, exp)
  <2>1. Home(x, now) \in Levels /\ Cell(Home(x, now), x) \in Cells(Home(x, now))
    BY <1>0, SpotIs
  <2>2. CASE Home(x, now) = -1 /\ Cell(-1, x) = u
    <3>1. Spot(v, x, now) = <<>> /\ Spot(w, x, now) = l
      BY <1>0, <1>2, <1>4, <1>9, <2>2 DEF Spot
    <3>2. Due(v, x, now, exp) = <<>>
      BY <3>1, AmongIs DEF Due
    <3>3. ASSUME x # now PROVE Due(w, x, now, exp) = <<>>
      <4>1. Elements(l) \cap DueAt(x, exp) = {}
        BY <1>5, <3>3 DEF DueAt
      <4> QED
        BY <3>1, <4>1, AmongAll DEF Due
    <3> QED
      BY <3>2, <3>3
  <2>3. CASE ~(Home(x, now) = -1 /\ Cell(-1, x) = u)
    <3>1. x # now
      BY <1>2, <1>3, <2>3
    <3>2. Spot(v, x, now) = Spot(w, x, now)
      BY <1>9, <2>1, <2>3 DEF Spot
    <3> QED
      BY <3>1, <3>2 DEF Due
  <2> QED
    BY <2>2, <2>3
<1> QED
  BY <1>1, <1>2, <1>4, <1>5, <1>7, <1>8, <1>10

(* The same, one fact at a time                                            *)
LEMMA PresentCell ==
    ASSUME NEW w, NEW P \in SUBSET Event, NEW exp \in Expiries, NEW now \in 0..Ticks-1,
           WheelOK(w, P, exp, now)
    PROVE  NearIndex(now) \in Cells(-1) /\ ListAt(w, -1, NearIndex(now)) \in Seq(Event)
BY PresentIs

(* ... who is in the list of the present tick ...                          *)
LEMMA PresentElements ==
    ASSUME NEW w, NEW P \in SUBSET Event, NEW exp \in Expiries, NEW now \in 0..Ticks-1,
           WheelOK(w, P, exp, now)
    PROVE  \A e : e \in Elements(ListAt(w, -1, NearIndex(now))) <=> e \in P /\ exp[e] = now
BY PresentIs

(* ... that it is what is due ...                                          *)
LEMMA PresentDue ==
    ASSUME NEW w, NEW P \in SUBSET Event, NEW exp \in Expiries, NEW now \in 0..Ticks-1,
           WheelOK(w, P, exp, now)
    PROVE  ListAt(w, -1, NearIndex(now)) = Due(w, now, now, exp)
BY PresentIs

(* ... that nothing is due once it is taken out ...                        *)
LEMMA PresentTaken ==
    ASSUME NEW w, NEW P \in SUBSET Event, NEW exp \in Expiries, NEW now \in 0..Ticks-1,
           WheelOK(w, P, exp, now)
    PROVE  Due(Emptied(w, -1, NearIndex(now)), now, now, exp) = <<>>
BY PresentIs

(* ... and that the other ticks lose nothing by it.                        *)
LEMMA PresentOthers ==
    ASSUME NEW w, NEW P \in SUBSET Event, NEW exp \in Expiries, NEW now \in 0..Ticks-1,
           WheelOK(w, P, exp, now), NEW x \in 0..Ticks-1, x # now
    PROVE  Due(Emptied(w, -1, NearIndex(now)), x, now, exp) = Due(w, x, now, exp)
BY PresentIs

Alone(e) == <<e>>
Grown(d, e, y, x) == IF y = x THEN Added(d, e) ELSE d

(* A new timeout is the last of its tick, and no other tick sees it.       *)
LEMMA FiledDue ==
    ASSUME NEW w, NEW P \in SUBSET Event, NEW exp \in Expiries, NEW now \in 0..Ticks-1,
           WheelOK(w, P, exp, now), NEW e \in Event, e \notin P, NEW new \in Expiries,
           \A f \in Event : f # e => new[f] = exp[f],
           NEW l \in Seq(Event), l = Alone(e), NEW x \in 0..Ticks-1
    PROVE  Due(Filed(w, l, new, now), x, now, new) = Grown(Due(w, x, now, exp), e, new[e], x)
<1>h. /\ new \in Expiries /\ \A f \in Event : f # e => new[f] = exp[f]
      /\ Formed(w) /\ l = <<e>> /\ Elements(l) = {e}
  BY ElementsOf DEF WheelOK, Alone
<1>0. PICK h \in Levels : h = Home(x, now)
  BY <1>h, SpotIs
<1>1. PICK c \in Cells(h) : h = Home(x, now) /\ c = Cell(h, x)
  BY <1>h, <1>0, SpotIs
<1>2. PICK a \in Seq(Event) : a = ListAt(w, h, c)
  BY <1>h, FormedIs
<1>3. PICK T : T = To(h, c, new, now)
  OBVIOUS
<1>4. PICK b \in Seq(Event) : b = Among(l, T)
  BY AmongIs
<1>5. Spot(w, x, now) = a /\ Spot(Filed(w, l, new, now), x, now) = a \o b
  <2>0. /\ new \in Expiries
        /\ Formed(w)
    BY <1>h
  <2>1. ListAt(Filed(w, l, new, now), h, c) = Joined(ListAt(w, h, c), Among(l, To(h, c, new, now)))
    BY <2>0, <1>1, FiledListIs
  <2>2. Joined(a, b) = a \o b
    BY DEF Joined
  <2> QED
    BY <2>2, <1>1, <1>2, <1>3, <1>4, <2>1 DEF Spot
<1>6. PICK S : S = DueAt(x, new)
  OBVIOUS
<1>7. Among(a \o b, S) = Among(a, S) \o Among(l, T \cap S)
  <2>1. Among(a \o b, S) = Among(a, S) \o Among(b, S)
    BY AmongConcat
  <2>2. Among(b, S) = Among(l, T \cap S)
    BY <1>4, AmongTwice
  <2> QED
    BY <2>1, <2>2
<1>8. Among(a, S) = Due(w, x, now, exp)
  <2>1. Elements(a) \subseteq P
    BY <1>2 DEF WheelOK
  <2>2. Elements(a) \cap S = Elements(a) \cap DueAt(x, exp)
    BY <1>h, <1>6, <2>1 DEF DueAt
  <2>3. Among(a, S) = Among(a, DueAt(x, exp))
    BY <2>2, AmongSame
  <2> QED
    BY <1>5, <2>3 DEF Due
<1>9. PICK d \in Seq(Event) : d = Among(a, S)
  BY AmongIs
<1>10. CASE new[e] = x
  <2>1. e \in T \cap S
    BY <1>h, <1>1, <1>3, <1>6, <1>10 DEF To, DueAt
  <2>2. Among(l, T \cap S) = l
    <3>1. Elements(l) \subseteq T \cap S
      BY <1>h, <2>1
    <3> QED
      BY <3>1, AmongAll
  <2>3. d \o l = Added(d, e)
    BY <1>h DEF Added
  <2> QED
    BY <1>5, <1>6, <1>7, <1>8, <1>9, <1>10, <2>2, <2>3 DEF Due, Grown
<1>11. CASE new[e] # x
  <2>1. Elements(l) \cap (T \cap S) = {}
    BY <1>h, <1>6, <1>11 DEF DueAt
  <2>2. Among(l, T \cap S) = <<>>
    BY <2>1, AmongAll
  <2>3. d \o <<>> = d
    OBVIOUS
  <2> QED
    BY <1>5, <1>6, <1>7, <1>8, <1>9, <1>11, <2>2, <2>3 DEF Due, Grown
<1> QED
  BY <1>10, <1>11

(* The new timeout is filed where it belongs.                              *)
LEMMA FiledHolds ==
    ASSUME NEW w, NEW P \in SUBSET Event, NEW exp \in Expiries, NEW now \in 0..Ticks-1,
           WheelOK(w, P, exp, now), NEW e \in Event, e \notin P, NEW new \in Expiries,
           \A f \in Event : f # e => new[f] = exp[f],
           NEW l \in Seq(Event), l = Alone(e)
    PROVE  WheelOK(Filed(w, l, new, now), P \cup {e}, new, now)
<1>1. WheelOK(w, P, new, now)
  BY Rewound
<1> QED
  BY <1>1, FiledOK, ElementsOf DEF Alone

(* Its tick has it last ...                                                *)
LEMMA FiledLast ==
    ASSUME NEW w, NEW P \in SUBSET Event, NEW exp \in Expiries, NEW now \in 0..Ticks-1,
           WheelOK(w, P, exp, now), NEW e \in Event, e \notin P, NEW new \in Expiries,
           \A f \in Event : f # e => new[f] = exp[f],
           NEW l \in Seq(Event), l = Alone(e), NEW x \in 0..Ticks-1, new[e] = x
    PROVE  Due(Filed(w, l, new, now), x, now, new) = Added(Due(w, x, now, exp), e)
BY FiledDue DEF Grown

(* ... and the other ticks are as they were.                               *)
LEMMA FiledOthers ==
    ASSUME NEW w, NEW P \in SUBSET Event, NEW exp \in Expiries, NEW now \in 0..Ticks-1,
           WheelOK(w, P, exp, now), NEW e \in Event, e \notin P, NEW new \in Expiries,
           \A f \in Event : f # e => new[f] = exp[f],
           NEW l \in Seq(Event), l = Alone(e), NEW x \in 0..Ticks-1, new[e] # x
    PROVE  Due(Filed(w, l, new, now), x, now, new) = Due(w, x, now, exp)
<1>1. Due(Filed(w, l, new, now), x, now, new) = Grown(Due(w, x, now, exp), e, new[e], x)
  BY FiledDue
<1>2. Grown(Due(w, x, now, exp), e, new[e], x) = Due(w, x, now, exp)
  BY DEF Grown
<1> QED
  BY <1>1, <1>2

(* What is ahead stays so until its tick.                                  *)
LEMMA AheadStays ==
    ASSUME NEW now \in 0..Ticks-1, NEW ct \in 0..Ticks-1, Follows(now, ct),
           NEW x \in 0..Ticks-1, Ahead(x, now), x # ct
    PROVE  Ahead(x, ct)
<1>1. Ticks \in Nat /\ Span[3] \in Nat
  BY SpanIs
<1> QED
  BY <1>1 DEF Ahead, Follows

(* A delay ends ahead of the present, since it leaves more than a list of  *)
(* level 3 of the counter's range.                                         *)
LEMMA DelayIsAhead ==
    ASSUME NEW now \in 0..Ticks-1, NEW delay \in Delay, delay # 0
    PROVE  (now + delay) % Ticks \in 0..Ticks-1 /\ Ahead((now + delay) % Ticks, now)
<1>1. PICK s \in Nat \ {0}, h \in Nat : s = Ticks /\ h = Span[3] /\ h < s
  BY SpanIs
<1>2. delay \in 1..s-h-1
  BY <1>1, WheelAssumption
<1>3. PICK b \in Nat : b = now + delay
  BY <1>1, <1>2
<1>4. CASE b < s
  <2>1. PICK q \in Nat, z \in 0..s-1 : q = 0 /\ z = b
    BY <1>4
  <2>2. b = s * q + z
    BY <2>1
  <2>3. b % s = z
    BY <2>2, ModIs
  <2> QED
    BY <1>1, <1>2, <1>3, <2>1, <2>3 DEF Ahead
<1>5. CASE b >= s
  <2>1. PICK q \in Nat, z \in 0..s-1 : q = 1 /\ z = b - s
    BY <1>1, <1>2, <1>3, <1>5
  <2>2. b = s * q + z
    BY <2>1
  <2>3. b % s = z
    BY <2>2, ModIs
  <2> QED
    BY <1>1, <1>2, <1>3, <1>5, <2>1, <2>3 DEF Ahead
<1> QED
  BY <1>1, <1>3, <1>4, <1>5
-----------------------------------------------------------------------------
(* The wheel as the timer thread and the services leave it between steps   *)
WheelInv ==
    /\ TypeOK
    /\ WheelOK(Wheel, pending, expire, time)
    /\ \A e \in pending : Ahead(expire[e], time)
    /\ current # <<>> <=> pc = "deliver"
    /\ diff = 0 <=> pc = "idle"

(* The types say that the wheel is formed.                                 *)
LEMMA ListsAreFormed == TypeOK => Formed(Wheel)
BY DEF TypeOK, Formed, Wheel

(* The empty wheel                                                         *)
LEMMA InitWheel ==
    ASSUME Init
    PROVE  WheelInv
<1>1. TypeOK
  <2>1. <<>> \in Seq(Event)
    BY AppendIs
  <2>2. near \in [0..TIME_NEAR-1 -> Seq(Event)]
    BY <2>1 DEF Init
  <2>3. t \in [Level -> [0..TIME_LEVEL-1 -> Seq(Event)]]
    BY <2>1 DEF Init
  <2>4. 0 \in 0..Ticks-1 /\ 0 \in 0..MaxStep
    BY TicksAre, WheelAssumption
  <2>5. expire \in [Event -> 0..Ticks-1]
    BY <2>4 DEF Init
  <2> QED
    BY <2>1, <2>2, <2>3, <2>4, <2>5 DEF Init, TypeOK
<1>2. ASSUME NEW i \in Levels, NEW k \in Cells(i) PROVE ListAt(Wheel, i, k) = <<>>
  <2>1. CASE i = -1
    BY <2>1, LevelsAre DEF Init, Wheel, ListAt
  <2>2. CASE i \in Level
    <3>1. k \in 0..TIME_LEVEL-1 /\ i # -1
      BY <2>2, LevelsAre
    <3> QED
      BY <2>2, <3>1 DEF Init, Wheel, ListAt
  <2> QED
    BY <2>1, <2>2, LevelsAre
<1>3. WheelOK(Wheel, pending, expire, time)
  BY <1>1, <1>2, ListsAreFormed, ElementsOf DEF WheelOK, Init
<1> QED
  BY <1>1, <1>3 DEF WheelInv, Init

(* The steps, in terms of what is due                                      *)

(* snownet_timeout adds one to what is due at its tick.                    *)
LEMMA TimeoutIs ==
    ASSUME WheelInv, NEW e \in Event, NEW delay \in Delay, Timeout(e, delay), delay # 0
    PROVE  \E y \in 0..Ticks-1 :
              /\ y = (time + delay) % Ticks /\ Ahead(y, time)
              /\ expire' = [expire EXCEPT ![e] = y] /\ expire' \in Expiries
              /\ e \notin pending /\ pending' = pending \cup {e}
              /\ WheelOK(Wheel', pending', expire', time)
              /\ \A x \in 0..Ticks-1 : Due(Wheel', x, time, expire') =
                    IF x = y THEN Added(Due(Wheel, x, time, expire), e)
                             ELSE Due(Wheel, x, time, expire)
<1>0. /\ time \in 0..Ticks-1 /\ expire \in Expiries /\ pending \in SUBSET Event
      /\ WheelOK(Wheel, pending, expire, time)
  BY DEF WheelInv, TypeOK, Expiries
<1>1. PICK y \in 0..Ticks-1 : y = (time + delay) % Ticks /\ Ahead(y, time)
  BY <1>0, DelayIsAhead
<1>2. PICK new : new = [expire EXCEPT ![e] = y]
  OBVIOUS
<1>3. /\ expire' = new /\ e \notin pending /\ pending' = pending \cup {e}
      /\ near' = Filed(Wheel, <<e>>, new, time).near
      /\ t' = Filed(Wheel, <<e>>, new, time).t
  BY <1>1, <1>2 DEF Timeout
<1>4. Wheel' = Filed(Wheel, <<e>>, new, time)
  BY <1>3 DEF Wheel, Filed
<1>5. new \in Expiries /\ new[e] = y /\ \A f \in Event : f # e => new[f] = expire[f]
  BY <1>0, <1>2 DEF Expiries
<1>6. PICK l \in Seq(Event) : l = <<e>> /\ l = Alone(e)
  <2>1. <<e>> \in Seq(Event)
    OBVIOUS
  <2> QED
    BY <2>1 DEF Alone
<1>7. /\ WheelOK(Filed(Wheel, l, new, time), pending \cup {e}, new, time)
      /\ Due(Filed(Wheel, l, new, time), y, time, new) = Added(Due(Wheel, y, time, expire), e)
      /\ \A x \in 0..Ticks-1 : x # y =>
            Due(Filed(Wheel, l, new, time), x, time, new) = Due(Wheel, x, time, expire)
  <2>1. e \notin pending
    BY <1>3
  <2>2. WheelOK(Filed(Wheel, l, new, time), pending \cup {e}, new, time)
    BY <1>0, <1>5, <1>6, <2>1, FiledHolds
  <2>3. Due(Filed(Wheel, l, new, time), y, time, new) = Added(Due(Wheel, y, time, expire), e)
    BY <1>0, <1>5, <1>6, <2>1, FiledLast
  <2>4. ASSUME NEW x \in 0..Ticks-1, x # y
        PROVE  Due(Filed(Wheel, l, new, time), x, time, new) = Due(Wheel, x, time, expire)
    BY <1>0, <1>5, <1>6, <2>1, <2>4, FiledOthers
  <2> QED
    BY <2>2, <2>3, <2>4
<1> QED
  BY <1>1, <1>2, <1>3, <1>4, <1>5, <1>6, <1>7

(* A tick takes what is due at it, and nothing else, out of the wheel.     *)
LEMMA TickIs ==
    ASSUME WheelInv, Tick
    PROVE  /\ time' = (time + 1) % Ticks /\ time' \in 0..Ticks-1
           /\ current = <<>>
           /\ current' \in Seq(Event) /\ current' = Due(Wheel, time', time, expire)
           /\ pending' = pending \ Elements(current') /\ Elements(current') \subseteq pending
           /\ UNCHANGED <<expire, answered>>
           /\ WheelOK(Wheel', pending', expire, time')
           /\ \A e \in pending' : Ahead(expire[e], time')
           /\ \A x \in 0..Ticks-1 : Due(Wheel', x, time', expire) =
                 IF x = time' THEN <<>> ELSE Due(Wheel, x, time, expire)
           /\ \/ pc' = "deliver" /\ current' # <<>> /\ diff' = diff
              \/ /\ current' = <<>> /\ diff' = diff - 1
                 /\ pc' = IF diff = 1 THEN "idle" ELSE "before"
<1>0. /\ time \in 0..Ticks-1 /\ expire \in Expiries /\ pending \in SUBSET Event
      /\ WheelOK(Wheel, pending, expire, time) /\ \A e \in pending : Ahead(expire[e], time)
      /\ current = <<>>
  BY DEF WheelInv, TypeOK, Expiries, Tick
<1>1. PICK ct \in 0..Ticks-1 : ct = time' /\ ct = (time + 1) % Ticks /\ Follows(time, ct)
  BY <1>0, TickFollows DEF Tick
<1>2. PICK w : w = Shifted(ct)
  OBVIOUS
<1>3. /\ WheelOK(w, pending, expire, ct)
      /\ \A x \in 0..Ticks-1 : Due(w, x, ct, expire) = Due(Wheel, x, time, expire)
  BY <1>0, <1>1, <1>2, ShiftedOK
<1>4. PICK u : u = NearIndex(ct)
  OBVIOUS
<1>5. PICK l : l = ListAt(w, -1, u)
  OBVIOUS
<1>6. /\ u \in Cells(-1) /\ l \in Seq(Event)
      /\ \A e : e \in Elements(l) <=> e \in pending /\ expire[e] = ct
      /\ l = Due(w, ct, ct, expire)
      /\ Due(Emptied(w, -1, u), ct, ct, expire) = <<>>
      /\ \A x \in 0..Ticks-1 : x # ct =>
            Due(Emptied(w, -1, u), x, ct, expire) = Due(w, x, ct, expire)
  <2>0. expire \in Expiries /\ pending \in SUBSET Event /\ WheelOK(w, pending, expire, ct)
    BY <1>0, <1>3
  <2>1. u \in Cells(-1) /\ l \in Seq(Event)
    BY <2>0, <1>4, <1>5, PresentCell
  <2>2. \A e : e \in Elements(l) <=> e \in pending /\ expire[e] = ct
    BY <2>0, <1>4, <1>5, PresentElements
  <2>3. l = Due(w, ct, ct, expire)
    BY <2>0, <1>4, <1>5, PresentDue
  <2>4. Due(Emptied(w, -1, u), ct, ct, expire) = <<>>
    BY <2>0, <1>4, PresentTaken
  <2>5. ASSUME NEW x \in 0..Ticks-1, x # ct
        PROVE  Due(Emptied(w, -1, u), x, ct, expire) = Due(w, x, ct, expire)
    BY <2>0, <2>5, <1>4, PresentOthers
  <2> QED
    BY <2>1, <2>2, <2>3, <2>4, <2>5
<1>7. l = w.near[u]
  BY <1>5 DEF ListAt
<1>8. Emptied(w, -1, u) = [w EXCEPT !.near[u] = <<>>]
  BY DEF Emptied
<1>9. Formed(w) /\ u \in 0..TIME_NEAR-1
  BY <1>3, <1>6, LevelsAre DEF WheelOK
<1>10. \/ /\ l # <<>> /\ current' = l
          /\ near' = [w.near EXCEPT ![u] = <<>>] /\ t' = w.t
          /\ pending' = pending \ Elements(current')
          /\ pc' = "deliver" /\ diff' = diff
       \/ /\ l = <<>> /\ near' = w.near /\ t' = w.t /\ diff' = diff - 1
          /\ pc' = (IF diff = 1 THEN "idle" ELSE "before")
          /\ pending' = pending /\ current' = current
  BY <1>1, <1>2, <1>4, <1>7 DEF Tick, Take, EndTick
<1>11. current' = l /\ pending' = pending \ Elements(l)
  BY <1>0, <1>10, ElementsOf
<1>12. Wheel' = Emptied(w, -1, u)
  <2>1. CASE near' = [w.near EXCEPT ![u] = <<>>] /\ t' = w.t
    BY <1>8, <1>9, <2>1 DEF Wheel, Formed
  <2>2. CASE l = <<>> /\ near' = w.near /\ t' = w.t
    <3>1. [w.near EXCEPT ![u] = <<>>] = w.near
      BY <1>7, <1>9, <2>2 DEF Formed
    <3> QED
      BY <1>8, <1>9, <2>2, <3>1 DEF Wheel, Formed
  <2> QED
    BY <1>10, <2>1, <2>2
<1>13. WheelOK(Emptied(w, -1, u), pending \ Elements(l), expire, ct)
  BY <1>0, <1>3, <1>5, <1>6, EmptiedOK, LevelsAre
<1>14. ASSUME NEW e \in pending \ Elements(l) PROVE Ahead(expire[e], ct)
  <2>1. expire[e] # ct /\ expire[e] \in 0..Ticks-1 /\ Ahead(expire[e], time)
    BY <1>0, <1>6 DEF Expiries
  <2> QED
    BY <1>0, <1>1, <2>1, AheadStays
<1>15. UNCHANGED <<expire, answered>>
  BY DEF Tick
<1>16. l = Due(Wheel, ct, time, expire)
  BY <1>3, <1>6
<1>17. \A x \in 0..Ticks-1 : Due(Emptied(w, -1, u), x, ct, expire) =
          IF x = ct THEN <<>> ELSE Due(Wheel, x, time, expire)
  BY <1>3, <1>6
<1> QED
  BY <1>0, <1>1, <1>6, <1>10, <1>11, <1>12, <1>13, <1>14, <1>15, <1>16, <1>17

(* Nothing has been added for the tick that has just been delivered.       *)
LEMMA AfterIs ==
    ASSUME WheelInv, After
    PROVE  /\ UNCHANGED <<time, near, t, expire, pending, current, answered>>
           /\ diff' = diff - 1 /\ pc' = IF diff = 1 THEN "idle" ELSE "before"
<1>0. /\ time \in 0..Ticks-1 /\ expire \in Expiries /\ pending \in SUBSET Event
      /\ WheelOK(Wheel, pending, expire, time) /\ \A e \in pending : Ahead(expire[e], time)
  BY DEF WheelInv, TypeOK, Expiries
<1>1. \A e \in pending : expire[e] # time
  <2>1. Span[3] \in Nat
    BY SpanIs
  <2> QED
    BY <1>0, <2>1, TicksAre DEF Ahead
<1>2. Elements(ListAt(Wheel, -1, NearIndex(time))) = {}
  <2>1. \A e : e \in Elements(ListAt(Wheel, -1, NearIndex(time)))
                <=> e \in pending /\ expire[e] = time
    BY <1>0, PresentElements
  <2> QED
    BY <1>1, <2>1
<1>3. ListAt(Wheel, -1, NearIndex(time)) \in Seq(Event)
  BY <1>0, PresentCell
<1>4. near[NearIndex(time)] = <<>>
  BY <1>2, <1>3, ElementsOf DEF ListAt, Wheel
<1> QED
  BY <1>4 DEF After, EndTick, Wheel

(* The invariant, from what changes of it                                  *)
LEMMA Reassembled ==
    ASSUME time' \in 0..Ticks-1, expire' \in Expiries, pending' \in SUBSET Event,
           WheelOK(Wheel', pending', expire', time'),
           \A e \in pending' : Ahead(expire'[e], time'),
           current' \in Seq(Event), answered' \in SUBSET Event, diff' \in 0..MaxStep,
           pc' \in {"idle", "before", "deliver", "after"},
           current' # <<>> <=> pc' = "deliver", diff' = 0 <=> pc' = "idle"
    PROVE  WheelInv'
<1>1. Formed(Wheel')
  BY DEF WheelOK
<1>2. /\ near' \in [0..TIME_NEAR-1 -> Seq(Event)]
      /\ t' \in [Level -> [0..TIME_LEVEL-1 -> Seq(Event)]]
  BY <1>1 DEF Formed, Wheel
<1>3. TypeOK'
  BY <1>2 DEF TypeOK, Expiries
<1> QED
  BY <1>3 DEF WheelInv

(* The parts of the invariant                                              *)
LEMMA WheelInvIs ==
    ASSUME WheelInv
    PROVE  /\ time \in 0..Ticks-1 /\ expire \in Expiries /\ pending \in SUBSET Event
           /\ WheelOK(Wheel, pending, expire, time)
           /\ \A e \in pending : Ahead(expire[e], time)
           /\ current \in Seq(Event) /\ answered \in SUBSET Event /\ diff \in 0..MaxStep
           /\ pc \in {"idle", "before", "deliver", "after"}
           /\ current # <<>> <=> pc = "deliver"
           /\ diff = 0 <=> pc = "idle"
BY DEF WheelInv, TypeOK, Expiries

(* While the timer thread is at work there is a tick left to do.           *)
LEMMA DiffGoesOn ==
    ASSUME WheelInv, pc # "idle"
    PROVE  diff - 1 \in 0..MaxStep /\ (diff - 1 = 0 <=> diff = 1)
BY WheelInvIs, WheelAssumption

(* Every step keeps the invariant.                                         *)
LEMMA InvKept ==
    ASSUME WheelInv, [Next]_vars
    PROVE  WheelInv'
<1>0. /\ time \in 0..Ticks-1 /\ expire \in Expiries /\ pending \in SUBSET Event
      /\ WheelOK(Wheel, pending, expire, time)
      /\ \A e \in pending : Ahead(expire[e], time)
      /\ current \in Seq(Event) /\ answered \in SUBSET Event /\ diff \in 0..MaxStep
      /\ pc \in {"idle", "before", "deliver", "after"}
      /\ current # <<>> <=> pc = "deliver"
      /\ diff = 0 <=> pc = "idle"
  BY WheelInvIs
<1>1. ASSUME NEW e \in Event, NEW delay \in Delay, Timeout(e, delay)
      PROVE  WheelInv'
  <2>0. UNCHANGED <<time, current, diff, pc>>
    BY <1>1 DEF Timeout
  <2>1. CASE delay = 0
    <3>1. UNCHANGED <<near, t, expire, pending>> /\ answered' = answered \cup {e}
      BY <1>1, <2>1 DEF Timeout, wheel
    <3>2. Wheel' = Wheel
      BY <3>1 DEF Wheel
    <3> QED
      BY <1>0, <2>0, <3>1, <3>2, Reassembled
  <2>2. CASE delay # 0
    <3>1. PICK y \in 0..Ticks-1 :
             /\ Ahead(y, time)
             /\ expire' = [expire EXCEPT ![e] = y] /\ expire' \in Expiries
             /\ pending' = pending \cup {e}
             /\ WheelOK(Wheel', pending', expire', time)
      BY <1>1, <2>2, TimeoutIs
    <3>2. answered' = answered
      BY <1>1, <2>2 DEF Timeout
    <3>3. \A f \in pending' : Ahead(expire'[f], time)
      BY <1>0, <3>1 DEF Expiries
    <3>4. pending' \in SUBSET Event
      BY <1>0, <3>1
    <3> QED
      BY <1>0, <2>0, <3>1, <3>2, <3>3, <3>4, Reassembled
  <2> QED
    BY <2>1, <2>2
<1>2. ASSUME NEW step \in -1..MaxStep, Updatetime(step)
      PROVE  WheelInv'
  <2>1. UNCHANGED <<time, near, t, expire, pending, current, answered>>
    BY <1>2 DEF Updatetime, wheel
  <2>2. Wheel' = Wheel
    BY <2>1 DEF Wheel
  <2>3. /\ diff' \in 0..MaxStep /\ pc' \in {"idle", "before"}
        /\ diff' = 0 <=> pc' = "idle"
    BY <1>2, WheelAssumption DEF Updatetime
  <2>4. current' = <<>>
    BY <1>0, <1>2, <2>1 DEF Updatetime
  <2> QED
    BY <1>0, <2>1, <2>2, <2>3, <2>4, Reassembled
<1>3. CASE Tick
  <2>1. /\ time' \in 0..Ticks-1 /\ current' \in Seq(Event)
        /\ pending' = pending \ Elements(current')
        /\ UNCHANGED <<expire, answered>>
        /\ WheelOK(Wheel', pending', expire, time')
        /\ \A e \in pending' : Ahead(expire[e], time')
        /\ \/ pc' = "deliver" /\ current' # <<>> /\ diff' = diff
           \/ /\ current' = <<>> /\ diff' = diff - 1
              /\ pc' = IF diff = 1 THEN "idle" ELSE "before"
    BY <1>3, TickIs
  <2>2. pc # "idle"
    BY <1>3 DEF Tick
  <2>3. diff - 1 \in 0..MaxStep /\ (diff - 1 = 0 <=> diff = 1) /\ diff # 0
    BY <1>0, <2>2, DiffGoesOn
  <2>4. /\ diff' \in 0..MaxStep /\ pc' \in {"idle", "before", "deliver", "after"}
        /\ current' # <<>> <=> pc' = "deliver"
        /\ diff' = 0 <=> pc' = "idle"
    BY <1>0, <2>1, <2>3
  <2>5. pending' \in SUBSET Event
    BY <1>0, <2>1
  <2> QED
    BY <1>0, <2>1, <2>4, <2>5, Reassembled
<1>4. CASE Deliver
  <2>1. UNCHANGED <<time, near, t, expire, pending, diff>>
    BY <1>4 DEF Deliver, wheel
  <2>2. Wheel' = Wheel
    BY <2>1 DEF Wheel
  <2>3. /\ current # <<>> /\ current' = Tail(current)
        /\ answered' = answered \cup {Head(current)}
        /\ pc' = IF Len(current) = 1 THEN "after" ELSE "deliver"
        /\ pc = "deliver"
    BY <1>0, <1>4 DEF Deliver
  <2>4. current' \in Seq(Event) /\ (current' = <<>> <=> Len(current) = 1)
    <3>1. PICK l \in Seq(Event) : l = current
      BY <1>0
    <3>2. l # <<>> /\ current' = Tail(l)
      BY <2>3, <3>1
    <3>3. Tail(l) \in Seq(Event) /\ Len(Tail(l)) = Len(l) - 1
      BY <3>2
    <3>4. Len(Tail(l)) \in Nat /\ (Tail(l) = <<>> <=> Len(Tail(l)) = 0)
      BY <3>3, EmptySeq
    <3> QED
      BY <3>1, <3>2, <3>3, <3>4
  <2>5. answered' \in SUBSET Event
    BY <1>0, <2>3, ElementsOf
  <2>6. diff # 0
    BY <1>0, <2>3
  <2> QED
    BY <1>0, <2>1, <2>2, <2>3, <2>4, <2>5, <2>6, Reassembled
<1>5. CASE After
  <2>1. /\ UNCHANGED <<time, near, t, expire, pending, current, answered>>
        /\ diff' = diff - 1 /\ pc' = IF diff = 1 THEN "idle" ELSE "before"
    BY <1>5, AfterIs
  <2>2. Wheel' = Wheel
    BY <2>1 DEF Wheel
  <2>3. pc = "after"
    BY <1>5 DEF After
  <2>4. diff - 1 \in 0..MaxStep /\ (diff - 1 = 0 <=> diff = 1)
    BY <2>3, DiffGoesOn
  <2>5. current' = <<>>
    BY <1>0, <2>1, <2>3
  <2> QED
    BY <1>0, <2>1, <2>2, <2>3, <2>4, <2>5, Reassembled
<1>6. CASE UNCHANGED vars
  <2>1. UNCHANGED <<time, near, t, expire, pending, current, answered, diff, pc>>
    BY <1>6 DEF vars, wheel
  <2>2. Wheel' = Wheel
    BY <2>1 DEF Wheel
  <2> QED
    BY <1>0, <2>1, <2>2, Reassembled
<1> QED
  BY <1>1, <1>2, <1>3, <1>4, <1>5, <1>6 DEF Next
-----------------------------------------------------------------------------
(* The place of an expiry, and what is due, in the words of the model      *)
LEMMA PlaceIs ==
    ASSUME WheelInv, NEW x \in 0..Ticks-1
    PROVE  PlaceOf(x) = Spot(Wheel, x, time)
<1>1. time \in 0..Ticks-1
  BY WheelInvIs
<1>2. /\ IsNear(x, time) <=> Home(x, time) = -1
      /\ ~IsNear(x, time) => LevelOf(x, time) = Home(x, time)
  BY <1>1, LevelsAre
<1>3. CASE IsNear(x, time)
  BY <1>2, <1>3 DEF PlaceOf, Spot, ListAt, Cell, Wheel
<1>4. CASE ~IsNear(x, time)
  BY <1>2, <1>4 DEF PlaceOf, Spot, ListAt, Cell, Wheel
<1> QED
  BY <1>3, <1>4

(* It says where each timeout is, in the words of the model.               *)
LEMMA WheelIsFiled ==
    ASSUME WheelInv
    PROVE  FiledByExpiry
<1>0. /\ time \in 0..Ticks-1 /\ expire \in Expiries /\ pending \in SUBSET Event
      /\ WheelOK(Wheel, pending, expire, time)
      /\ \A e \in pending : Ahead(expire[e], time)
  BY WheelInvIs
<1>1. \A e \in pending : expire[e] \in 0..Ticks-1
  BY <1>0 DEF Expiries
<1>2. ASSUME NEW e \in pending PROVE e \in Elements(PlaceOf(expire[e]))
  <2>1. PlaceOf(expire[e]) = Spot(Wheel, expire[e], time)
    BY <1>1, PlaceIs
  <2> QED
    BY <1>0, <2>1 DEF WheelOK, Spot
<1>3. ASSUME NEW i \in Levels, NEW c \in Cells(i), NEW k \in DOMAIN ListAt(Wheel, i, c)
      PROVE  /\ ListAt(Wheel, i, c)[k] \in pending
             /\ ListAt(Wheel, i, c) = PlaceOf(expire[ListAt(Wheel, i, c)[k]])
  <2>1. PICK e : e = ListAt(Wheel, i, c)[k]
    OBVIOUS
  <2>2. e \in Elements(ListAt(Wheel, i, c))
    BY <2>1 DEF Elements
  <2>3. e \in pending /\ Home(expire[e], time) = i /\ Cell(i, expire[e]) = c
    BY <1>0, <2>2 DEF WheelOK
  <2>4. PlaceOf(expire[e]) = Spot(Wheel, expire[e], time)
    BY <1>1, <2>3, PlaceIs
  <2> QED
    BY <2>1, <2>3, <2>4 DEF Spot
<1>4. ASSUME NEW list \in Lists
      PROVE  \E i \in Levels : \E c \in Cells(i) : list = ListAt(Wheel, i, c)
  <2>0. /\ near \in [0..TIME_NEAR-1 -> Seq(Event)]
        /\ t \in [Level -> [0..TIME_LEVEL-1 -> Seq(Event)]]
    BY DEF WheelInv, TypeOK
  <2>1. CASE list \in {near[k] : k \in DOMAIN near}
    <3>1. PICK k \in 0..TIME_NEAR-1 : list = near[k]
      BY <2>0, <2>1
    <3>2. list = ListAt(Wheel, -1, k)
      BY <3>1 DEF ListAt, Wheel
    <3> QED
      BY <3>2, LevelsAre
  <2>2. ASSUME NEW i \in Level, list \in {t[i][k] : k \in DOMAIN t[i]}
        PROVE  \E j \in Levels : \E c \in Cells(j) : list = ListAt(Wheel, j, c)
    <3>0. t[i] \in [0..TIME_LEVEL-1 -> Seq(Event)]
      BY <2>0
    <3>1. PICK k \in 0..TIME_LEVEL-1 : list = t[i][k]
      BY <2>2, <3>0
    <3>2. i \in Levels /\ i # -1 /\ k \in Cells(i)
      BY LevelsAre
    <3>3. list = ListAt(Wheel, i, k)
      BY <3>1, <3>2 DEF ListAt, Wheel
    <3> QED
      BY <3>2, <3>3
  <2> QED
    BY <2>1, <2>2 DEF Lists
<1>5. ASSUME NEW list \in Lists, NEW k \in DOMAIN list
      PROVE  list[k] \in pending /\ list = PlaceOf(expire[list[k]])
  <2>1. PICK i \in Levels : \E c \in Cells(i) : list = ListAt(Wheel, i, c)
    BY <1>4
  <2>2. PICK c \in Cells(i) : list = ListAt(Wheel, i, c)
    BY <2>1
  <2> QED
    BY <1>3, <2>2
<1>6. \A e \in pending : expire[e] # time
  <2>1. Span[3] \in Nat
    BY SpanIs
  <2> QED
    BY <1>0, <2>1, TicksAre DEF Ahead
<1>7. TypeOK
  BY DEF WheelInv
<1> QED
  BY <1>2, <1>5, <1>6, <1>7 DEF FiledByExpiry

(* What is due, in the words of the model                                  *)
LEMMA AgendaIs ==
    WheelInv => Agenda = [x \in 0..Ticks-1 |-> Due(Wheel, x, time, expire)]
<1> SUFFICES ASSUME WheelInv
             PROVE  Agenda = [x \in 0..Ticks-1 |-> Due(Wheel, x, time, expire)]
  OBVIOUS
<1>0. Formed(Wheel) /\ time \in 0..Ticks-1
  BY WheelInvIs DEF WheelOK
<1> DEFINE What(x) == IF \A e \in Event : expire[e] # x THEN <<>>
                      ELSE Among(PlaceOf(x), {e \in Event : expire[e] = x})
<1>1. ASSUME NEW x \in 0..Ticks-1
      PROVE  What(x) = Due(Wheel, x, time, expire)
  <2>1. PICK l \in Seq(Event) : l = Spot(Wheel, x, time)
    BY <1>0, SpotIs
  <2>2. Due(Wheel, x, time, expire) = Among(l, DueAt(x, expire))
    BY <2>1 DEF Due
  <2>3. CASE \A e \in Event : expire[e] # x
    <3>1. Elements(l) \cap DueAt(x, expire) = {}
      BY <2>3 DEF DueAt
    <3>2. Among(l, DueAt(x, expire)) = <<>>
      BY <3>1, AmongAll
    <3> QED
      BY <2>2, <2>3, <3>2
  <2>4. CASE ~\A e \in Event : expire[e] # x
    <3>1. PlaceOf(x) = l
      BY <2>1, PlaceIs
    <3> QED
      BY <2>2, <2>4, <3>1 DEF DueAt
  <2> QED
    BY <2>3, <2>4
<1>2. Agenda = [x \in 0..Ticks-1 |-> What(x)]
  BY DEF Agenda
<1> HIDE DEF What
<1> QED
  BY <1>1, <1>2

(* One step of the wheel is one of the alarm clock, or nothing to it.      *)
LEMMA StepIsAlarm ==
    ASSUME WheelInv, [Next]_vars
    PROVE  [A!AlarmsNext]_(A!alarmVars)
<1> DEFINE Held == [x \in 0..Ticks-1 |-> Due(Wheel, x, time, expire)]
           Asked == pending \cup Elements(current) \cup answered
<1>0. /\ time \in 0..Ticks-1 /\ expire \in Expiries /\ pending \in SUBSET Event
      /\ current \in Seq(Event)
      /\ pc \in {"idle", "before", "deliver", "after"}
      /\ current # <<>> <=> pc = "deliver"
  BY WheelInvIs
<1>1. WheelInv'
  BY InvKept
<1>2. Agenda = Held
  BY AgendaIs
<1>3. Agenda' = [x \in 0..Ticks-1 |-> Due(Wheel', x, time', expire')]
  <2>1. (WheelInv => Agenda = [x \in 0..Ticks-1 |-> Due(Wheel, x, time, expire)])'
    BY AgendaIs, PTL
  <2> QED
    BY <1>1, <2>1
<1>4. ASSUME UNCHANGED <<time, near, t, expire>> PROVE Agenda' = Agenda
  <2>1. Wheel' = Wheel
    BY <1>4 DEF Wheel
  <2> QED
    BY <1>2, <1>3, <1>4, <2>1
<1>5. ASSUME NEW e \in Event, NEW delay \in Delay, Timeout(e, delay)
      PROVE  A!Ask(e, delay)
  <2>0. UNCHANGED <<time, current, diff, pc>> /\ e \notin Asked
    BY <1>5 DEF Timeout, Elements
  <2>1. CASE delay = 0
    <3>1. UNCHANGED <<near, t, expire, pending>> /\ answered' = answered \cup {e}
      BY <1>5, <2>1 DEF Timeout, wheel
    <3>2. Agenda' = Agenda
      BY <1>4, <2>0, <3>1
    <3> QED
      BY <2>0, <2>1, <3>1, <3>2 DEF A!Ask
  <2>2. CASE delay # 0
    <3>1. PICK y \in 0..Ticks-1 :
             /\ y = (time + delay) % Ticks
             /\ pending' = pending \cup {e}
             /\ \A x \in 0..Ticks-1 : Due(Wheel', x, time, expire') =
                   IF x = y THEN Added(Due(Wheel, x, time, expire), e)
                            ELSE Due(Wheel, x, time, expire)
      BY <1>5, <2>2, TimeoutIs
    <3>2. answered' = answered
      BY <1>5, <2>2 DEF Timeout
    <3>3. Agenda' = [Agenda EXCEPT ![y] = Append(@, e)]
      <4>1. [Held EXCEPT ![y] = Added(@, e)] =
                [x \in 0..Ticks-1 |-> IF x = y THEN Added(Due(Wheel, x, time, expire), e)
                                      ELSE Due(Wheel, x, time, expire)]
        OBVIOUS
      <4>2. Agenda' = [x \in 0..Ticks-1 |-> IF x = y THEN Added(Due(Wheel, x, time, expire), e)
                                            ELSE Due(Wheel, x, time, expire)]
        BY <1>3, <2>0, <3>1
      <4>3. Agenda' = [Agenda EXCEPT ![y] = Added(@, e)]
        BY <1>2, <4>1, <4>2
      <4> QED
        BY <4>3 DEF Added
    <3> QED
      BY <2>0, <2>2, <3>1, <3>2, <3>3 DEF A!Ask
  <2> QED
    BY <2>1, <2>2
<1>6. ASSUME NEW step \in -1..MaxStep, Updatetime(step)
      PROVE  UNCHANGED A!alarmVars
  <2>1. UNCHANGED <<time, near, t, expire, pending, current, answered>>
    BY <1>6 DEF Updatetime, wheel
  <2> QED
    BY <1>4, <2>1 DEF A!alarmVars
<1>7. CASE Tick
  <2>1. /\ time' = (time + 1) % Ticks /\ time' \in 0..Ticks-1
        /\ current = <<>>
        /\ current' \in Seq(Event) /\ current' = Due(Wheel, time', time, expire)
        /\ pending' = pending \ Elements(current') /\ Elements(current') \subseteq pending
        /\ UNCHANGED <<expire, answered>>
        /\ \A x \in 0..Ticks-1 : Due(Wheel', x, time', expire) =
              IF x = time' THEN <<>> ELSE Due(Wheel, x, time, expire)
    BY <1>7, TickIs
  <2>2. current' = Agenda[time']
    BY <1>2, <2>1
  <2>3. Agenda' = [Agenda EXCEPT ![time'] = <<>>]
    <3>1. [Held EXCEPT ![time'] = <<>>] =
              [x \in 0..Ticks-1 |-> IF x = time' THEN <<>> ELSE Due(Wheel, x, time, expire)]
      OBVIOUS
    <3>2. Agenda' = [x \in 0..Ticks-1 |-> IF x = time' THEN <<>> ELSE Due(Wheel, x, time, expire)]
      BY <1>3, <2>1
    <3> QED
      BY <1>2, <3>1, <3>2
  <2>4. Asked' = Asked
    <3>1. Elements(current) = {}
      BY <2>1, ElementsOf
    <3> QED
      BY <2>1, <3>1
  <2>5. A!Advance
    BY <2>1, <2>2, <2>3, <2>4 DEF A!Advance
  <2> QED
    BY <2>5 DEF A!AlarmsNext
<1>8. CASE Deliver
  <2>1. /\ UNCHANGED <<time, near, t, expire, pending>>
        /\ current # <<>> /\ current' = Tail(current)
        /\ answered' = answered \cup {Head(current)}
    BY <1>0, <1>8 DEF Deliver, wheel
  <2>2. Agenda' = Agenda
    BY <1>4, <2>1
  <2>3. Elements(current) = Elements(Tail(current)) \cup {Head(current)}
    BY <1>0, <2>1, ElementsOf
  <2>4. Asked' = Asked
    <3>1. Elements(current') = Elements(Tail(current))
      BY <2>1
    <3> QED
      BY <2>1, <2>3, <3>1
  <2>5. A!Answer
    BY <2>1, <2>2, <2>4 DEF A!Answer
  <2> QED
    BY <2>5 DEF A!AlarmsNext
<1>9. CASE After
  <2>1. UNCHANGED <<time, near, t, expire, pending, current, answered>>
    BY <1>9, AfterIs
  <2> QED
    BY <1>4, <2>1 DEF A!alarmVars
<1>10. CASE UNCHANGED vars
  <2>1. UNCHANGED <<time, near, t, expire, pending, current, answered>>
    BY <1>10 DEF vars, wheel
  <2> QED
    BY <1>4, <2>1 DEF A!alarmVars
<1> QED
  BY <1>5, <1>6, <1>7, <1>8, <1>9, <1>10 DEF Next, A!AlarmsNext
-----------------------------------------------------------------------------
(* Whatever the sizes of the wheel and the delays: through every cascade   *)
(* and the wrap of the counter, each timeout is in the list that its       *)
(* expiry and the present time say and in no other, and the list of the    *)
(* present tick holds nothing when the next tick comes.                    *)
THEOREM FiledWhereLookedFor == Spec => []FiledByExpiry
<1>1. WheelInv => FiledByExpiry
  BY WheelIsFiled
<1>2. WheelInv /\ [Next]_vars => WheelInv'
  BY InvKept
<1> QED
  BY <1>1, <1>2, InitWheel, PTL DEF Spec

(* The wheel is an alarm clock: each timeout is answered once, at the tick *)
(* it was asked for, and those of one tick in the order of their requests, *)
(* though some came to its list through the levels and others directly.    *)
THEOREM WheelIsAlarms == Spec => ImplementsAlarms
<1>1. Init => A!AlarmsInit
  <2> SUFFICES ASSUME Init PROVE A!AlarmsInit
    OBVIOUS
  <2>1. WheelInv
    BY InitWheel
  <2>2. Elements(current) = {}
    BY ElementsOf DEF Init
  <2>3. ASSUME NEW x \in 0..Ticks-1 PROVE Due(Wheel, x, time, expire) = <<>>
    <3>1. \A e \in pending : expire[e] # x
      BY DEF Init
    <3> QED
      BY <2>1, <3>1, WheelInvIs, DueNone
  <2>4. Agenda = [x \in 0..Ticks-1 |-> <<>>]
    <3>1. Agenda = [x \in 0..Ticks-1 |-> Due(Wheel, x, time, expire)]
      BY <2>1, AgendaIs
    <3> QED
      BY <2>3, <3>1
  <2> QED
    BY <2>2, <2>4 DEF Init, A!AlarmsInit
<1>2. WheelInv /\ [Next]_vars => WheelInv' /\ [A!AlarmsNext]_(A!alarmVars)
  BY InvKept, StepIsAlarm
<1> QED
  BY <1>1, <1>2, InitWheel, PTL DEF Spec, ImplementsAlarms, A!AlarmsSpec
=============================================================================
