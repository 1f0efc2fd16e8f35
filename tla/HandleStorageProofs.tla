------------------------ MODULE HandleStorageProofs ------------------------
(***************************************************************************)
(* For any number of services, launchers and aborters, and any number of   *)
(* handles that is a power of two: the state keeps its types and the names *)
(* their order; and if no doubling meets a context that waits for its      *)
(* handle, in particular with one launcher, what is registered is found    *)
(* and an abort misses nothing.                                            *)
(***************************************************************************)
EXTENDS HandleStorage, FiniteSetTheorems, SequenceTheorems, WellFoundedInduction, TLAPS

(* Division: quotient and remainder, and that nothing else is one.         *)
LEMMA DivMod ==
  ASSUME NEW a \in Nat, NEW s \in Nat \ {0}
  PROVE  a % s \in 0..s-1 /\ \E q \in Nat : a = s * q + (a % s)
<1>1. a % s \in 0..s-1
  OBVIOUS
<1>2. a \div s \in Int
  OBVIOUS
<1>3. a = s * (a \div s) + (a % s)
  OBVIOUS
<1>4. a \div s >= 0
  OBVIOUS
<1>5. a \div s \in Nat
  BY <1>2, <1>4
<1> QED
  BY <1>1, <1>3, <1>5

LEMMA ModIs ==
  ASSUME NEW s \in Nat \ {0}, NEW q \in Nat, NEW r \in 0..s-1, NEW a, a = s * q + r
  PROVE  a % s = r
<1>0. a \in Nat
  <2>1. s * q \in Nat
    OBVIOUS
  <2> QED
    BY <2>1
<1>1. PICK p \in Nat : a = s * p + (a % s) /\ a % s \in 0..s-1
  BY <1>0, DivMod
<1>2. p = q
  <2> DEFINE m == a % s
  <2>0. m \in 0..s-1 /\ s * p + m = s * q + r
    BY <1>1
  <2> HIDE DEF m
  <2>1. CASE p >= q + 1
    <3>1. s * p >= s * (q + 1)
      BY <2>1
    <3>2. s * (q + 1) = s * q + s
      OBVIOUS
    <3>3. PICK x \in Int, y \in Int : x = s * p /\ y = s * q
      OBVIOUS
    <3> QED
      BY <2>0, <3>1, <3>2, <3>3
  <2>2. CASE q >= p + 1
    <3>1. s * q >= s * (p + 1)
      BY <2>2
    <3>2. s * (p + 1) = s * p + s
      OBVIOUS
    <3>3. PICK x \in Int, y \in Int : x = s * p /\ y = s * q
      OBVIOUS
    <3> QED
      BY <2>0, <3>1, <3>2, <3>3
  <2> QED
    BY <2>1, <2>2
<1> QED
  BY <1>1, <1>2

(* Modulo twice a size a number stays where it was, or moves one size on.  *)
LEMMA HalfIs ==
  ASSUME NEW h \in Nat, NEW n \in Nat \ {0}
  PROVE  h % (2 * n) = h % n \/ h % (2 * n) = (h % n) + n
<1>1. PICK q \in Nat : h = n * q + (h % n) /\ h % n \in 0..n-1
  BY DivMod
<1> DEFINE r == h % n
<1>2. PICK k \in Nat : q = 2 * k \/ q = 2 * k + 1
  <2>1. q \div 2 \in Nat /\ (q = 2 * (q \div 2) \/ q = 2 * (q \div 2) + 1)
    OBVIOUS
  <2> QED
    BY <2>1
<1>r. r \in 0..n-1 /\ h = n * q + r
  BY <1>1
<1> HIDE DEF r
<1>s. PICK s \in Nat \ {0} : s = 2 * n
  OBVIOUS
<1>3. CASE q = 2 * k
  <2>1. n * q = s * k
    BY <1>3, <1>s
  <2>2. r \in 0..s-1
    BY <1>r, <1>s
  <2>3. h = s * k + r
    BY <1>r, <2>1
  <2>4. h % s = r
    BY <2>2, <2>3, ModIs
  <2> QED
    BY <1>s, <2>4 DEF r
<1>4. CASE q = 2 * k + 1
  <2>1. n * q = s * k + n
    BY <1>4, <1>s
  <2>2. PICK z \in 0..s-1 : z = r + n
    BY <1>r, <1>s
  <2>3. h = s * k + z
    <3>1. s * k \in Int
      OBVIOUS
    <3>2. PICK x \in Int : x = s * k
      BY <3>1
    <3> QED
      BY <1>r, <2>1, <2>2, <3>2
  <2>4. h % s = z
    BY <2>2, <2>3, ModIs
  <2> QED
    BY <1>s, <2>2, <2>4 DEF r
<1> QED
  BY <1>2, <1>3, <1>4

(* From any start the next handles meet every slot. *)
LEMMA ModMeets ==
  ASSUME NEW b \in Nat, NEW s \in Nat \ {0}, NEW r \in 0..s-1
  PROVE  \E k \in 0..s-1 : (b + k) % s = r
<1>1. PICK q \in Nat : b = s * q + (b % s) /\ b % s \in 0..s-1
  BY DivMod
<1>2. PICK m \in 0..s-1 : b = s * q + m
  BY <1>1
<1>3. CASE m <= r
  <2>1. PICK k \in 0..s-1 : k = r - m
    BY <1>3
  <2>2. b + k = s * q + r
    <3>1. PICK x \in Int : x = s * q
      OBVIOUS
    <3> QED
      BY <1>2, <2>1, <3>1
  <2>3. (b + k) % s = r
    BY <2>2, ModIs
  <2> QED
    BY <2>3
<1>4. CASE m > r
  <2>1. PICK k \in 0..s-1 : k = (r - m) + s
    BY <1>4
  <2>2. b + k = s * (q + 1) + r
    <3>1. PICK x \in Int : x = s * q
      OBVIOUS
    <3>2. s * (q + 1) = (s * q) + s
      OBVIOUS
    <3> QED
      BY <1>2, <2>1, <3>1, <3>2
  <2>3. PICK p \in Nat : p = q + 1
    OBVIOUS
  <2>4. PICK a \in Nat : a = b + k
    OBVIOUS
  <2>5. a = s * p + r
    BY <2>2, <2>3, <2>4
  <2>6. a % s = r
    BY <2>5, ModIs
  <2> QED
    BY <2>4, <2>6
<1> QED
  BY <1>3, <1>4

(* A multiple of the size can be taken away.                               *)
LEMMA ModLess ==
  ASSUME NEW s \in Nat \ {0}, NEW d \in Nat, d % s = 0, NEW a \in Nat, a >= d
  PROVE  (a - d) % s = a % s
<1>1. PICK q \in Nat : d = s * q + (d % s)
  BY DivMod
<1>2. PICK p \in Nat : a = s * p + (a % s) /\ a % s \in 0..s-1
  BY DivMod
<1>3. PICK r \in 0..s-1 : r = a % s
  BY <1>2
<1>4. PICK x \in Int, y \in Int : x = s * q /\ y = s * p
  OBVIOUS
<1>5. p >= q
  <2> SUFFICES ASSUME q >= p + 1 PROVE FALSE
    OBVIOUS
  <2>1. s * q >= s * (p + 1)
    OBVIOUS
  <2>2. s * (p + 1) = (s * p) + s
    OBVIOUS
  <2>3. x >= y + s
    BY <1>4, <2>1, <2>2
  <2>4. a >= x
    BY <1>1, <1>4
  <2>5. a = y + r
    BY <1>2, <1>3, <1>4
  <2> QED
    BY <2>3, <2>4, <2>5
<1>6. s * (p - q) = y - x
  BY <1>4
<1>7. a - d = s * (p - q) + r
  <2>1. d = x
    BY <1>1, <1>4
  <2>2. a = y + r
    BY <1>2, <1>3, <1>4
  <2> QED
    BY <1>6, <2>1, <2>2
<1>8. PICK z \in Nat : z = p - q
  BY <1>5
<1>9. a - d = s * z + r
  BY <1>7, <1>8
<1>10. (a - d) % s = r
  BY <1>9, ModIs
<1> QED
  BY <1>3, <1>10

(* A set of naturals that is not empty has a least element.                *)
LEMMA LeastNat ==
    ASSUME NEW T, T \subseteq Nat, T # {}
    PROVE  \E x \in T : \A y \in T : x <= y
<1> DEFINE R == OpToRel(<, Nat)
<1>1. \A a, b \in Nat : <<a, b>> \in R <=> a < b
  BY DEF OpToRel
<1>2. IsWellFoundedOn(R, Nat)
  BY NatLessThanWellFounded, Zenon
<1> HIDE DEF R
<1>3. PICK x \in T : \A y \in T : ~(<<y, x>> \in R)
  BY <1>2, WFMin
<1>4. \A y \in T : ~(y < x)
  BY <1>1, <1>3
<1> QED
  BY <1>4

(* Induction over the naturals, for a set                                  *)
LEMMA SetInduction ==
    ASSUME NEW X, 0 \in X, \A n \in Nat : n \in X => n + 1 \in X
    PROVE  Nat \subseteq X
<1> SUFFICES ASSUME Nat \ X # {} PROVE FALSE
  OBVIOUS
<1>1. PICK x \in Nat \ X : \A y \in Nat \ X : x <= y
  BY LeastNat
<1>2. x # 0 /\ x - 1 \in Nat
  OBVIOUS
<1>3. x - 1 \in X
  BY <1>1, <1>2
<1> QED
  BY <1>1, <1>2, <1>3

-----------------------------------------------------------------------------
(* An entry of the table of names, and a table of names in order           *)
Entry == [name : Name, handle : Handle]
Sorted(s) == \A j, k \in 1..Len(s) : j < k => s[j].name < s[k].name

(* The size of the table divides the number of handles, and is never one.  *)
SizeInv == slot_size >= 2 /\ (HANDLE_MASK + 1) % slot_size = 0

(* A launcher that left the lock holds its context and a handle.           *)
LaunchInv == \A t \in Launcher : pc[t] = "assign" => ctx[t] \in Context /\ got[t] \in Handle

(* An aborter between the two locks holds a handle.                        *)
DoomInv == \A t \in Aborter : pc[t] = "retire" => doomed[t] \in Handle

TypedInv == TypeOK /\ SizeInv /\ LaunchInv /\ DoomInv /\ Sorted(name)

(* The binary search ends at the name, or where it belongs.                *)
LEMMA SearchFinds ==
    ASSUME name \in Seq(Entry), Sorted(name), NEW nm \in Name
    PROVE  \/ \E m \in 1..Len(name) :
                /\ Search(nm) = [found |-> TRUE, at |-> m - 1]
                /\ name[m].name = nm
           \/ \E b \in 0..Len(name) :
                /\ Search(nm) = [found |-> FALSE, at |-> b]
                /\ \A k \in 1..b : name[k].name < nm
                /\ \A k \in b+1..Len(name) : nm < name[k].name
<1> DEFINE L == Len(name)
           D == (0..L) \X (-1..L-1)
           R == [found : BOOLEAN, at : Int]
           Body(f, b, e) ==
              IF b > e THEN [found |-> FALSE, at |-> b]
              ELSE IF name[((b + e) \div 2)+1].name = nm
                   THEN [found |-> TRUE, at |-> (b + e) \div 2]
              ELSE IF name[((b + e) \div 2)+1].name < nm THEN f[<<((b + e) \div 2)+1, e>>]
              ELSE f[<<b, ((b + e) \div 2)-1>>]
           Eq(f) == f = [r \in D |-> Body(f, r[1], r[2])]
           find == CHOOSE f : Eq(f)
<1>1. Search(nm) = find[<<0, L - 1>>]
  BY DEF Search
<1>2. L \in Nat
  OBVIOUS
<1>3. \A b \in 0..L, e \in -1..L-1 : b <= e =>
        /\ (b + e) \div 2 \in b..e
        /\ ((b + e) \div 2) + 1 \in 0..L
        /\ ((b + e) \div 2) - 1 \in -1..L-1
  BY <1>2
<1>4. ASSUME NEW f, NEW g, NEW b \in 0..L, NEW e \in -1..L-1,
             \A b2 \in 0..L, e2 \in -1..L-1 :
                e2 - b2 < e - b => f[<<b2, e2>>] = g[<<b2, e2>>]
      PROVE  Body(f, b, e) = Body(g, b, e)
  <2>1. CASE b > e
    BY <2>1
  <2>2. CASE b <= e
    <3> DEFINE mid == (b + e) \div 2
    <3>1. mid \in b..e /\ mid + 1 \in 0..L /\ mid - 1 \in -1..L-1
      BY <1>3, <2>2
    <3> HIDE DEF mid
    <3>2. f[<<mid + 1, e>>] = g[<<mid + 1, e>>] /\ f[<<b, mid - 1>>] = g[<<b, mid - 1>>]
      BY <1>2, <1>4, <3>1
    <3> QED
      BY <3>2 DEF mid
  <2> QED
    BY <1>2, <2>1, <2>2
<1>5. ASSUME NEW f \in [D -> R], NEW b \in 0..L, NEW e \in -1..L-1
      PROVE  Body(f, b, e) \in R
  <2>1. CASE b > e
    BY <2>1
  <2>2. CASE b <= e
    <3> DEFINE mid == (b + e) \div 2
    <3>1. mid \in b..e /\ mid + 1 \in 0..L /\ mid - 1 \in -1..L-1
      BY <1>3, <2>2
    <3> HIDE DEF mid
    <3>2. <<mid + 1, e>> \in D /\ <<b, mid - 1>> \in D
      BY <3>1
    <3>3. f[<<mid + 1, e>>] \in R /\ f[<<b, mid - 1>>] \in R
      BY <3>2
    <3>4. [found |-> TRUE, at |-> mid] \in R
      BY <1>2, <3>1
    <3> HIDE DEF D, R
    <3> QED
      BY <2>2, <3>3, <3>4 DEF mid
  <2> QED
    BY <1>2, <2>1, <2>2
<1> HIDE DEF Body
<1>6. find = [r \in D |-> Body(find, r[1], r[2])]
  <2> DEFINE X == {n \in Nat : \E f \in [D -> R] :
                    \A b \in 0..L, e \in -1..L-1 :
                        (e - b) + 1 <= n => f[<<b, e>>] = Body(f, b, e)}
  <2>1. 0 \in X
    <3> DEFINE f == [r \in D |-> [found |-> FALSE, at |-> r[1]]]
    <3>1. f \in [D -> R]
      OBVIOUS
    <3>2. \A b \in 0..L, e \in -1..L-1 : (e - b) + 1 <= 0 => f[<<b, e>>] = Body(f, b, e)
      <4> TAKE b \in 0..L, e \in -1..L-1
      <4> HAVE (e - b) + 1 <= 0
      <4>1. b > e
        BY <1>2
      <4>2. Body(f, b, e) = [found |-> FALSE, at |-> b]
        BY <4>1 DEF Body
      <4>3. <<b, e>> \in D /\ <<b, e>>[1] = b
        OBVIOUS
      <4> QED
        BY <4>2, <4>3
    <3> HIDE DEF f
    <3> QED
      BY <3>1, <3>2
  <2>2. \A n \in Nat : n \in X => n + 1 \in X
    <3> SUFFICES ASSUME NEW n \in Nat, n \in X PROVE n + 1 \in X
      OBVIOUS
    <3>1. PICK f \in [D -> R] :
             \A b \in 0..L, e \in -1..L-1 :
                (e - b) + 1 <= n => f[<<b, e>>] = Body(f, b, e)
      OBVIOUS
    <3> HIDE DEF X
    <3> DEFINE g == [r \in D |-> IF (r[2] - r[1]) + 1 <= n THEN f[r]
                                                     ELSE Body(f, r[1], r[2])]
    <3>2. \A b \in 0..L, e \in -1..L-1 : g[<<b, e>>] = Body(f, b, e)
      BY <3>1
    <3>3. g \in [D -> R]
      <4>1. \A r \in D : Body(f, r[1], r[2]) \in R
        BY <1>5
      <4> HIDE DEF R
      <4> QED
        BY <4>1
    <3>4. ASSUME NEW b \in 0..L, NEW e \in -1..L-1, (e - b) + 1 <= n + 1
          PROVE  g[<<b, e>>] = Body(g, b, e)
      <4>1. \A b2 \in 0..L, e2 \in -1..L-1 :
                e2 - b2 < e - b => f[<<b2, e2>>] = g[<<b2, e2>>]
        <5> TAKE b2 \in 0..L, e2 \in -1..L-1
        <5> HAVE e2 - b2 < e - b
        <5>1. (e2 - b2) + 1 <= n
          BY <1>2, <3>4
        <5> HIDE DEF g
        <5> QED
          BY <5>1, <3>1, <3>2
      <4> HIDE DEF g
      <4>2. Body(f, b, e) = Body(g, b, e)
        BY <1>4, <4>1
      <4> QED
        BY <3>2, <4>2
    <3> HIDE DEF g
    <3>5. \A b \in 0..L, e \in -1..L-1 : (e - b) + 1 <= n + 1 => g[<<b, e>>] = Body(g, b, e)
      BY <3>4
    <3>6. n + 1 \in Nat
      OBVIOUS
    <3> HIDE DEF D, R
    <3>7. \E h \in [D -> R] : \A b \in 0..L, e \in -1..L-1 :
                (e - b) + 1 <= n + 1 => h[<<b, e>>] = Body(h, b, e)
      BY <3>3, <3>5
    <3> QED
      BY <3>6, <3>7 DEF X
  <2> HIDE DEF X
  <2>3. L + 1 \in X
    BY <1>2, <2>1, <2>2, SetInduction
  <2>4. PICK f \in [D -> R] :
             \A b \in 0..L, e \in -1..L-1 :
                (e - b) + 1 <= L + 1 => f[<<b, e>>] = Body(f, b, e)
    BY <2>3 DEF X
  <2>5. \A b \in 0..L, e \in -1..L-1 : f[<<b, e>>] = Body(f, b, e)
    <3> TAKE b \in 0..L, e \in -1..L-1
    <3>1. (e - b) + 1 <= L + 1
      BY <1>2
    <3> QED
      BY <2>4, <3>1
  <2>6. \A r \in D : f[r] = Body(f, r[1], r[2])
    BY <2>5
  <2>7. Eq(f)
    <3> HIDE DEF D, R
    <3> QED
      BY <2>6
  <2> HIDE DEF find, Eq
  <2>8. Eq(find)
    BY <2>7 DEF find
  <2> QED
    BY <2>8 DEF Eq
<1>7. \A b \in 0..L, e \in -1..L-1 : find[<<b, e>>] = Body(find, b, e)
  <2> HIDE DEF find
  <2> QED
    BY <1>6
<1> HIDE DEF find, Eq, R, D
<1> DEFINE Found(s) ==
              \/ \E m \in 1..Len(name) :
                    /\ s = [found |-> TRUE, at |-> m - 1]
                    /\ name[m].name = nm
              \/ \E b \in 0..Len(name) :
                    /\ s = [found |-> FALSE, at |-> b]
                    /\ \A k \in 1..b : name[k].name < nm
                    /\ \A k \in b+1..Len(name) : nm < name[k].name
           Between(b, e) ==
              /\ e >= b - 1
              /\ \A k \in 1..b : name[k].name < nm
              /\ \A k \in e+2..L : nm < name[k].name
           Y == {n \in Nat : \A b \in 0..L, e \in -1..L-1 :
                    (e - b) + 1 <= n /\ Between(b, e) => Found(find[<<b, e>>])}
<1>8. nm \in Nat /\ \A k \in 1..L : name[k].name \in Nat
  <2>1. \A k \in 1..L : name[k] \in Entry
    OBVIOUS
  <2> QED
    BY <2>1, HandleAssumption DEF Entry
<1>9. \A b \in 0..L, e \in -1..L-1 : b > e /\ Between(b, e) => Found(find[<<b, e>>])
  <2> SUFFICES ASSUME NEW b \in 0..L, NEW e \in -1..L-1, b > e, Between(b, e)
               PROVE  Found(find[<<b, e>>])
    OBVIOUS
  <2>1. find[<<b, e>>] = [found |-> FALSE, at |-> b]
    BY <1>7 DEF Body
  <2>2. e = b - 1
    BY <1>2
  <2>3. \A k \in b+1..L : nm < name[k].name
    BY <1>2, <2>2
  <2> QED
    BY <2>1, <2>3
<1>10. 0 \in Y
  <2> HIDE DEF Found, Between
  <2>1. \A b \in 0..L, e \in -1..L-1 : (e - b) + 1 <= 0 => b > e
    BY <1>2
  <2> QED
    BY <1>9, <2>1
<1>11. \A n \in Nat : n \in Y => n + 1 \in Y
  <2> SUFFICES ASSUME NEW n \in Nat, n \in Y PROVE n + 1 \in Y
    OBVIOUS
  <2> SUFFICES ASSUME NEW b \in 0..L, NEW e \in -1..L-1,
                      (e - b) + 1 <= n + 1, Between(b, e)
               PROVE  Found(find[<<b, e>>])
    <3> HIDE DEF Found, Between
    <3>1. n + 1 \in Nat
      OBVIOUS
    <3> QED
      BY <3>1
  <2>1. CASE b > e
    BY <1>9, <2>1
  <2>2. CASE b <= e
    <3> DEFINE mid == (b + e) \div 2
    <3>1. mid \in b..e /\ mid + 1 \in 0..L /\ mid - 1 \in -1..L-1
      BY <1>3, <2>2
    <3>2. find[<<b, e>>] = IF name[mid+1].name = nm THEN [found |-> TRUE, at |-> mid]
                           ELSE IF name[mid+1].name < nm THEN find[<<mid+1, e>>]
                           ELSE find[<<b, mid-1>>]
      <4>1. find[<<b, e>>] = Body(find, b, e)
        BY <1>7
      <4>2. ~(b > e)
        BY <1>2, <2>2
      <4> HIDE DEF Found, Between
      <4> QED
        BY <4>1, <4>2 DEF Body
    <3> HIDE DEF mid, Found, Between
    <3>a. mid + 1 \in 1..L
      BY <1>2, <3>1
    <3>3. CASE name[mid+1].name = nm
      <4>1. find[<<b, e>>] = [found |-> TRUE, at |-> (mid + 1) - 1]
        <5>1. (mid + 1) - 1 = mid
          BY <3>1
        <5>2. find[<<b, e>>] = [found |-> TRUE, at |-> mid]
          BY <3>2, <3>3
        <5> QED
          BY <5>1, <5>2
      <4> QED
        BY <3>3, <3>a, <4>1 DEF Found
    <3>4. CASE name[mid+1].name < nm
      <4>1. find[<<b, e>>] = find[<<mid+1, e>>]
        BY <1>8, <3>2, <3>4, <3>a
      <4>2. \A k \in 1..mid+1 : name[k].name < nm
        <5> TAKE k \in 1..mid+1
        <5>1. k \in 1..L /\ (k < mid + 1 => name[k].name < name[mid+1].name)
          BY <3>a DEF Sorted
        <5> QED
          BY <1>8, <3>4, <3>a, <5>1
      <4>3. Between(mid+1, e)
        BY <3>1, <4>2, <1>2 DEF Between
      <4>4. (e - (mid + 1)) + 1 <= n
        BY <3>1, <1>2
      <4> HIDE DEF Found, Between
      <4> QED
        BY <3>1, <4>1, <4>3, <4>4
    <3>5. CASE nm < name[mid+1].name
      <4>1. find[<<b, e>>] = find[<<b, mid-1>>]
        BY <1>8, <3>2, <3>5, <3>a
      <4>2. \A k \in mid+1..L : nm < name[k].name
        <5> TAKE k \in mid+1..L
        <5>1. k \in 1..L /\ (k > mid + 1 => name[mid+1].name < name[k].name)
          BY <3>a DEF Sorted
        <5> QED
          BY <1>8, <3>5, <3>a, <5>1
      <4>3. Between(b, mid-1)
        BY <3>1, <4>2, <1>2 DEF Between
      <4>4. ((mid - 1) - b) + 1 <= n
        BY <3>1, <1>2
      <4> HIDE DEF Found, Between
      <4> QED
        BY <3>1, <4>1, <4>3, <4>4
    <3> QED
      BY <1>8, <3>a, <3>3, <3>4, <3>5
  <2> HIDE DEF Found, Between
  <2> QED
    BY <1>2, <2>1, <2>2
<1>12. L + 1 \in Y
  <2> HIDE DEF Y
  <2> QED
    BY <1>2, <1>10, <1>11, SetInduction
<1>13. Between(0, L - 1) /\ 0 \in 0..L /\ L - 1 \in -1..L-1 /\ ((L - 1) - 0) + 1 <= L + 1
  BY <1>2
<1>14. Found(find[<<0, L - 1>>])
  <2> HIDE DEF Found, Between
  <2> QED
    BY <1>12, <1>13
<1> QED
  BY <1>1, <1>14

(* A new name goes where it belongs, a name already taken nowhere.         *)
LEMMA NamingSorted ==
    ASSUME name \in Seq(Entry), Sorted(name),
           NEW nm \in Name, NEW h \in Handle, NameHandle(nm, h)
    PROVE  name' \in Seq(Entry) /\ Sorted(name')
<1> DEFINE L == Len(name)
           new == [name |-> nm, handle |-> h]
<1>0. new \in Entry
  BY DEF Entry
<1>1. L \in Nat /\ nm \in Nat /\ \A k \in 1..L : name[k] \in Entry /\ name[k].name \in Nat
  <2>1. L \in Nat /\ \A k \in 1..L : name[k] \in Entry
    OBVIOUS
  <2> QED
    BY <2>1, HandleAssumption DEF Entry
<1>2. CASE \E m \in 1..L : Search(nm) = [found |-> TRUE, at |-> m - 1]
  <2>1. Search(nm).found
    BY <1>2
  <2>2. name' = name
    BY <2>1 DEF NameHandle
  <2> QED
    BY <2>2
<1>3. ASSUME NEW b \in 0..L, Search(nm) = [found |-> FALSE, at |-> b],
             \A k \in 1..b : name[k].name < nm,
             \A k \in b+1..L : nm < name[k].name
      PROVE  name' \in Seq(Entry) /\ Sorted(name')
  <2>1. ~Search(nm).found /\ Search(nm).at = b
    BY <1>3
  <2>2. name' = SubSeq(name, 1, b) \o <<new>> \o SubSeq(name, b + 1, L)
    BY <2>1 DEF NameHandle
  <2> HIDE DEF new
  <2>3. /\ SubSeq(name, 1, b) \in Seq(Entry)
        /\ Len(SubSeq(name, 1, b)) = b
        /\ \A k \in 1..b : SubSeq(name, 1, b)[k] = name[k]
    BY <1>1
  <2>4. /\ SubSeq(name, b + 1, L) \in Seq(Entry)
        /\ Len(SubSeq(name, b + 1, L)) = L - b
        /\ \A k \in 1..L-b : SubSeq(name, b + 1, L)[k] = name[k + b]
    BY <1>1
  <2>5. PICK s \in Seq(Entry), u \in Seq(Entry) :
           /\ s = SubSeq(name, 1, b) /\ u = SubSeq(name, b + 1, L)
    BY <2>3, <2>4
  <2>6. name' = s \o <<new>> \o u
    BY <2>2, <2>5
  <2>7. /\ name' \in Seq(Entry) /\ Len(name') = L + 1
        /\ \A k \in 1..L+1 : name'[k] = IF k <= b THEN s[k]
                                       ELSE IF k = b + 1 THEN new ELSE u[k - (b + 1)]
    <3>1. Len(s) = b /\ Len(u) = L - b
      BY <2>3, <2>4, <2>5
    <3>0. PICK v \in Seq(Entry) : v = <<new>> /\ Len(v) = 1 /\ v[1] = new
      <4>1. \A x \in Entry : <<x>> \in Seq(Entry) /\ Len(<<x>>) = 1 /\ <<x>>[1] = x
        OBVIOUS
      <4> QED
        BY <1>0, <4>1
    <3>2. PICK w \in Seq(Entry) : w = s \o <<new>>
      <4>1. s \o v \in Seq(Entry)
        OBVIOUS
      <4> QED
        BY <3>0, <4>1
    <3>3. /\ Len(w) = b + 1
          /\ \A k \in 1..b+1 : w[k] = IF k <= b THEN s[k] ELSE new
      <4>1. w = s \o v
        BY <3>0, <3>2
      <4> QED
        BY <1>1, <3>0, <3>1, <4>1
    <3>4. name' = w \o u
      BY <2>6, <3>2
    <3>5. /\ name' \in Seq(Entry) /\ Len(name') = L + 1
          /\ \A k \in 1..L+1 : name'[k] = IF k <= b + 1 THEN w[k] ELSE u[k - (b + 1)]
      <4>1. w \o u \in Seq(Entry) /\ Len(w \o u) = Len(w) + Len(u)
        OBVIOUS
      <4>2. Len(w) + Len(u) = L + 1
        BY <1>1, <3>1, <3>3
      <4>3. \A k \in 1..L+1 : (w \o u)[k] = IF k <= Len(w) THEN w[k] ELSE u[k - Len(w)]
        BY <4>2
      <4> QED
        BY <3>3, <3>4, <4>1, <4>2, <4>3
    <3> QED
      BY <1>1, <3>3, <3>5
  <2>8. \A k \in 1..L+1 : name'[k] = IF k <= b THEN name[k]
                                    ELSE IF k = b + 1 THEN new ELSE name[k - 1]
    <3> TAKE k \in 1..L+1
    <3>1. CASE k <= b
      BY <1>1, <2>3, <2>5, <2>7, <3>1
    <3>2. CASE k = b + 1
      BY <1>1, <2>7, <3>2
    <3>3. CASE k > b + 1
      <4>1. PICK j \in 1..L-b : j = k - (b + 1)
        BY <1>1, <3>3
      <4>2. u[j] = name[j + b]
        BY <2>4, <2>5
      <4>3. j + b = k - 1
        BY <4>1
      <4>4. name'[k] = u[j]
        BY <1>1, <2>7, <3>3, <4>1
      <4> QED
        BY <1>1, <3>3, <4>2, <4>3, <4>4
    <3> QED
      BY <1>1, <3>1, <3>2, <3>3
  <2>n. new.name = nm
    BY DEF new
  <2>9. ASSUME NEW j \in 1..L+1, NEW k \in 1..L+1, j < k
        PROVE  name'[j].name < name'[k].name
    <3>1. CASE j <= b /\ k <= b
      <4>1. name'[j] = name[j] /\ name'[k] = name[k] /\ j \in 1..L /\ k \in 1..L
        BY <1>1, <2>8, <3>1
      <4> QED
        BY <2>9, <4>1 DEF Sorted
    <3>2. CASE j <= b /\ k = b + 1
      <4>1. name'[j] = name[j] /\ name'[k] = new /\ j \in 1..b
        BY <1>1, <2>8, <3>2
      <4> QED
        BY <1>3, <2>n, <4>1
    <3>3. CASE j <= b /\ k > b + 1
      <4>1. PICK m \in b+1..L : m = k - 1
        BY <1>1, <3>3
      <4>2. name'[j] = name[j] /\ name'[k] = name[m] /\ j \in 1..b /\ j \in 1..L /\ m \in 1..L
        BY <1>1, <2>8, <3>3, <4>1
      <4>3. name[j].name < nm /\ nm < name[m].name
        BY <1>3, <4>2
      <4> QED
        BY <1>1, <4>2, <4>3
    <3>4. CASE j = b + 1
      <4>1. PICK m \in b+1..L : m = k - 1
        BY <1>1, <2>9, <3>4
      <4>2. name'[j] = new /\ name'[k] = name[m]
        BY <1>1, <2>8, <2>9, <3>4, <4>1
      <4> QED
        BY <1>3, <2>n, <4>2
    <3>5. CASE j > b + 1
      <4>1. PICK i \in b+1..L, m \in b+1..L : i = j - 1 /\ m = k - 1
        BY <1>1, <2>9, <3>5
      <4>2. /\ name'[j] = name[i] /\ name'[k] = name[m]
            /\ i \in 1..L /\ m \in 1..L /\ i < m
        BY <1>1, <2>8, <2>9, <3>5, <4>1
      <4> QED
        BY <4>2 DEF Sorted
    <3> QED
      BY <1>1, <2>9, <3>1, <3>2, <3>3, <3>4, <3>5
  <2> QED
    BY <2>7, <2>9 DEF Sorted
<1> QED
  BY <1>2, <1>3, SearchFinds

(* Dropping the names of a handle leaves the others in order.              *)
LEMMA OthersSorted ==
    ASSUME name \in Seq(Entry), Sorted(name), NEW h
    PROVE  NamedOtherwise(h) \in Seq(Entry) /\ Sorted(NamedOtherwise(h))
<1> DEFINE L == Len(name)
           Step(f, i) == IF i = 0 THEN <<>>
                         ELSE IF name[i].handle = h THEN f[i-1]
                         ELSE Append(f[i-1], name[i])
           Eq(f, n) == f = [i \in 0..n |-> Step(f, i)]
           X == {n \in Nat : n <= L => \E f \in [0..n -> Seq(Entry)] : Eq(f, n)}
           kept == CHOOSE f : Eq(f, L)
<1>1. NamedOtherwise(h) = kept[L]
  BY DEF NamedOtherwise
<1>2. L \in Nat /\ \A i \in 1..L : name[i] \in Entry
  OBVIOUS
<1>3. 0 \in X
  <2> DEFINE f == [i \in 0..0 |-> <<>>]
  <2>1. f \in [0..0 -> Seq(Entry)] /\ Eq(f, 0)
    OBVIOUS
  <2> HIDE DEF f, Eq
  <2> QED
    BY <2>1
<1>4. \A n \in Nat : n \in X => n + 1 \in X
  <2> SUFFICES ASSUME NEW n \in Nat, n \in X PROVE n + 1 \in X
    OBVIOUS
  <2> SUFFICES ASSUME n + 1 <= L
               PROVE  \E f \in [0..n+1 -> Seq(Entry)] : Eq(f, n + 1)
    <3> HIDE DEF Eq
    <3>1. n + 1 \in Nat
      OBVIOUS
    <3> QED
      BY <3>1
  <2>1. PICK f \in [0..n -> Seq(Entry)] : Eq(f, n)
    <3> HIDE DEF Eq
    <3> QED
      BY <1>2
  <2> HIDE DEF X
  <2> DEFINE last == IF name[n+1].handle = h THEN f[n] ELSE Append(f[n], name[n+1])
             g == [i \in 0..n+1 |-> IF i = n + 1 THEN last ELSE f[i]]
  <2>2. last \in Seq(Entry)
    <3>1. f[n] \in Seq(Entry) /\ name[n+1] \in Entry
      BY <1>2
    <3> QED
      BY <3>1
  <2>3. g \in [0..n+1 -> Seq(Entry)]
    <3> HIDE DEF last
    <3> QED
      BY <2>2
  <2>4. \A i \in 0..n+1 : g[i] = Step(g, i)
    <3> TAKE i \in 0..n+1
    <3>1. CASE i = n + 1
      <4>1. g[i] = last /\ g[i-1] = f[n] /\ i # 0
        BY <3>1
      <4> HIDE DEF g
      <4> QED
        BY <3>1, <4>1
    <3>2. CASE i # n + 1
      <4>1. i \in 0..n /\ g[i] = f[i] /\ (i # 0 => g[i-1] = f[i-1])
        BY <3>2
      <4>2. f[i] = Step(f, i)
        <5> HIDE DEF Step, g
        <5> QED
          BY <2>1, <4>1
      <4> HIDE DEF g
      <4> QED
        BY <4>1, <4>2
    <3> QED
      BY <3>1, <3>2
  <2>5. Eq(g, n + 1)
    <3> HIDE DEF Step, last
    <3> QED
      BY <2>3, <2>4
  <2> HIDE DEF g, Eq
  <2> QED
    BY <2>3, <2>5
<1>5. Eq(kept, L)
  <2> HIDE DEF Eq, X
  <2>1. L \in X
    BY <1>2, <1>3, <1>4, SetInduction
  <2>2. \E f : Eq(f, L)
    BY <1>2, <2>1 DEF X
  <2> QED
    BY <2>2
<1> HIDE DEF kept
<1>6. \A i \in 0..L : kept[i] = Step(kept, i)
  <2> HIDE DEF Step
  <2> QED
    BY <1>5
<1> HIDE DEF Eq, X
(* What is kept of the first i names: sorted, and none after the i-th      *)
<1> DEFINE Good(s, i) == /\ s \in Seq(Entry)
                         /\ Sorted(s)
                         /\ \A j \in 1..Len(s) : \E k \in 1..i : s[j].name = name[k].name
           Y == {i \in Nat : i <= L => Good(kept[i], i)}
<1>7. 0 \in Y
  <2>1. kept[0] = <<>>
    BY <1>2, <1>6
  <2>2. <<>> \in Seq(Entry) /\ Len(<<>>) = 0
    OBVIOUS
  <2>3. Good(<<>>, 0)
    BY <2>2 DEF Sorted
  <2> HIDE DEF Good
  <2> QED
    BY <2>1, <2>3
<1>8. \A i \in Nat : i \in Y => i + 1 \in Y
  <2> SUFFICES ASSUME NEW i \in Nat, i \in Y PROVE i + 1 \in Y
    OBVIOUS
  <2> SUFFICES ASSUME i + 1 <= L PROVE Good(kept[i+1], i + 1)
    <3> HIDE DEF Good
    <3>1. i + 1 \in Nat
      OBVIOUS
    <3> QED
      BY <3>1
  <2>1. Good(kept[i], i)
    <3> HIDE DEF Good
    <3> QED
      BY <1>2
  <2>2. kept[i+1] = IF name[i+1].handle = h THEN kept[i] ELSE Append(kept[i], name[i+1])
    <3>1. i + 1 \in 0..L /\ i + 1 # 0 /\ (i + 1) - 1 = i
      BY <1>2
    <3> QED
      BY <1>6, <3>1
  <2> HIDE DEF Y
  <2>3. CASE name[i+1].handle = h
    <3>1. kept[i+1] = kept[i]
      BY <2>2, <2>3
    <3>2. \A k \in 1..i : k \in 1..i+1
      OBVIOUS
    <3> QED
      BY <2>1, <3>1, <3>2
  <2>4. CASE name[i+1].handle # h
    <3>1. PICK s \in Seq(Entry) : s = kept[i] /\ Good(s, i)
      BY <2>1
    <3>2. PICK n \in Nat : n = Len(s)
      OBVIOUS
    <3>3. PICK e \in Entry : e = name[i+1]
      BY <1>2
    <3>4. /\ kept[i+1] \in Seq(Entry) /\ Len(kept[i+1]) = n + 1
          /\ \A j \in 1..n+1 : kept[i+1][j] = IF j <= n THEN s[j] ELSE e
      BY <2>2, <2>4, <3>1, <3>2, <3>3
    <3>5. PICK v \in Seq(Entry) : v = kept[i+1]
      BY <3>4
    <3>6. /\ Len(v) = n + 1
          /\ \A j \in 1..n+1 : v[j] = IF j <= n THEN s[j] ELSE e
      BY <3>4, <3>5
    <3>7. \A j \in 1..n : s[j].name < e.name
      <4> TAKE j \in 1..n
      <4>1. PICK k \in 1..i : s[j].name = name[k].name
        BY <3>1, <3>2
      <4>2. name[k].name < name[i+1].name
        BY <1>2 DEF Sorted
      <4> QED
        BY <3>3, <4>1, <4>2
    <3>8. Sorted(v)
      <4> SUFFICES ASSUME NEW j \in 1..n+1, NEW k \in 1..n+1, j < k
                   PROVE  v[j].name < v[k].name
        BY <3>6 DEF Sorted
      <4>1. CASE k <= n
        <5>1. v[j] = s[j] /\ v[k] = s[k] /\ j \in 1..n /\ k \in 1..n
          BY <3>6, <4>1
        <5> QED
          BY <3>1, <3>2, <5>1 DEF Sorted
      <4>2. CASE k = n + 1
        <5>1. v[j] = s[j] /\ v[k] = e /\ j \in 1..n
          BY <3>6, <4>2
        <5> QED
          BY <3>7, <5>1
      <4> QED
        BY <4>1, <4>2
    <3>9. \A j \in 1..Len(v) : \E k \in 1..i+1 : v[j].name = name[k].name
      <4> TAKE j \in 1..Len(v)
      <4>1. CASE j <= n
        <5>1. v[j] = s[j] /\ j \in 1..n
          BY <3>6, <4>1
        <5>2. PICK k \in 1..i : s[j].name = name[k].name
          BY <3>1, <3>2, <5>1
        <5>3. k \in 1..i+1
          OBVIOUS
        <5> QED
          BY <5>1, <5>2, <5>3
      <4>2. CASE j > n
        <5>1. v[j] = name[i+1] /\ i + 1 \in 1..i+1
          BY <3>3, <3>6, <4>2
        <5> QED
          BY <5>1
      <4> QED
        BY <4>1, <4>2
    <3> QED
      BY <3>5, <3>8, <3>9
  <2> QED
    BY <2>3, <2>4
<1>9. L \in Y
  <2> HIDE DEF Y
  <2> QED
    BY <1>2, <1>7, <1>8, SetInduction
<1>10. Good(kept[L], L)
  <2> HIDE DEF Good
  <2> QED
    BY <1>2, <1>9
<1> QED
  BY <1>1, <1>10

(* In a sorted table the search finds exactly the names it holds.          *)
LEMMA SortedIsFound ==
    ASSUME name \in Seq(Entry), Sorted(name)
    PROVE  NamesAreFound
<1>1. Len(name) \in Nat /\ \A k \in 1..Len(name) : name[k] \in Entry /\ name[k].name \in Nat
  <2>1. Len(name) \in Nat /\ \A k \in 1..Len(name) : name[k] \in Entry
    OBVIOUS
  <2> QED
    BY <2>1, HandleAssumption DEF Entry
<1>2. ASSUME NEW nm \in Name
      PROVE  IF \E k \in 1..Len(name) : name[k].name = nm
             THEN \E k \in 1..Len(name) : name[k] = [name |-> nm, handle |-> FindName(nm)]
             ELSE FindName(nm) = 0
  <2>1. ASSUME NEW m \in 1..Len(name),
               Search(nm) = [found |-> TRUE, at |-> m - 1], name[m].name = nm
        PROVE  \E k \in 1..Len(name) : name[k] = [name |-> nm, handle |-> FindName(nm)]
    <3>1. Search(nm).found /\ Search(nm).at = m - 1
      BY <2>1
    <3>2. FindName(nm) = name[m].handle
      <4>1. Search(nm).at + 1 = m
        BY <3>1
      <4> QED
        BY <3>1, <4>1 DEF FindName
    <3>3. name[m] = [name |-> name[m].name, handle |-> name[m].handle]
      BY <1>1 DEF Entry
    <3> QED
      BY <2>1, <3>2, <3>3
  <2>2. ASSUME NEW b \in 0..Len(name), Search(nm) = [found |-> FALSE, at |-> b],
               \A k \in 1..b : name[k].name < nm,
               \A k \in b+1..Len(name) : nm < name[k].name
        PROVE  FindName(nm) = 0 /\ ~\E k \in 1..Len(name) : name[k].name = nm
    <3>1. ~Search(nm).found
      BY <2>2
    <3>2. \A k \in 1..Len(name) : k \in 1..b \/ k \in b+1..Len(name)
      BY <1>1
    <3>3. nm \in Nat
      BY HandleAssumption
    <3> QED
      BY <1>1, <2>2, <3>1, <3>2, <3>3 DEF FindName
  <2> QED
    BY <2>1, <2>2, SearchFinds
<1> QED
  BY <1>2 DEF NamesAreFound, Sorted
-----------------------------------------------------------------------------
(* The search for a slot                                                   *)

(* The search tries handles only, never 0.                                 *)
LEMMA CandidateIsHandle ==
    ASSUME handle_index \in 1..HANDLE_MASK+1, NEW k \in Nat
    PROVE  Candidate(k) \in Handle
<1> DEFINE h == handle_index + k
<1>1. HANDLE_MASK \in Nat \ {0}
  BY HandleAssumption
<1>2. h \in Nat /\ h > 0
  BY <1>1
<1> HIDE DEF h
<1>3. CASE h > HANDLE_MASK
  <2>1. PICK a \in Nat : a = h - HANDLE_MASK - 1
    BY <1>1, <1>2, <1>3
  <2>2. a % HANDLE_MASK \in 0..HANDLE_MASK-1
    BY <1>1, DivMod
  <2>3. Candidate(k) = (a % HANDLE_MASK) + 1
    BY <1>3, <2>1 DEF Candidate, h
  <2> QED
    BY <1>1, <2>2, <2>3 DEF Handle
<1>4. CASE h <= HANDLE_MASK
  <2>1. ~(h > HANDLE_MASK)
    BY <1>1, <1>2, <1>4
  <2>2. Candidate(k) = h
    BY <2>1 DEF Candidate, h
  <2> QED
    BY <1>1, <1>2, <1>4, <2>2 DEF Handle
<1> QED
  BY <1>1, <1>2, <1>3, <1>4

(* The candidates of one search meet every slot but the one of handle 0,   *)
(* before and after the wrap.                                              *)
LEMMA CandidatesMeet ==
    ASSUME handle_index \in 1..HANDLE_MASK+1,
           NEW s \in Nat \ {0}, s <= HANDLE_MASK + 1, (HANDLE_MASK + 1) % s = 0,
           NEW r \in 1..s-1
    PROVE  \E k \in 0..s-1 : Hash(Candidate(k), s) = r
<1>1. HANDLE_MASK \in Nat \ {0}
  BY HandleAssumption
<1>2. PICK M \in Nat : M = HANDLE_MASK + 1
  BY <1>1
<1>3. PICK b \in Nat : b = handle_index /\ b >= 1 /\ b <= M
  BY <1>1, <1>2
<1>4. PICK k \in 0..s-1 : (b + k) % s = r
  <2>1. r \in 0..s-1
    OBVIOUS
  <2> QED
    BY <2>1, ModMeets
<1>5. CASE b + k <= HANDLE_MASK
  <2>1. ~(handle_index + k > HANDLE_MASK)
    BY <1>1, <1>3, <1>5
  <2>2. Candidate(k) = b + k
    BY <1>3, <2>1 DEF Candidate
  <2> QED
    BY <1>4, <2>2 DEF Hash
<1>6. CASE b + k >= M
  <2>1. PICK a \in Nat : a = (b + k) - M
    BY <1>6
  <2>2. a % s = r
    <3>1. M % s = 0
      BY <1>2
    <3>2. PICK c \in Nat : c = b + k /\ c >= M
      BY <1>6
    <3>3. (c - M) % s = c % s
      BY <3>1, <3>2, ModLess
    <3> QED
      BY <1>4, <2>1, <3>2, <3>3
  <2>3. a # 0
    <3>1. 0 = s * 0 + 0
      OBVIOUS
    <3>2. 0 % s = 0
      BY <3>1, ModIs
    <3> QED
      BY <2>2, <3>2
  <2>4. a <= HANDLE_MASK
    BY <1>1, <1>2, <1>3, <2>1
  <2>5. k # 0
    <3> SUFFICES ASSUME k = 0 PROVE FALSE
      OBVIOUS
    <3>1. a = 0
      BY <1>2, <1>3, <1>6, <2>1
    <3> QED
      BY <2>3, <3>1
  <2>6. PICK j \in 0..s-1 : j = k - 1
    BY <2>5
  <2>7. PICK e \in 0..HANDLE_MASK-1 : e = a - 1
    BY <1>1, <2>3, <2>4
  <2>8. handle_index + j > HANDLE_MASK /\ handle_index + j - HANDLE_MASK - 1 = e
    BY <1>1, <1>2, <1>3, <1>6, <2>1, <2>3, <2>6, <2>7
  <2>9. e % HANDLE_MASK = e
    <3>1. e = HANDLE_MASK * 0 + e
      BY <1>1
    <3> QED
      BY <1>1, <3>1, ModIs
  <2>10. Candidate(j) = (e % HANDLE_MASK) + 1
    <3>1. PICK h \in Int : h = handle_index + j
      BY <1>3
    <3>2. h > HANDLE_MASK /\ h - HANDLE_MASK - 1 = e
      BY <1>1, <1>3, <2>6, <2>7, <2>8, <3>1
    <3>3. Candidate(j) = IF h > HANDLE_MASK
                         THEN ((h - HANDLE_MASK - 1) % HANDLE_MASK) + 1 ELSE h
      BY <3>1 DEF Candidate
    <3> QED
      BY <3>2, <3>3
  <2>11. Candidate(j) = a
    BY <2>7, <2>9, <2>10
  <2> QED
    BY <2>2, <2>6, <2>11 DEF Hash
<1> QED
  BY <1>1, <1>2, <1>3, <1>5, <1>6

(* A table with a free slot other than the first is found to have one.     *)
LEMMA SearchSucceeds ==
    ASSUME handle_index \in 1..HANDLE_MASK+1,
           NEW s \in Nat \ {0}, s <= HANDLE_MASK + 1, (HANDLE_MASK + 1) % s = 0,
           NEW sl, NEW r \in 1..s-1, sl[r] = NULL
    PROVE  FreeRounds(sl, s) # {}
<1>1. PICK k \in 0..s-1 : Hash(Candidate(k), s) = r
  BY CandidatesMeet
<1> QED
  BY <1>1 DEF FreeRounds

(* What a search that succeeds does to the table and to its caller         *)
Took(t, c, h, sl, size) ==
    /\ Hash(h, size) \in 0..size-1
    /\ sl[Hash(h, size)] = NULL
    /\ slot_size' = size
    /\ slot' = [sl EXCEPT ![Hash(h, size)] = c]
    /\ handle_index' = h + 1
    /\ ctx' = [ctx EXCEPT ![t] = c]
    /\ got' = [got EXCEPT ![t] = h]
    /\ pc' = [pc EXCEPT ![t] = "assign"]
    /\ fault' = fault

(* A search that can succeed takes a slot that is free.                    *)
LEMMA StoreTakes ==
    ASSUME handle_index \in 1..HANDLE_MASK+1, NEW s \in Nat \ {0},
           NEW sl, NEW t, NEW c, FreeRounds(sl, s) # {}, Store(t, c, sl, s)
    PROVE  \E h \in Handle : Took(t, c, h, sl, s)
<1> DEFINE rounds == FreeRounds(sl, s)
           k == CHOOSE i \in rounds : \A j \in rounds : i <= j
           h == Candidate(k)
<1>1. rounds # {} /\ rounds \subseteq Nat
  BY DEF FreeRounds
<1>2. \E i \in rounds : \A j \in rounds : i <= j
  <2> HIDE DEF rounds
  <2> QED
    BY <1>1, LeastNat
<1>3. k \in rounds
  <2> HIDE DEF rounds
  <2> QED
    BY <1>2
<1>4. /\ slot_size' = s
      /\ slot' = [sl EXCEPT ![Hash(h, s)] = c]
      /\ handle_index' = h + 1
      /\ ctx' = [ctx EXCEPT ![t] = c]
      /\ got' = [got EXCEPT ![t] = h]
      /\ pc' = [pc EXCEPT ![t] = "assign"]
      /\ fault' = fault
  BY DEF Store, Goto
<1> HIDE DEF k
<1>5. k \in 0..s-1 /\ sl[Hash(h, s)] = NULL
  BY <1>3 DEF FreeRounds
<1>6. h \in Handle
  BY <1>5, CandidateIsHandle
<1>7. h \in Nat
  BY <1>6, HandleAssumption DEF Handle
<1> HIDE DEF h
<1>8. Hash(h, s) \in 0..s-1
  BY <1>7, DivMod DEF Hash
<1> QED
  BY <1>4, <1>5, <1>6, <1>8 DEF Took

(* The table after a doubling that meets no NULL and no collision          *)
Redone ==
    /\ Doubled \in [0..2*slot_size-1 -> Context \cup {NULL}]
    /\ \A k \in 0..slot_size-1 : /\ slot[k] \in Context
                                 /\ Rehash(k) \in 0..2*slot_size-1
                                 /\ Doubled[Rehash(k)] = slot[k]
    /\ \A b \in 0..2*slot_size-1 : Doubled[b] # NULL =>
           \E k \in 0..slot_size-1 : b = Rehash(k) /\ Doubled[b] = slot[k]

(* A doubling loses no context, and leaves room.                           *)
LEMMA DoublingKeeps ==
    ASSUME TypeOK, SizeInv, 2 * slot_size - 1 <= HANDLE_MASK,
           ~\E k \in DOMAIN slot : slot[k] = NULL, ~Collides
    PROVE  /\ Redone
           /\ (HANDLE_MASK + 1) % (2 * slot_size) = 0
           /\ FreeRounds(Doubled, 2 * slot_size) # {}
<1>1. PICK n \in Nat : n = slot_size /\ n >= 2
  BY DEF TypeOK, SizeInv
<1>2. DOMAIN slot = 0..n-1 /\ \A k \in 0..n-1 : slot[k] \in Context
  BY <1>1 DEF TypeOK
<1>3. PICK s \in Nat \ {0} : s = 2 * n
  BY <1>1
<1>4. ASSUME NEW k \in 0..n-1 PROVE Rehash(k) \in 0..s-1
  <2>1. handle[slot[k]] \in Nat
    BY <1>2, HandleAssumption DEF TypeOK
  <2>2. PICK x \in Nat : x = handle[slot[k]]
    BY <2>1
  <2>3. x % s \in 0..s-1
    BY DivMod
  <2> QED
    BY <1>1, <1>3, <2>2, <2>3 DEF Rehash, Hash
<1>5. \A j, k \in 0..n-1 : Rehash(j) = Rehash(k) => j = k
  BY <1>2 DEF Collides
<1>6. Doubled = [b \in 0..s-1 |-> IF {k \in 0..n-1 : Rehash(k) = b} = {} THEN NULL
                                  ELSE slot[CHOOSE k \in {i \in 0..n-1 : Rehash(i) = b} : TRUE]]
  BY <1>1, <1>2, <1>3 DEF Doubled
<1>7. ASSUME NEW b \in 0..s-1, NEW k \in 0..n-1, Rehash(k) = b
      PROVE  Doubled[b] = slot[k]
  <2> DEFINE from == {i \in 0..n-1 : Rehash(i) = b}
  <2>1. k \in from /\ \A i \in from : i = k
    BY <1>5, <1>7
  <2>2. Doubled[b] = IF from = {} THEN NULL ELSE slot[CHOOSE i \in from : TRUE]
    BY <1>6
  <2> HIDE DEF from
  <2> QED
    BY <2>1, <2>2
<1>8. ASSUME NEW b \in 0..s-1, \A k \in 0..n-1 : Rehash(k) # b
      PROVE  Doubled[b] = NULL
  BY <1>6, <1>8
<1>9. Redone
  <2>1. Doubled \in [0..s-1 -> Context \cup {NULL}]
    <3>1. \A b \in 0..s-1 : Doubled[b] \in Context \cup {NULL}
      BY <1>2, <1>7, <1>8
    <3>2. \E F : Doubled = F /\ F = [b \in 0..s-1 |-> F[b]]
      BY <1>6
    <3> QED
      BY <3>1, <3>2
  <2>2. \A k \in 0..n-1 : slot[k] \in Context /\ Rehash(k) \in 0..s-1 /\ Doubled[Rehash(k)] = slot[k]
    BY <1>2, <1>4, <1>7
  <2>3. \A b \in 0..s-1 : Doubled[b] # NULL =>
           \E k \in 0..n-1 : b = Rehash(k) /\ Doubled[b] = slot[k]
    BY <1>7, <1>8
  <2> QED
    BY <1>1, <1>3, <2>1, <2>2, <2>3 DEF Redone
<1>10. (HANDLE_MASK + 1) % s = 0
  <2>1. n \in 1..HANDLE_MASK
    BY <1>1, HandleAssumption
  <2>2. (HANDLE_MASK + 1) % n = 0
    BY <1>1 DEF SizeInv
  <2>3. (HANDLE_MASK + 1) % (2 * n) = 0
    BY <2>1, <2>2, HandleAssumption
  <2> QED
    BY <1>3, <2>3
(* Twice as many slots as contexts: some slot other than the first is free *)
<1>11. \E r \in 1..s-1 : Doubled[r] = NULL
  <2> SUFFICES ASSUME \A r \in 1..s-1 : Doubled[r] # NULL PROVE FALSE
    OBVIOUS
  <2> DEFINE S == 1..s-1
             T == 0..n-1
             g == [r \in S |-> CHOOSE k \in T : r = Rehash(k)]
  <2>1. \A r \in S : \E k \in T : r = Rehash(k)
    BY <1>8
  <2>2. \A r \in S : g[r] \in T /\ r = Rehash(g[r])
    BY <2>1
  <2>3. g \in Injection(S, T)
    <3>1. g \in [S -> T]
      BY <2>2
    <3>2. \A a, b \in S : g[a] = g[b] => a = b
      BY <2>2
    <3> HIDE DEF g, S, T
    <3> QED
      BY <3>1, <3>2 DEF Injection, IsInjective
  <2>4. IsFiniteSet(T) /\ Cardinality(T) = n
    <3>1. IsFiniteSet(0..n-1) /\ Cardinality(0..n-1) = IF 0 > n-1 THEN 0 ELSE (n-1)-0+1
      BY FS_Interval
    <3> QED
      BY <1>1, <3>1
  <2>5. Cardinality(S) = s - 1
    <3>1. IsFiniteSet(1..s-1) /\ Cardinality(1..s-1) = IF 1 > s-1 THEN 0 ELSE (s-1)-1+1
      BY FS_Interval
    <3> QED
      BY <1>1, <1>3, <3>1
  <2>6. Cardinality(S) <= Cardinality(T)
    <3> HIDE DEF g, S, T
    <3> QED
      BY <2>3, <2>4, FS_Injection
  <2> QED
    BY <1>1, <1>3, <2>4, <2>5, <2>6
<1>12. FreeRounds(Doubled, s) # {}
  <2>1. s <= HANDLE_MASK + 1
    BY <1>1, <1>3, HandleAssumption
  <2>2. handle_index \in 1..HANDLE_MASK+1
    BY DEF TypeOK
  <2>3. PICK r \in 1..s-1 : Doubled[r] = NULL
    BY <1>11
  <2> QED
    BY <1>10, <2>1, <2>2, <2>3, SearchSucceeds
<1> QED
  BY <1>1, <1>3, <1>9, <1>10, <1>12
-----------------------------------------------------------------------------
(* A registration stops the process, or takes a free slot of the table, or *)
(* one of the table doubled.                                               *)
LEMMA RegisterTakes ==
    ASSUME TypeOK, SizeInv, NEW t \in Launcher, NEW c \in Context, Register(t, c)
    PROVE  \/ /\ UNCHANGED <<table, launching, pc>>
              /\ fault' \in {"collision", "null", "full"}
           \/ \E h \in Handle : Took(t, c, h, slot, slot_size)
           \/ /\ Redone
              /\ (HANDLE_MASK + 1) % (2 * slot_size) = 0
              /\ \E h \in Handle : Took(t, c, h, Doubled, 2 * slot_size)
<1>0. /\ handle_index \in 1..HANDLE_MASK+1 /\ slot_size \in Nat \ {0}
      /\ 2 * slot_size \in Nat \ {0}
      /\ HANDLE_MASK \in Nat
  BY HandleAssumption DEF TypeOK
<1>1. CASE FreeRounds(slot, slot_size) # {}
  <2>1. Store(t, c, slot, slot_size)
    BY <1>1 DEF Register
  <2> QED
    BY <1>0, <1>1, <2>1, StoreTakes
<1>2. CASE /\ FreeRounds(slot, slot_size) = {} /\ ~(2 * slot_size - 1 > HANDLE_MASK)
           /\ ~\E k \in DOMAIN slot : slot[k] = NULL
           /\ ~Collides
  <2>1. Store(t, c, Doubled, 2 * slot_size)
    BY <1>2 DEF Register
  <2>2. /\ Redone
        /\ (HANDLE_MASK + 1) % (2 * slot_size) = 0
        /\ FreeRounds(Doubled, 2 * slot_size) # {}
    <3>1. 2 * slot_size - 1 <= HANDLE_MASK
      BY <1>0, <1>2
    <3> QED
      BY <1>2, <3>1, DoublingKeeps
  <2> QED
    BY <1>0, <2>1, <2>2, StoreTakes
<1>3. CASE /\ FreeRounds(slot, slot_size) = {}
           /\ \/ 2 * slot_size - 1 > HANDLE_MASK
              \/ \E k \in DOMAIN slot : slot[k] = NULL
              \/ Collides
  <2>1. Stop("full") \/ Stop("null") \/ Stop("collision")
    BY <1>3 DEF Register
  <2> QED
    BY <2>1 DEF Stop
<1> QED
  BY <1>1, <1>2, <1>3

(* What a launcher's context and handle are after a registration           *)
LEMMA TookTyped ==
    ASSUME TypedInv, NEW t \in Launcher, NEW c \in Context, NEW h \in Handle,
           NEW sl, NEW size \in Nat \ {0}, sl \in [0..size-1 -> Context \cup {NULL}],
           size >= 2, (HANDLE_MASK + 1) % size = 0,
           Took(t, c, h, sl, size), UNCHANGED <<names, handle, aborting>>
    PROVE  TypedInv'
<1>1. HANDLE_MASK \in Nat \ {0} /\ h \in 1..HANDLE_MASK
  BY HandleAssumption DEF Handle
<1>2. /\ slot_size' = size
      /\ slot' = [sl EXCEPT ![Hash(h, size)] = c]
      /\ handle_index' = h + 1
      /\ ctx' = [ctx EXCEPT ![t] = c]
      /\ got' = [got EXCEPT ![t] = h]
      /\ pc' = [pc EXCEPT ![t] = "assign"]
      /\ fault' = fault
  BY DEF Took
<1>3. UNCHANGED <<name, namings, handle, scan, retired, doomed, seen>>
  BY DEF names, aborting
<1>4. TypeOK'
  <2>1. slot' \in [0..size-1 -> Context \cup {NULL}]
    BY <1>2
  <2>2. handle_index' \in 1..HANDLE_MASK+1
    BY <1>1, <1>2
  <2>3. ctx' \in [Launcher -> Context \cup {NULL}] /\ got' \in [Launcher -> 0..HANDLE_MASK]
    BY <1>1, <1>2 DEF TypedInv, TypeOK
  <2>4. pc' \in [Launcher \cup Aborter -> {"idle", "assign", "scan", "retire", "done"}]
    BY <1>2 DEF TypedInv, TypeOK
  <2> QED
    BY <1>2, <1>3, <2>1, <2>2, <2>3, <2>4 DEF TypedInv, TypeOK
<1>5. SizeInv'
  BY <1>2 DEF SizeInv
<1>6. LaunchInv'
  <2> SUFFICES ASSUME NEW u \in Launcher, pc'[u] = "assign"
               PROVE  ctx'[u] \in Context /\ got'[u] \in Handle
    BY DEF LaunchInv
  <2>1. CASE u = t
    BY <1>2, <2>1 DEF TypedInv, TypeOK
  <2>2. CASE u # t
    <3>1. pc[u] = "assign" /\ ctx'[u] = ctx[u] /\ got'[u] = got[u]
      BY <1>2, <2>2 DEF TypedInv, TypeOK
    <3> QED
      BY <3>1 DEF TypedInv, LaunchInv
  <2> QED
    BY <2>1, <2>2
<1>7. Sorted(name)'
  BY <1>3 DEF TypedInv, Sorted
<1>8. DoomInv'
  <2>1. \A u \in Aborter : pc'[u] = pc[u]
    BY <1>2, HandleAssumption DEF TypedInv, TypeOK
  <2> QED
    BY <1>3, <2>1 DEF TypedInv, DoomInv
<1> QED
  BY <1>4, <1>5, <1>6, <1>7, <1>8 DEF TypedInv

(* A retirement clears a slot, and keeps the names in order.               *)
LEMMA RemoveTyped ==
    ASSUME TypedInv, NEW h \in Handle, Remove(h), UNCHANGED slot_size
    PROVE  /\ slot' \in [0..slot_size-1 -> Context \cup {NULL}]
           /\ name' \in Seq(Entry) /\ Sorted(name)'
<1>1. name \in Seq(Entry) /\ Sorted(name)
  BY DEF TypedInv, TypeOK, Entry
<1>2. CASE Grabbed(h) # NULL
  <2>1. slot' = [slot EXCEPT ![Hash(h, slot_size)] = NULL] /\ name' = NamedOtherwise(h)
    BY <1>2 DEF Remove
  <2>2. NamedOtherwise(h) \in Seq(Entry) /\ Sorted(NamedOtherwise(h))
    BY <1>1, OthersSorted
  <2>3. slot' \in [0..slot_size-1 -> Context \cup {NULL}]
    BY <2>1 DEF TypedInv, TypeOK
  <2>4. Sorted(name')
    BY <2>1, <2>2
  <2> QED
    BY <2>1, <2>2, <2>3, <2>4 DEF Sorted
<1>3. CASE Grabbed(h) = NULL
  <2>1. UNCHANGED <<slot, name>>
    BY <1>3 DEF Remove
  <2> QED
    BY <1>1, <2>1 DEF TypedInv, TypeOK, Sorted
<1> QED
  BY <1>2, <1>3

(* The types hold of the empty table.                                      *)
LEMMA InitTyped == Init => TypedInv
<1> SUFFICES ASSUME Init PROVE TypedInv
  OBVIOUS
<1>1. TypeOK
  <2>1. HANDLE_MASK \in Nat \ {0} /\ DEFAULT_SLOT_SIZE \in Nat \ {0}
    BY HandleAssumption
  <2>2. name \in Seq([name : Name, handle : Handle])
    BY DEF Init
  <2>3. slot \in [0..slot_size-1 -> Context \cup {NULL}]
    BY <2>1 DEF Init
  <2>4. pc \in [Launcher \cup Aborter -> {"idle", "assign", "scan", "retire", "done"}]
    BY DEF Init
  <2>5. /\ handle_index \in 1..HANDLE_MASK+1
        /\ handle \in [Context -> 0..HANDLE_MASK]
        /\ got \in [Launcher -> 0..HANDLE_MASK]
        /\ doomed \in [Aborter -> 0..HANDLE_MASK]
    BY <2>1 DEF Init
  <2>6. /\ ctx \in [Launcher -> Context \cup {NULL}]
        /\ scan \in [Aborter -> Nat] /\ retired \in [Aborter -> BOOLEAN]
        /\ seen \in [Aborter -> SUBSET Context]
    BY DEF Init
  <2> QED
    BY <2>1, <2>2, <2>3, <2>4, <2>5, <2>6 DEF Init, TypeOK
<1>2. SizeInv
  BY HandleAssumption DEF Init, SizeInv
<1>3. LaunchInv /\ DoomInv
  BY DEF Init, LaunchInv, DoomInv
<1>4. Sorted(name)
  <2>1. Len(name) = 0
    BY DEF Init
  <2> QED
    BY <2>1 DEF Sorted
<1> QED
  BY <1>1, <1>2, <1>3, <1>4 DEF TypedInv

(* Every step keeps the types, whatever the launchers do.                  *)
LEMMA StepTyped ==
    ASSUME TypedInv, [Next]_vars
    PROVE  TypedInv'
<1> USE DEF TypedInv
<1>0. CASE UNCHANGED vars
  BY <1>0 DEF vars, table, names, launching, aborting, TypeOK, SizeInv, LaunchInv, DoomInv, Sorted
<1>1. ASSUME NEW t \in Launcher, NEW c \in Context, Register(t, c)
      PROVE  TypedInv'
  <2>0. UNCHANGED <<names, handle, aborting>>
    BY <1>1 DEF Register
  <2>1. CASE /\ UNCHANGED <<table, launching, pc>>
             /\ fault' \in {"collision", "null", "full"}
    BY <2>0, <2>1 DEF table, names, launching, aborting, TypeOK, SizeInv, LaunchInv, DoomInv, Sorted
  <2>2. ASSUME NEW h \in Handle, Took(t, c, h, slot, slot_size)
        PROVE  TypedInv'
    <3>1. /\ slot_size \in Nat \ {0} /\ slot_size >= 2 /\ (HANDLE_MASK + 1) % slot_size = 0
          /\ slot \in [0..slot_size-1 -> Context \cup {NULL}]
      BY DEF TypeOK, SizeInv
    <3> HIDE DEF TypedInv
    <3> QED
      BY <2>0, <2>2, <3>1, TookTyped
  <2>3. ASSUME Redone, (HANDLE_MASK + 1) % (2 * slot_size) = 0,
               NEW h \in Handle, Took(t, c, h, Doubled, 2 * slot_size)
        PROVE  TypedInv'
    <3>1. PICK s \in Nat \ {0} : s = 2 * slot_size /\ s >= 2
      BY DEF TypeOK, SizeInv
    <3>2. Doubled \in [0..s-1 -> Context \cup {NULL}] /\ (HANDLE_MASK + 1) % s = 0
      BY <2>3, <3>1 DEF Redone
    <3>3. Took(t, c, h, Doubled, s)
      BY <2>3, <3>1
    <3> HIDE DEF TypedInv
    <3> QED
      BY <2>0, <3>1, <3>2, <3>3, TookTyped
  <2> QED
    BY <1>1, <2>1, <2>2, <2>3, RegisterTakes
<1>2. ASSUME NEW t \in Launcher, Assign(t)
      PROVE  TypedInv'
  <2>1. /\ handle' = [handle EXCEPT ![ctx[t]] = got[t]]
        /\ ctx' = [ctx EXCEPT ![t] = NULL]
        /\ got' = [got EXCEPT ![t] = 0]
        /\ pc' = [pc EXCEPT ![t] = "idle"]
        /\ UNCHANGED <<slot_size, slot, handle_index, name, namings, fault,
                       scan, retired, doomed, seen>>
    BY <1>2 DEF Assign, Goto, table, names, aborting
  <2>2. TypeOK'
    <3>1. 0 \in 0..HANDLE_MASK
      BY HandleAssumption
    <3>2. handle' \in [Context -> 0..HANDLE_MASK] /\ got' \in [Launcher -> 0..HANDLE_MASK]
      BY <2>1, <3>1 DEF TypeOK
    <3>3. pc' \in [Launcher \cup Aborter -> {"idle", "assign", "scan", "retire", "done"}]
      BY <2>1 DEF TypeOK
    <3>4. ctx' \in [Launcher -> Context \cup {NULL}]
      BY <2>1 DEF TypeOK
    <3> QED
      BY <2>1, <3>2, <3>3, <3>4 DEF TypeOK
  <2>3. LaunchInv'
    <3> SUFFICES ASSUME NEW u \in Launcher, pc'[u] = "assign"
                 PROVE  ctx'[u] \in Context /\ got'[u] \in Handle
      BY DEF LaunchInv
    <3>1. u # t /\ pc[u] = "assign" /\ ctx'[u] = ctx[u] /\ got'[u] = got[u]
      BY <2>1 DEF TypeOK
    <3> QED
      BY <3>1 DEF LaunchInv
  <2>4. DoomInv'
    <3>1. \A u \in Aborter : pc'[u] = pc[u]
      BY <2>1, HandleAssumption DEF TypeOK
    <3> QED
      BY <2>1, <3>1 DEF DoomInv
  <2> QED
    BY <2>1, <2>2, <2>3, <2>4 DEF SizeInv, Sorted
<1>3. ASSUME NEW h \in Given, Retire(h)
      PROVE  TypedInv'
  <2>1. h \in Handle
    <3>1. \A c \in Context : handle[c] \in 0..HANDLE_MASK
      BY DEF TypeOK
    <3> QED
      BY <3>1, HandleAssumption DEF Given, Handle
  <2>2. /\ Remove(h)
        /\ UNCHANGED <<slot_size, handle_index, namings, handle, fault, ctx, got,
                       scan, retired, doomed, seen, pc>>
    BY <1>3 DEF Retire, launching, aborting
  <2>3. /\ slot' \in [0..slot_size-1 -> Context \cup {NULL}]
        /\ name' \in Seq(Entry) /\ Sorted(name)'
    <3> HIDE DEF TypedInv
    <3> QED
      BY <2>1, <2>2, RemoveTyped
  <2>4. TypeOK'
    BY <2>2, <2>3 DEF TypeOK, Entry
  <2> QED
    BY <2>2, <2>3, <2>4 DEF SizeInv, LaunchInv, DoomInv
<1>4. ASSUME NEW nm \in Name, NEW h \in Given, NameHandle(nm, h)
      PROVE  TypedInv'
  <2>1. h \in Handle
    <3>1. \A c \in Context : handle[c] \in 0..HANDLE_MASK
      BY DEF TypeOK
    <3> QED
      BY <3>1, HandleAssumption DEF Given, Handle
  <2>2. name' \in Seq(Entry) /\ Sorted(name')
    <3>1. name \in Seq(Entry) /\ Sorted(name)
      BY DEF TypeOK, Entry
    <3> QED
      BY <1>4, <2>1, <3>1, NamingSorted
  <2>3. UNCHANGED <<slot_size, slot, handle_index, handle, fault, ctx, got,
                    scan, retired, doomed, seen, pc>>
    BY <1>4 DEF NameHandle, table, launching, aborting
  <2>4. TypeOK'
    BY <2>2, <2>3 DEF TypeOK, Entry
  <2>5. SizeInv' /\ LaunchInv' /\ DoomInv'
    BY <2>3 DEF SizeInv, LaunchInv, DoomInv
  <2> QED
    BY <2>2, <2>4, <2>5 DEF Sorted
<1>5. ASSUME NEW t \in Aborter, StartPass(t),
             UNCHANGED <<table, names, handle, fault, launching, doomed>>
      PROVE  TypedInv'
  <2>1. /\ scan' = [scan EXCEPT ![t] = 0]
        /\ retired' = [retired EXCEPT ![t] = FALSE]
        /\ seen' = [seen EXCEPT ![t] = Assigned]
        /\ pc' = [pc EXCEPT ![t] = "scan"]
        /\ UNCHANGED <<slot_size, slot, handle_index, name, namings, handle, fault,
                       ctx, got, doomed>>
    BY <1>5 DEF StartPass, Goto, table, names, launching
  <2>2. Assigned \in SUBSET Context
    BY DEF Assigned, Registered
  <2>3. TypeOK'
    <3> HIDE DEF TypedInv
    <3>1. /\ scan' \in [Aborter -> Nat] /\ retired' \in [Aborter -> BOOLEAN]
          /\ seen' \in [Aborter -> SUBSET Context]
          /\ pc' \in [Launcher \cup Aborter -> {"idle", "assign", "scan", "retire", "done"}]
      <4>1. TypeOK
        BY DEF TypedInv
      <4>2. retired' \in [Aborter -> BOOLEAN]
        BY <2>1, <4>1 DEF TypeOK
      <4>3. seen' \in [Aborter -> SUBSET Context]
        BY <2>1, <2>2, <4>1 DEF TypeOK
      <4>4. pc' \in [Launcher \cup Aborter -> {"idle", "assign", "scan", "retire", "done"}]
        BY <2>1, <4>1 DEF TypeOK
      <4>5. scan' \in [Aborter -> Nat]
        BY <2>1, <4>1 DEF TypeOK
      <4> QED
        BY <4>2, <4>3, <4>4, <4>5
    <3> QED
      BY <2>1, <3>1 DEF TypedInv, TypeOK
  <2>4. SizeInv' /\ Sorted(name)'
    BY <2>1 DEF SizeInv, Sorted
  <2>5. LaunchInv' /\ DoomInv'
    BY <2>1, HandleAssumption DEF LaunchInv, DoomInv, TypeOK
  <2> QED
    BY <2>3, <2>4, <2>5
<1>6. ASSUME NEW t \in Aborter, Scan(t) \/ RetireScanned(t) \/ EndPass(t), ~StartPass(t)
      PROVE  TypedInv'
  <2>1. scan[t] + 1 \in Nat
    BY DEF TypeOK
  <2>2. CASE Scan(t)
    <3>1. UNCHANGED <<slot_size, slot, handle_index, name, namings, handle, fault,
                      ctx, got, retired, seen>>
      BY <2>2 DEF Scan, table, names, launching
    <3>2. \/ /\ doomed' = [doomed EXCEPT ![t] = handle[slot[scan[t]]]]
             /\ slot[scan[t]] # NULL
             /\ pc' = [pc EXCEPT ![t] = "retire"]
             /\ scan' = scan
          \/ /\ scan' = [scan EXCEPT ![t] = @ + 1]
             /\ doomed' = doomed /\ pc' = pc
      BY <2>2 DEF Scan, Goto
    <3>3. slot[scan[t]] # NULL => handle[slot[scan[t]]] \in 0..HANDLE_MASK
      <4>1. scan[t] \in 0..slot_size-1
        BY <2>2 DEF Scan, TypeOK
      <4> QED
        BY <4>1 DEF TypeOK
    <3>4. /\ scan' \in [Aborter -> Nat]
          /\ doomed' \in [Aborter -> 0..HANDLE_MASK]
          /\ pc' \in [Launcher \cup Aborter -> {"idle", "assign", "scan", "retire", "done"}]
      BY <2>1, <3>2, <3>3 DEF TypeOK
    <3>5. \A u \in Launcher : pc'[u] = pc[u]
      BY <3>2, HandleAssumption DEF TypeOK
    <3>6. TypeOK'
      BY <3>1, <3>4 DEF TypeOK
    <3>7. DoomInv'
      <4> SUFFICES ASSUME NEW u \in Aborter, pc'[u] = "retire"
                   PROVE  doomed'[u] \in Handle
        BY DEF DoomInv
      <4>1. CASE u = t
        <5>1. pc[t] # "retire"
          BY <2>2 DEF Scan
        <5>2. handle[slot[scan[t]]] # 0 /\ doomed'[t] = handle[slot[scan[t]]]
              /\ slot[scan[t]] # NULL
          BY <2>2, <4>1, <5>1 DEF Scan, TypeOK
        <5> QED
          BY <3>3, <4>1, <5>2, HandleAssumption DEF Handle
      <4>2. CASE u # t
        <5>1. pc'[u] = pc[u] /\ doomed'[u] = doomed[u]
          BY <3>2, <4>2 DEF TypeOK
        <5> QED
          BY <5>1 DEF DoomInv
      <4> QED
        BY <4>1, <4>2
    <3> QED
      BY <3>1, <3>5, <3>6, <3>7 DEF SizeInv, LaunchInv, Sorted
  <2>3. CASE RetireScanned(t)
    <3>1. /\ Remove(doomed[t])
          /\ retired' = [retired EXCEPT ![t] = @ \/ Grabbed(doomed[t]) # NULL]
          /\ doomed' = [doomed EXCEPT ![t] = 0]
          /\ scan' = [scan EXCEPT ![t] = @ + 1]
          /\ pc' = [pc EXCEPT ![t] = "scan"]
          /\ UNCHANGED <<slot_size, handle_index, namings, handle, fault, ctx, got, seen>>
      BY <2>3 DEF RetireScanned, Goto, launching
    <3>2. /\ slot' \in [0..slot_size-1 -> Context \cup {NULL}]
          /\ name' \in Seq(Entry) /\ Sorted(name)'
      <4>1. doomed[t] \in Handle
        BY <2>3 DEF RetireScanned, DoomInv
      <4> HIDE DEF TypedInv
      <4> QED
        BY <3>1, <4>1, RemoveTyped
    <3>3. retired' \in [Aborter -> BOOLEAN]
      BY <3>1 DEF TypeOK
    <3>4. /\ scan' \in [Aborter -> Nat]
          /\ doomed' \in [Aborter -> 0..HANDLE_MASK]
          /\ pc' \in [Launcher \cup Aborter -> {"idle", "assign", "scan", "retire", "done"}]
      BY <2>1, <3>1, HandleAssumption DEF TypeOK
    <3>5. \A u \in Launcher : pc'[u] = pc[u]
      BY <3>1, HandleAssumption DEF TypeOK
    <3>6. TypeOK'
      BY <3>1, <3>2, <3>3, <3>4 DEF TypeOK, Entry
    <3>7. DoomInv'
      BY <3>1 DEF TypeOK, DoomInv
    <3> QED
      BY <3>1, <3>2, <3>5, <3>6, <3>7 DEF SizeInv, LaunchInv
  <2>4. CASE EndPass(t)
    <3>1. /\ pc' = [pc EXCEPT ![t] = "done"]
          /\ UNCHANGED <<slot_size, slot, handle_index, name, namings, handle, fault,
                         ctx, got, scan, retired, doomed, seen>>
      BY <1>6, <2>4 DEF EndPass, Goto, table, names, launching
    <3>2. pc' \in [Launcher \cup Aborter -> {"idle", "assign", "scan", "retire", "done"}]
      BY <3>1 DEF TypeOK
    <3>3. \A u \in Launcher : pc'[u] = pc[u]
      BY <3>1, HandleAssumption DEF TypeOK
    <3>4. DoomInv'
      BY <3>1 DEF TypeOK, DoomInv
    <3> QED
      BY <3>1, <3>2, <3>3, <3>4 DEF TypeOK, SizeInv, LaunchInv, Sorted
  <2> QED
    BY <1>6, <2>2, <2>3, <2>4
<1>7. ASSUME NEW t \in Aborter, Abort(t) \/ Scan(t) \/ RetireScanned(t) \/ EndPass(t)
      PROVE  TypedInv'
  <2>1. CASE StartPass(t)
    <3>1. Abort(t) \/ EndPass(t)
      BY <1>7, <2>1 DEF StartPass, Goto, Scan, RetireScanned, TypeOK
    <3>2. UNCHANGED <<table, names, handle, fault, launching, doomed>>
      BY <3>1 DEF Abort, EndPass
    <3> HIDE DEF TypedInv
    <3> QED
      BY <1>5, <2>1, <3>2
  <2>2. CASE ~StartPass(t)
    <3>1. ~Abort(t)
      BY <2>2 DEF Abort
    <3> HIDE DEF TypedInv
    <3> QED
      BY <1>6, <1>7, <2>2, <3>1
  <2> QED
    BY <2>1, <2>2
<1> HIDE DEF TypedInv
<1>8. CASE Next
  BY <1>1, <1>2, <1>3, <1>4, <1>7, <1>8 DEF Next
<1> QED
  BY <1>0, <1>8
-----------------------------------------------------------------------------
(* Where a context is: at the slot its handle says, or at the slot of the  *)
(* handle that its launcher still has to store in it.                      *)
SlotsInv ==
    \A k \in 0..slot_size-1 : slot[k] # NULL =>
        \/ /\ handle[slot[k]] # 0
           /\ k = Hash(handle[slot[k]], slot_size)
        \/ /\ handle[slot[k]] = 0
           /\ \E t \in Launcher : /\ pc[t] = "assign" /\ ctx[t] = slot[k]
                                  /\ k = Hash(got[t], slot_size)

PendingInv ==
    /\ \A t \in Launcher : pc[t] = "assign" =>
           /\ handle[ctx[t]] = 0
           /\ slot[Hash(got[t], slot_size)] = ctx[t]
    /\ \A t, u \in Launcher :
           pc[t] = "assign" /\ pc[u] = "assign" /\ ctx[t] = ctx[u] => t = u

(* What an abort saw has its handle, and no slot behind the scan holds any *)
(* of it; the handle it is to retire is that of the context it looks at.   *)
PassInv ==
    \A t \in Aborter :
        /\ \A c \in seen[t] : handle[c] # 0
        /\ pc[t] \in {"scan", "retire"} =>
               \A k \in 0..slot_size-1 : slot[k] \in seen[t] => k >= scan[t]
        /\ pc[t] = "retire" =>
               \A k \in 0..slot_size-1 :
                   k = scan[t] /\ slot[k] \in seen[t] => handle[slot[k]] = doomed[t]
        /\ pc[t] = "done" =>
               \A k \in 0..slot_size-1 : slot[k] \notin seen[t]

PlacedInv == SlotsInv /\ PendingInv /\ PassInv

(* Every context in the table has its handle, whenever the table doubles.  *)
DoublesReady == slot_size' # slot_size => Registered = Assigned
-----------------------------------------------------------------------------
(* A handle's slot is in the table.                                        *)
LEMMA HashInside ==
    ASSUME TypedInv, NEW h \in Nat
    PROVE  Hash(h, slot_size) \in 0..slot_size-1
  BY DivMod DEF TypedInv, TypeOK, Hash

(* What the types say, in the form that the next proofs use                *)
LEMMA TypesOf ==
    ASSUME TypedInv
    PROVE  /\ HANDLE_MASK \in Nat \ {0} /\ Handle \subseteq Nat /\ 0 \notin Handle
           /\ slot_size \in Nat \ {0}
           /\ DOMAIN slot = 0..slot_size-1
           /\ \A k \in 0..slot_size-1 : slot[k] \in Context \cup {NULL}
           /\ NULL \notin Context
           /\ \A c \in Context : handle[c] \in Nat /\ (handle[c] # 0 => handle[c] \in Handle)
           /\ \A t \in Aborter : seen[t] \subseteq Context /\ scan[t] \in Nat /\ t \notin Launcher
           /\ Registered = {c \in Context : \E k \in 0..slot_size-1 : slot[k] = c}
  BY HandleAssumption DEF TypedInv, TypeOK, Handle, Registered

(* The service in a slot is the one its handle finds.                      *)
LEMMA PlacedIsFound ==
    ASSUME TypedInv, SlotsInv
    PROVE  RegisteredIsFound
<1>1. ASSUME NEW c \in Assigned
      PROVE  /\ Grabbed(handle[c]) = c
             /\ \A k \in DOMAIN slot : slot[k] = c => k = Hash(handle[c], slot_size)
  <2>1. c \in Context /\ c # NULL /\ handle[c] # 0
    BY TypesOf DEF Assigned, Registered
  <2>2. \A k \in 0..slot_size-1 : slot[k] = c => k = Hash(handle[c], slot_size)
    BY <2>1 DEF SlotsInv
  <2>3. PICK k \in 0..slot_size-1 : slot[k] = c
    BY TypesOf DEF Assigned
  <2> QED
    BY <2>1, <2>2, <2>3, TypesOf DEF Grabbed
<1> QED
  BY <1>1 DEF RegisteredIsFound, TypedInv

(* A pass that has ended has left nothing it saw.                          *)
LEMMA PassIsComplete ==
    ASSUME TypedInv, PassInv
    PROVE  AbortRetiresAll
  BY TypesOf DEF PassInv, AbortRetiresAll

(* Nobody else's slot is that of a context, nor its handle another's.      *)
LEMMA OneSlotEach ==
    ASSUME TypedInv, SlotsInv, PendingInv,
           NEW j \in 0..slot_size-1, NEW k \in 0..slot_size-1, slot[j] = slot[k], slot[j] # NULL
    PROVE  j = k
<1>1. CASE handle[slot[j]] # 0
  BY <1>1 DEF SlotsInv
<1>2. CASE handle[slot[j]] = 0
  <2>1. PICK t \in Launcher : pc[t] = "assign" /\ ctx[t] = slot[j] /\ j = Hash(got[t], slot_size)
    BY <1>2 DEF SlotsInv
  <2>2. PICK u \in Launcher : pc[u] = "assign" /\ ctx[u] = slot[k] /\ k = Hash(got[u], slot_size)
    BY <1>2 DEF SlotsInv
  <2>3. t = u
    BY <2>1, <2>2 DEF PendingInv
  <2> QED
    BY <2>1, <2>2, <2>3
<1> QED
  BY <1>1, <1>2

(* A context that is not in the table takes a free slot.                   *)
LEMMA TookPlaced ==
    ASSUME TypedInv, PlacedInv, NEW t \in Launcher, pc[t] = "idle",
           NEW c \in Context, Fresh(c), NEW h \in Handle,
           Took(t, c, h, slot, slot_size), UNCHANGED <<names, handle, aborting>>
    PROVE  PlacedInv'
<1> DEFINE at == Hash(h, slot_size)
<1>1. /\ at \in 0..slot_size-1 /\ slot[at] = NULL
      /\ slot_size' = slot_size
      /\ slot' = [slot EXCEPT ![at] = c]
      /\ ctx' = [ctx EXCEPT ![t] = c]
      /\ got' = [got EXCEPT ![t] = h]
      /\ pc' = [pc EXCEPT ![t] = "assign"]
      /\ UNCHANGED <<handle, scan, retired, doomed, seen>>
  BY DEF Took, aborting
<1>2. /\ handle[c] = 0 /\ c # NULL
      /\ \A k \in 0..slot_size-1 : slot[k] # c
  BY TypesOf DEF Fresh
<1>3. /\ slot'[at] = c /\ \A k \in 0..slot_size-1 : k # at => slot'[k] = slot[k]
      /\ ctx'[t] = c /\ got'[t] = h /\ pc'[t] = "assign"
      /\ \A u \in Launcher : u # t => ctx'[u] = ctx[u] /\ got'[u] = got[u] /\ pc'[u] = pc[u]
      /\ \A u \in Aborter : pc'[u] = pc[u]
  <2>1. at \in DOMAIN slot /\ DOMAIN slot = 0..slot_size-1
    BY <1>1, TypesOf
  <2> HIDE DEF at
  <2>2. slot'[at] = c /\ \A k \in 0..slot_size-1 : k # at => slot'[k] = slot[k]
    BY <1>1, <2>1
  <2>3. \A u \in Aborter : pc'[u] = pc[u]
    BY <1>1, TypesOf DEF TypedInv, TypeOK
  <2> QED
    BY <1>1, <2>2, <2>3 DEF TypedInv, TypeOK
<1>4. Hash(h, slot_size)' = at /\ \A g : Hash(g, slot_size') = Hash(g, slot_size)
  BY <1>1 DEF Hash
<1> HIDE DEF at
<1>5. SlotsInv'
  <2> SUFFICES ASSUME NEW k \in 0..slot_size-1, slot'[k] # NULL
               PROVE  \/ /\ handle[slot'[k]] # 0
                         /\ k = Hash(handle[slot'[k]], slot_size)
                      \/ /\ handle[slot'[k]] = 0
                         /\ \E u \in Launcher : /\ pc'[u] = "assign" /\ ctx'[u] = slot'[k]
                                                /\ k = Hash(got'[u], slot_size)
    BY <1>1 DEF SlotsInv, Hash
  <2>1. CASE k = at
    BY <1>2, <1>3, <2>1 DEF at
  <2>2. CASE k # at
    <3>1. slot'[k] = slot[k]
      BY <1>3, <2>2
    <3>2. CASE handle[slot[k]] # 0
      BY <3>1, <3>2 DEF PlacedInv, SlotsInv
    <3>3. CASE handle[slot[k]] = 0
      <4>1. PICK u \in Launcher : pc[u] = "assign" /\ ctx[u] = slot[k] /\ k = Hash(got[u], slot_size)
        BY <3>1, <3>3 DEF PlacedInv, SlotsInv
      <4>2. u # t
        BY <4>1
      <4>3. pc'[u] = "assign" /\ ctx'[u] = slot'[k] /\ k = Hash(got'[u], slot_size)
        BY <1>3, <3>1, <4>1, <4>2
      <4> QED
        BY <3>1, <3>3, <4>3
    <3> QED
      BY <3>2, <3>3
  <2> QED
    BY <2>1, <2>2
<1>6. PendingInv'
  <2>1. ASSUME NEW u \in Launcher, pc'[u] = "assign"
        PROVE  handle[ctx'[u]] = 0 /\ slot'[Hash(got'[u], slot_size)] = ctx'[u]
    <3>1. CASE u = t
      BY <1>2, <1>3, <3>1 DEF at
    <3>2. CASE u # t
      <4>1. pc[u] = "assign" /\ ctx'[u] = ctx[u] /\ got'[u] = got[u]
        BY <1>3, <2>1, <3>2
      <4>2. handle[ctx[u]] = 0 /\ slot[Hash(got[u], slot_size)] = ctx[u]
            /\ ctx[u] \in Context /\ got[u] \in Handle
        BY <4>1 DEF PlacedInv, PendingInv, TypedInv, LaunchInv
      <4>3. Hash(got[u], slot_size) \in 0..slot_size-1
        BY <4>2, TypesOf, HashInside
      <4>4. Hash(got[u], slot_size) # at
        BY <1>1, <4>2, TypesOf
      <4>5. slot'[Hash(got[u], slot_size)] = ctx[u]
        BY <1>3, <4>2, <4>3, <4>4
      <4> QED
        BY <4>1, <4>2, <4>5
    <3> QED
      BY <3>1, <3>2
  <2>2. ASSUME NEW u \in Launcher, NEW v \in Launcher,
               pc'[u] = "assign", pc'[v] = "assign", ctx'[u] = ctx'[v], u # v
        PROVE  FALSE
    <3>1. ASSUME NEW w \in Launcher, pc'[w] = "assign", w # t
          PROVE  ctx'[w] = ctx[w] /\ ctx[w] # c /\ pc[w] = "assign"
      <4>1. pc[w] = "assign" /\ ctx'[w] = ctx[w]
        BY <1>3, <3>1
      <4>2. slot[Hash(got[w], slot_size)] = ctx[w] /\ got[w] \in Handle
        BY <4>1 DEF PlacedInv, PendingInv, TypedInv, LaunchInv
      <4>3. Hash(got[w], slot_size) \in 0..slot_size-1
        BY <4>2, TypesOf, HashInside
      <4> QED
        BY <1>2, <4>1, <4>2, <4>3
    <3>2. u # t /\ v # t
      BY <1>3, <2>2, <3>1
    <3> QED
      BY <2>2, <3>1, <3>2 DEF PlacedInv, PendingInv
  <2> QED
    BY <1>1, <2>1, <2>2 DEF PendingInv, Hash
<1>7. PassInv'
  <2> SUFFICES ASSUME NEW u \in Aborter
               PROVE  /\ \A d \in seen[u] : handle[d] # 0
                      /\ pc[u] \in {"scan", "retire"} =>
                            \A k \in 0..slot_size-1 : slot'[k] \in seen[u] => k >= scan[u]
                      /\ pc[u] = "retire" =>
                            \A k \in 0..slot_size-1 :
                                k = scan[u] /\ slot'[k] \in seen[u] => handle[slot'[k]] = doomed[u]
                      /\ pc[u] = "done" =>
                            \A k \in 0..slot_size-1 : slot'[k] \notin seen[u]
    BY <1>1, <1>3 DEF PassInv
  <2>1. \A d \in seen[u] : handle[d] # 0
    BY DEF PlacedInv, PassInv
  <2>2. c \notin seen[u]
    BY <1>2, <2>1
  <2>3. \A k \in 0..slot_size-1 : slot'[k] \in seen[u] => slot'[k] = slot[k]
    BY <1>3, <2>2
  <2> QED
    BY <2>1, <2>3 DEF PlacedInv, PassInv
<1> QED
  BY <1>5, <1>6, <1>7 DEF PlacedInv

(* A doubling moves every context to its slot or to the one as far behind  *)
(* the old end, where its handle says.                                     *)
LEMMA TookDoubledPlaced ==
    ASSUME TypedInv, PlacedInv, Registered = Assigned, Redone,
           NEW t \in Launcher, pc[t] = "idle",
           NEW c \in Context, Fresh(c), NEW h \in Handle,
           Took(t, c, h, Doubled, 2 * slot_size), UNCHANGED <<names, handle, aborting>>
    PROVE  PlacedInv'
<1>0. PICK n \in Nat \ {0} : n = slot_size
  BY TypesOf
<1>n. PICK s \in Nat \ {0} : s = 2 * n
  BY <1>0
<1> DEFINE at == Hash(h, s)
<1>1. /\ at \in 0..s-1 /\ Doubled[at] = NULL
      /\ slot_size' = s
      /\ slot' = [Doubled EXCEPT ![at] = c]
      /\ ctx' = [ctx EXCEPT ![t] = c]
      /\ got' = [got EXCEPT ![t] = h]
      /\ pc' = [pc EXCEPT ![t] = "assign"]
      /\ UNCHANGED <<handle, scan, retired, doomed, seen>>
  BY <1>0, <1>n DEF Took, aborting
<1>2. /\ Doubled \in [0..s-1 -> Context \cup {NULL}]
      /\ \A b \in 0..s-1 : Doubled[b] # NULL =>
           \E k \in 0..n-1 : b = Rehash(k) /\ Doubled[b] = slot[k]
      /\ \A k \in 0..n-1 : slot[k] \in Context
  BY <1>0, <1>n DEF Redone
<1>3. /\ slot'[at] = c /\ \A k \in 0..s-1 : k # at => slot'[k] = Doubled[k]
      /\ ctx'[t] = c /\ got'[t] = h /\ pc'[t] = "assign"
      /\ \A u \in Launcher : u # t => ctx'[u] = ctx[u] /\ got'[u] = got[u] /\ pc'[u] = pc[u]
      /\ \A u \in Aborter : pc'[u] = pc[u]
  <2>1. \A u \in Aborter : pc'[u] = pc[u]
    BY <1>1, TypesOf DEF TypedInv, TypeOK
  <2> HIDE DEF at
  <2>2. slot'[at] = c /\ \A k \in 0..s-1 : k # at => slot'[k] = Doubled[k]
    BY <1>1, <1>2
  <2> QED
    BY <1>1, <2>1, <2>2 DEF TypedInv, TypeOK
<1>4. handle[c] = 0 /\ c # NULL
  BY TypesOf DEF Fresh
(* Every context of the old table has its handle.                          *)
<1>5. \A k \in 0..n-1 : /\ handle[slot[k]] # 0
                        /\ k = Hash(handle[slot[k]], n)
                        /\ Rehash(k) = Hash(handle[slot[k]], s)
                        /\ Rehash(k) = k \/ Rehash(k) = k + n
  <2> TAKE k \in 0..n-1
  <2>1. slot[k] \in Registered
    BY <1>0, <1>2, TypesOf
  <2>2. handle[slot[k]] # 0
    BY <2>1 DEF Assigned
  <2>3. slot[k] # NULL
    BY <1>2, TypesOf
  <2>4. k = Hash(handle[slot[k]], n)
    BY <1>0, <2>2, <2>3 DEF PlacedInv, SlotsInv
  <2>5. Rehash(k) = Hash(handle[slot[k]], s)
    BY <1>0, <1>n DEF Rehash
  <2>6. PICK x \in Nat : x = handle[slot[k]]
    BY <1>2, TypesOf
  <2>7. x % (2 * n) = x % n \/ x % (2 * n) = (x % n) + n
    BY HalfIs
  <2> QED
    BY <1>n, <2>2, <2>4, <2>5, <2>6, <2>7 DEF Hash
<1>6. \A u \in Launcher : pc[u] # "assign"
  <2> SUFFICES ASSUME NEW u \in Launcher, pc[u] = "assign" PROVE FALSE
    OBVIOUS
  <2>1. /\ handle[ctx[u]] = 0 /\ slot[Hash(got[u], slot_size)] = ctx[u]
        /\ ctx[u] \in Context /\ got[u] \in Handle
    BY DEF PlacedInv, PendingInv, TypedInv, LaunchInv
  <2>2. Hash(got[u], slot_size) \in 0..slot_size-1
    BY <2>1, TypesOf, HashInside
  <2> QED
    BY <1>0, <1>5, <2>1, <2>2
<1> HIDE DEF at
<1>7. \A k \in 0..s-1 : k # at /\ slot'[k] # NULL =>
          \E i \in 0..n-1 : k = Rehash(i) /\ slot'[k] = slot[i]
  BY <1>2, <1>3
<1>8. SlotsInv'
  <2> SUFFICES ASSUME NEW k \in 0..s-1, slot'[k] # NULL
               PROVE  \/ /\ handle[slot'[k]] # 0
                         /\ k = Hash(handle[slot'[k]], s)
                      \/ /\ handle[slot'[k]] = 0
                         /\ \E u \in Launcher : /\ pc'[u] = "assign" /\ ctx'[u] = slot'[k]
                                                /\ k = Hash(got'[u], s)
    BY <1>1 DEF SlotsInv, Hash
  <2>1. CASE k = at
    BY <1>3, <1>4, <2>1 DEF at
  <2>2. CASE k # at
    BY <1>5, <1>7, <2>2
  <2> QED
    BY <2>1, <2>2
<1>9. PendingInv'
  <2>1. \A u \in Launcher : pc'[u] = "assign" => u = t
    BY <1>3, <1>6
  <2>2. handle[ctx'[t]] = 0 /\ slot'[Hash(got'[t], s)] = ctx'[t]
    BY <1>3, <1>4 DEF at
  <2> QED
    BY <1>1, <2>1, <2>2 DEF PendingInv, Hash
<1>10. PassInv'
  <2> SUFFICES ASSUME NEW u \in Aborter
               PROVE  /\ \A d \in seen[u] : handle[d] # 0
                      /\ pc[u] \in {"scan", "retire"} =>
                            \A k \in 0..s-1 : slot'[k] \in seen[u] => k >= scan[u]
                      /\ pc[u] = "retire" =>
                            \A k \in 0..s-1 :
                                k = scan[u] /\ slot'[k] \in seen[u] => handle[slot'[k]] = doomed[u]
                      /\ pc[u] = "done" =>
                            \A k \in 0..s-1 : slot'[k] \notin seen[u]
    BY <1>1, <1>3 DEF PassInv
  <2>1. \A d \in seen[u] : handle[d] # 0
    BY DEF PlacedInv, PassInv
  <2>2. ASSUME NEW k \in 0..s-1, slot'[k] \in seen[u]
        PROVE  \E i \in 0..n-1 : slot'[k] = slot[i] /\ (k = i \/ k = i + n)
    <3>1. k # at
      BY <1>3, <1>4, <2>1, <2>2
    <3>2. slot'[k] # NULL
      BY <2>2, TypesOf
    <3> QED
      BY <1>5, <1>7, <3>1, <3>2
  <2>3. /\ pc[u] \in {"scan", "retire"} =>
               \A i \in 0..n-1 : slot[i] \in seen[u] => i >= scan[u]
        /\ pc[u] = "retire" =>
               \A i \in 0..n-1 : i = scan[u] /\ slot[i] \in seen[u] => handle[slot[i]] = doomed[u]
        /\ pc[u] = "done" => \A i \in 0..n-1 : slot[i] \notin seen[u]
        /\ scan[u] \in Nat
    BY <1>0, TypesOf DEF PlacedInv, PassInv
  <2>4. ASSUME pc[u] \in {"scan", "retire"}, NEW k \in 0..s-1, slot'[k] \in seen[u]
        PROVE  k >= scan[u]
    BY <2>2, <2>3, <2>4
  <2>5. ASSUME pc[u] = "retire", NEW k \in 0..s-1, k = scan[u], slot'[k] \in seen[u]
        PROVE  handle[slot'[k]] = doomed[u]
    <3>1. PICK i \in 0..n-1 : slot'[k] = slot[i] /\ (k = i \/ k = i + n)
      BY <2>2, <2>5
    <3>2. i >= scan[u]
      BY <2>3, <2>5, <3>1
    <3>3. i = k
      BY <2>5, <3>1, <3>2
    <3> QED
      BY <2>3, <2>5, <3>1, <3>3
  <2>6. ASSUME pc[u] = "done", NEW k \in 0..s-1
        PROVE  slot'[k] \notin seen[u]
    BY <2>2, <2>3, <2>6
  <2> QED
    BY <2>1, <2>4, <2>5, <2>6
<1> QED
  BY <1>8, <1>9, <1>10 DEF PlacedInv

(* The launcher stores the handle in its context.                          *)
LEMMA AssignPlaced ==
    ASSUME TypedInv, PlacedInv, NEW t \in Launcher, Assign(t)
    PROVE  PlacedInv'
<1>1. /\ pc[t] = "assign"
      /\ handle' = [handle EXCEPT ![ctx[t]] = got[t]]
      /\ ctx' = [ctx EXCEPT ![t] = NULL]
      /\ pc' = [pc EXCEPT ![t] = "idle"]
      /\ got' = [got EXCEPT ![t] = 0]
      /\ UNCHANGED <<slot_size, slot, scan, retired, doomed, seen>>
  BY DEF Assign, Goto, table, aborting
<1>2. PICK c \in Context, g \in Handle : c = ctx[t] /\ g = got[t]
  BY <1>1 DEF TypedInv, LaunchInv
<1>3. /\ handle[c] = 0 /\ handle'[c] = g /\ g # 0
      /\ \A d \in Context : d # c => handle'[d] = handle[d]
      /\ slot[Hash(g, slot_size)] = c
  BY <1>1, <1>2, TypesOf DEF TypedInv, TypeOK, PlacedInv, PendingInv
<1>4. /\ pc'[t] = "idle"
      /\ \A u \in Launcher : u # t => ctx'[u] = ctx[u] /\ got'[u] = got[u] /\ pc'[u] = pc[u]
      /\ \A u \in Aborter : pc'[u] = pc[u]
  BY <1>1, TypesOf DEF TypedInv, TypeOK
<1>5. \A u \in Launcher : pc[u] = "assign" /\ ctx[u] = c => u = t
  BY <1>1, <1>2 DEF PlacedInv, PendingInv
<1>6. SlotsInv'
  <2> SUFFICES ASSUME NEW k \in 0..slot_size-1, slot[k] # NULL
               PROVE  \/ /\ handle'[slot[k]] # 0
                         /\ k = Hash(handle'[slot[k]], slot_size)
                      \/ /\ handle'[slot[k]] = 0
                         /\ \E u \in Launcher : /\ pc'[u] = "assign" /\ ctx'[u] = slot[k]
                                                /\ k = Hash(got'[u], slot_size)
    BY <1>1 DEF SlotsInv, Hash
  <2>0. slot[k] \in Context
    BY TypesOf
  <2>1. CASE slot[k] = c
    <3>1. PICK u \in Launcher : pc[u] = "assign" /\ ctx[u] = c /\ k = Hash(got[u], slot_size)
      BY <1>3, <2>1 DEF PlacedInv, SlotsInv
    <3>2. u = t
      BY <1>5, <3>1
    <3> QED
      BY <1>2, <1>3, <2>1, <3>1, <3>2
  <2>2. CASE slot[k] # c /\ handle[slot[k]] # 0
    BY <1>3, <2>0, <2>2 DEF PlacedInv, SlotsInv
  <2>3. CASE slot[k] # c /\ handle[slot[k]] = 0
    <3>1. PICK u \in Launcher : pc[u] = "assign" /\ ctx[u] = slot[k] /\ k = Hash(got[u], slot_size)
      BY <2>3 DEF PlacedInv, SlotsInv
    <3>2. u # t
      BY <1>2, <2>3, <3>1
    <3> QED
      BY <1>3, <1>4, <2>0, <2>3, <3>1, <3>2
  <2> QED
    BY <2>1, <2>2, <2>3
<1>7. PendingInv'
  <2>1. ASSUME NEW u \in Launcher, pc'[u] = "assign"
        PROVE  /\ u # t /\ pc[u] = "assign" /\ ctx'[u] = ctx[u] /\ got'[u] = got[u]
               /\ ctx[u] # c /\ ctx[u] \in Context
    BY <1>4, <1>5, <2>1 DEF TypedInv, LaunchInv
  <2>2. ASSUME NEW u \in Launcher, pc'[u] = "assign"
        PROVE  handle'[ctx'[u]] = 0 /\ slot[Hash(got'[u], slot_size)] = ctx'[u]
    BY <1>3, <2>1, <2>2 DEF PlacedInv, PendingInv
  <2>3. \A u, v \in Launcher :
            pc'[u] = "assign" /\ pc'[v] = "assign" /\ ctx'[u] = ctx'[v] => u = v
    BY <2>1 DEF PlacedInv, PendingInv
  <2> QED
    BY <1>1, <2>2, <2>3 DEF PendingInv, Hash
<1>8. PassInv'
  <2> SUFFICES ASSUME NEW u \in Aborter
               PROVE  /\ \A d \in seen[u] : handle'[d] # 0
                      /\ pc[u] \in {"scan", "retire"} =>
                            \A k \in 0..slot_size-1 : slot[k] \in seen[u] => k >= scan[u]
                      /\ pc[u] = "retire" =>
                            \A k \in 0..slot_size-1 :
                                k = scan[u] /\ slot[k] \in seen[u] => handle'[slot[k]] = doomed[u]
                      /\ pc[u] = "done" =>
                            \A k \in 0..slot_size-1 : slot[k] \notin seen[u]
    BY <1>1, <1>4 DEF PassInv
  <2>1. \A d \in seen[u] : handle'[d] = handle[d] /\ handle[d] # 0
    BY <1>3, TypesOf DEF PlacedInv, PassInv
  <2> QED
    BY <2>1 DEF PlacedInv, PassInv
<1> QED
  BY <1>6, <1>7, <1>8 DEF PlacedInv

(* A retirement empties the slot of the context with that handle, and      *)
(* touches no other.                                                       *)
LEMMA RemovePlaced ==
    ASSUME TypedInv, PlacedInv, NEW h \in Handle, Remove(h),
           UNCHANGED <<slot_size, handle, launching>>,
           \A t \in Launcher : pc'[t] = pc[t]
    PROVE  /\ SlotsInv' /\ PendingInv'
           /\ \A k \in 0..slot_size-1 : slot'[k] # NULL =>
                  slot'[k] = slot[k] /\ handle[slot[k]] # h
<1> DEFINE at == Hash(h, slot_size)
<1>0. at \in 0..slot_size-1
  BY TypesOf, HashInside
<1>1. UNCHANGED <<ctx, got>>
  BY DEF launching
<1>2. \A k \in 0..slot_size-1 : slot'[k] # NULL => slot'[k] = slot[k] /\ handle[slot[k]] # h
  <2>1. CASE Grabbed(h) # NULL
    <3>1. slot' = [slot EXCEPT ![at] = NULL]
      BY <2>1 DEF Remove
    <3> HIDE DEF at
    <3>2. \A k \in 0..slot_size-1 : slot'[k] # NULL => k # at /\ slot'[k] = slot[k]
      BY <1>0, <3>1 DEF TypedInv, TypeOK
    <3>3. \A k \in 0..slot_size-1 : slot[k] # NULL /\ handle[slot[k]] = h => k = at
      BY TypesOf DEF PlacedInv, SlotsInv, at
    <3> QED
      BY <3>2, <3>3
  <2>2. CASE Grabbed(h) = NULL
    <3>1. slot' = slot
      BY <2>2 DEF Remove
    <3>2. slot[at] = NULL \/ handle[slot[at]] # h
      BY <2>2 DEF Grabbed
    <3>3. \A k \in 0..slot_size-1 : slot[k] # NULL /\ handle[slot[k]] = h => k = at
      BY TypesOf DEF PlacedInv, SlotsInv
    <3> QED
      BY <3>1, <3>2, <3>3
  <2> QED
    BY <2>1, <2>2
<1>3. \A k \in 0..slot_size-1 : slot[k] # NULL /\ handle[slot[k]] = 0 => slot'[k] = slot[k]
  <2>1. CASE Grabbed(h) # NULL
    <3>1. slot' = [slot EXCEPT ![at] = NULL] /\ handle[slot[at]] = h
      BY <2>1 DEF Remove, Grabbed
    <3> HIDE DEF at
    <3> QED
      BY <1>0, <3>1, TypesOf
  <2>2. CASE Grabbed(h) = NULL
    BY <2>2 DEF Remove
  <2> QED
    BY <2>1, <2>2
<1>4. SlotsInv'
  <2> SUFFICES ASSUME NEW k \in 0..slot_size-1, slot'[k] # NULL
               PROVE  \/ /\ handle[slot'[k]] # 0
                         /\ k = Hash(handle[slot'[k]], slot_size)
                      \/ /\ handle[slot'[k]] = 0
                         /\ \E u \in Launcher : /\ pc[u] = "assign" /\ ctx[u] = slot'[k]
                                                /\ k = Hash(got[u], slot_size)
    BY <1>1 DEF SlotsInv, Hash
  <2> QED
    BY <1>2 DEF PlacedInv, SlotsInv
<1>5. PendingInv'
  <2>1. ASSUME NEW t \in Launcher, pc[t] = "assign"
        PROVE  slot'[Hash(got[t], slot_size)] = ctx[t]
    <3>1. /\ handle[ctx[t]] = 0 /\ slot[Hash(got[t], slot_size)] = ctx[t]
          /\ ctx[t] \in Context /\ got[t] \in Handle
      BY <2>1 DEF PlacedInv, PendingInv, TypedInv, LaunchInv
    <3>2. Hash(got[t], slot_size) \in 0..slot_size-1
      BY <3>1, TypesOf, HashInside
    <3> QED
      BY <1>3, <3>1, <3>2, TypesOf
  <2> QED
    BY <1>1, <2>1 DEF PlacedInv, PendingInv, Hash
<1> QED
  BY <1>2, <1>4, <1>5

(* A retirement by a service takes nothing that a pass still looks for out *)
(* of its order.                                                           *)
LEMMA RetirePlaced ==
    ASSUME TypedInv, PlacedInv, NEW h \in Handle, Retire(h)
    PROVE  PlacedInv'
<1>1. /\ Remove(h)
      /\ UNCHANGED <<slot_size, handle, launching, scan, doomed, seen, pc>>
  BY DEF Retire, aborting
<1>2. /\ SlotsInv' /\ PendingInv'
      /\ \A k \in 0..slot_size-1 : slot'[k] # NULL => slot'[k] = slot[k]
  BY <1>1, RemovePlaced
<1>3. PassInv'
  <2> SUFFICES ASSUME NEW u \in Aborter
               PROVE  /\ \A d \in seen[u] : handle[d] # 0
                      /\ pc[u] \in {"scan", "retire"} =>
                            \A k \in 0..slot_size-1 : slot'[k] \in seen[u] => k >= scan[u]
                      /\ pc[u] = "retire" =>
                            \A k \in 0..slot_size-1 :
                                k = scan[u] /\ slot'[k] \in seen[u] => handle[slot'[k]] = doomed[u]
                      /\ pc[u] = "done" =>
                            \A k \in 0..slot_size-1 : slot'[k] \notin seen[u]
    BY <1>1 DEF PassInv
  <2>1. \A k \in 0..slot_size-1 : slot'[k] \in seen[u] => slot'[k] = slot[k]
    BY <1>2, TypesOf
  <2> QED
    BY <2>1 DEF PlacedInv, PassInv
<1> QED
  BY <1>2, <1>3 DEF PlacedInv

(* The steps of an abort that leave the table alone                        *)
LEMMA LookPlaced ==
    ASSUME TypedInv, PlacedInv, NEW t \in Aborter,
           UNCHANGED <<table, handle, launching>>,
           \/ StartPass(t) /\ UNCHANGED doomed
           \/ Scan(t)
           \/ EndPass(t)
    PROVE  PlacedInv'
<1>1. /\ UNCHANGED <<slot_size, slot, handle, ctx, got>>
      /\ \A u \in Launcher : pc'[u] = pc[u]
      /\ \A u \in Aborter : u # t => /\ pc'[u] = pc[u] /\ scan'[u] = scan[u]
                                     /\ seen'[u] = seen[u] /\ doomed'[u] = doomed[u]
  <2>1. UNCHANGED <<slot_size, slot, handle, ctx, got>>
    BY DEF table, launching
  <2>2. CASE StartPass(t) /\ UNCHANGED doomed
    BY <2>1, <2>2, TypesOf DEF StartPass, Goto, TypedInv, TypeOK
  <2>3. CASE Scan(t)
    BY <2>1, <2>3, TypesOf DEF Scan, Goto, TypedInv, TypeOK
  <2>4. CASE EndPass(t) /\ ~StartPass(t)
    BY <2>1, <2>4, TypesOf DEF EndPass, Goto, TypedInv, TypeOK
  <2>5. CASE EndPass(t) /\ StartPass(t)
    BY <2>2, <2>5 DEF EndPass
  <2> QED
    BY <2>2, <2>3, <2>4, <2>5
<1>2. SlotsInv' /\ PendingInv'
  <2>1. SlotsInv'
    BY <1>1 DEF PlacedInv, SlotsInv, Hash
  <2>2. PendingInv'
    BY <1>1 DEF PlacedInv, PendingInv, Hash
  <2> QED
    BY <2>1, <2>2
<1>3. /\ \A d \in seen'[t] : handle[d] # 0
      /\ pc'[t] \in {"scan", "retire"} =>
            \A k \in 0..slot_size-1 : slot[k] \in seen'[t] => k >= scan'[t]
      /\ pc'[t] = "retire" =>
            \A k \in 0..slot_size-1 :
                k = scan'[t] /\ slot[k] \in seen'[t] => handle[slot[k]] = doomed'[t]
      /\ pc'[t] = "done" =>
            \A k \in 0..slot_size-1 : slot[k] \notin seen'[t]
  <2>0. /\ \A d \in seen[t] : handle[d] # 0
        /\ pc[t] \in {"scan", "retire"} =>
               \A k \in 0..slot_size-1 : slot[k] \in seen[t] => k >= scan[t]
    BY DEF PlacedInv, PassInv
  <2>1. CASE StartPass(t)
    <3>1. scan'[t] = 0 /\ seen'[t] = Assigned /\ pc'[t] = "scan"
      BY <2>1 DEF StartPass, Goto, TypedInv, TypeOK
    <3>2. \A d \in Assigned : handle[d] # 0
      BY DEF Assigned
    <3> QED
      BY <3>1, <3>2
  <2>2. CASE Scan(t)
    <3>1. /\ pc[t] = "scan" /\ scan[t] \in 0..slot_size-1
          /\ seen' = seen
      BY <2>2, TypesOf DEF Scan
    <3>2. CASE slot[scan[t]] # NULL /\ handle[slot[scan[t]]] # 0
      <4>1. doomed'[t] = handle[slot[scan[t]]] /\ pc'[t] = "retire" /\ scan'[t] = scan[t]
        BY <2>2, <3>2 DEF Scan, Goto, TypedInv, TypeOK
      <4> QED
        BY <2>0, <3>1, <4>1
    <3>3. CASE ~(slot[scan[t]] # NULL /\ handle[slot[scan[t]]] # 0)
      <4>1. pc'[t] = "scan" /\ scan'[t] = scan[t] + 1
        BY <2>2, <3>1, <3>3 DEF Scan, TypedInv, TypeOK
      <4>2. slot[scan[t]] \notin seen[t]
        BY <2>0, <3>3, TypesOf
      <4>3. \A k \in 0..slot_size-1 : slot[k] \in seen[t] => k >= scan[t] /\ k # scan[t]
        BY <2>0, <3>1, <4>2
      <4>4. scan[t] \in Nat
        BY TypesOf
      <4>5. \A k \in 0..slot_size-1 : slot[k] \in seen[t] => k >= scan[t] + 1
        BY <4>3, <4>4
      <4> QED
        BY <2>0, <3>1, <4>1, <4>5
    <3> QED
      BY <3>2, <3>3
  <2>3. CASE EndPass(t) /\ ~StartPass(t)
    <3>1. pc[t] = "scan" /\ scan[t] >= slot_size /\ pc'[t] = "done" /\ seen' = seen
      BY <2>3 DEF EndPass, Goto, TypedInv, TypeOK
    <3>2. \A k \in 0..slot_size-1 : slot[k] \notin seen[t]
      BY <2>0, <3>1, TypesOf
    <3> QED
      BY <2>0, <3>1, <3>2
  <2> QED
    BY <2>1, <2>2, <2>3
<1>4. PassInv'
  BY <1>1, <1>3 DEF PlacedInv, PassInv
<1> QED
  BY <1>2, <1>4 DEF PlacedInv

(* An abort retires what it looked at, if that is still there.             *)
LEMMA RetireScannedPlaced ==
    ASSUME TypedInv, PlacedInv, NEW t \in Aborter, RetireScanned(t)
    PROVE  PlacedInv'
<1>1. /\ pc[t] = "retire" /\ Remove(doomed[t])
      /\ pc' = [pc EXCEPT ![t] = "scan"]
      /\ doomed' = [doomed EXCEPT ![t] = 0]
      /\ scan' = [scan EXCEPT ![t] = @ + 1]
      /\ UNCHANGED <<slot_size, handle, launching, seen>>
  BY DEF RetireScanned, Goto
<1>2. PICK h \in Handle : h = doomed[t]
  BY <1>1 DEF TypedInv, DoomInv
<1>3. /\ pc'[t] = "scan" /\ scan'[t] = scan[t] + 1
      /\ \A u \in Launcher : pc'[u] = pc[u]
      /\ \A u \in Aborter : u # t => pc'[u] = pc[u] /\ scan'[u] = scan[u] /\ doomed'[u] = doomed[u]
  BY <1>1, TypesOf DEF TypedInv, TypeOK
<1>4. /\ SlotsInv' /\ PendingInv'
      /\ \A k \in 0..slot_size-1 : slot'[k] # NULL =>
                  slot'[k] = slot[k] /\ handle[slot[k]] # h
  BY <1>1, <1>2, <1>3, RemovePlaced
<1>5. \A k \in 0..slot_size-1, u \in Aborter :
          slot'[k] \in seen[u] => slot'[k] = slot[k] /\ handle[slot[k]] # h
  BY <1>4, TypesOf
(* What the pass looks for is not where it was any more: that was h.       *)
<1>6. \A k \in 0..slot_size-1 : slot'[k] \in seen[t] => k >= scan[t] + 1
  <2> SUFFICES ASSUME NEW k \in 0..slot_size-1, slot'[k] \in seen[t]
               PROVE  k >= scan[t] + 1
    OBVIOUS
  <2>1. slot'[k] = slot[k] /\ handle[slot[k]] # h
    BY <1>5
  <2>2. k >= scan[t]
    BY <1>1, <2>1 DEF PlacedInv, PassInv
  <2>3. k # scan[t]
    BY <1>1, <1>2, <2>1 DEF PlacedInv, PassInv
  <2>4. scan[t] \in Nat
    BY TypesOf
  <2> QED
    BY <2>2, <2>3, <2>4
<1>7. PassInv'
  <2> SUFFICES ASSUME NEW u \in Aborter
               PROVE  /\ \A d \in seen[u] : handle[d] # 0
                      /\ pc'[u] \in {"scan", "retire"} =>
                            \A k \in 0..slot_size-1 : slot'[k] \in seen[u] => k >= scan'[u]
                      /\ pc'[u] = "retire" =>
                            \A k \in 0..slot_size-1 :
                                k = scan'[u] /\ slot'[k] \in seen[u] => handle[slot'[k]] = doomed'[u]
                      /\ pc'[u] = "done" =>
                            \A k \in 0..slot_size-1 : slot'[k] \notin seen[u]
    BY <1>1 DEF PassInv
  <2>1. \A d \in seen[u] : handle[d] # 0
    BY DEF PlacedInv, PassInv
  <2>2. CASE u = t
    BY <1>3, <1>6, <2>1, <2>2
  <2>3. CASE u # t
    <3>1. pc'[u] = pc[u] /\ scan'[u] = scan[u] /\ doomed'[u] = doomed[u]
      BY <1>3, <2>3
    <3> QED
      BY <1>5, <2>1, <3>1 DEF PlacedInv, PassInv
  <2> QED
    BY <2>2, <2>3
<1> QED
  BY <1>4, <1>7 DEF PlacedInv

(* The places hold of the empty table.                                     *)
LEMMA InitPlaced == Init => PlacedInv
<1> SUFFICES ASSUME Init PROVE PlacedInv
  OBVIOUS
<1>1. \A k \in 0..slot_size-1 : slot[k] = NULL
  BY DEF Init
<1>2. /\ \A t \in Launcher \cup Aborter : pc[t] = "idle"
      /\ \A t \in Aborter : seen[t] = {}
  BY DEF Init
<1> QED
  BY <1>1, <1>2 DEF PlacedInv, SlotsInv, PendingInv, PassInv

(* Every step keeps the places, if a doubling finds every handle stored.   *)
LEMMA StepPlaced ==
    ASSUME TypedInv, PlacedInv, [Next]_vars, DoublesReady
    PROVE  PlacedInv'
<1>0. CASE UNCHANGED vars
  <2>1. UNCHANGED <<slot_size, slot, handle, ctx, got, scan, doomed, seen, pc>>
    BY <1>0 DEF vars, table, launching, aborting
  <2> QED
    BY <2>1 DEF PlacedInv, SlotsInv, PendingInv, PassInv, Hash
<1>1. ASSUME NEW t \in Launcher, NEW c \in Context, Register(t, c)
      PROVE  PlacedInv'
  <2>0. pc[t] = "idle" /\ Fresh(c) /\ UNCHANGED <<names, handle, aborting>>
    BY <1>1 DEF Register
  <2>1. CASE UNCHANGED <<table, launching, pc>>
    <3>1. UNCHANGED <<slot_size, slot, handle, ctx, got, scan, doomed, seen, pc>>
      BY <2>0, <2>1 DEF table, launching, aborting
    <3> QED
      BY <3>1 DEF PlacedInv, SlotsInv, PendingInv, PassInv, Hash
  <2>2. ASSUME NEW h \in Handle, Took(t, c, h, slot, slot_size)
        PROVE  PlacedInv'
    BY <2>0, <2>2, TookPlaced
  <2>3. ASSUME Redone, NEW h \in Handle, Took(t, c, h, Doubled, 2 * slot_size)
        PROVE  PlacedInv'
    <3>1. slot_size' # slot_size
      BY <2>3, TypesOf DEF Took
    <3> QED
      BY <2>0, <2>3, <3>1, TookDoubledPlaced DEF DoublesReady
  <2>4. TypeOK /\ SizeInv
    BY DEF TypedInv
  <2> QED
    BY <1>1, <2>1, <2>2, <2>3, <2>4, RegisterTakes
<1>2. ASSUME NEW t \in Launcher, Assign(t)
      PROVE  PlacedInv'
  BY <1>2, AssignPlaced
<1>3. ASSUME NEW h \in Given, Retire(h)
      PROVE  PlacedInv'
  <2>1. h \in Handle
    BY TypesOf DEF Given
  <2> QED
    BY <1>3, <2>1, RetirePlaced
<1>4. ASSUME NEW nm \in Name, NEW h \in Given, NameHandle(nm, h)
      PROVE  PlacedInv'
  <2>1. UNCHANGED <<slot_size, slot, handle, ctx, got, scan, doomed, seen, pc>>
    BY <1>4 DEF NameHandle, table, launching, aborting
  <2> QED
    BY <2>1 DEF PlacedInv, SlotsInv, PendingInv, PassInv, Hash
<1>5. ASSUME NEW t \in Aborter, Abort(t) \/ Scan(t) \/ EndPass(t)
      PROVE  PlacedInv'
  <2>1. /\ UNCHANGED <<table, handle, launching>>
        /\ \/ StartPass(t) /\ UNCHANGED doomed
           \/ Scan(t)
           \/ EndPass(t)
    BY <1>5 DEF Abort, Scan, EndPass
  <2> QED
    BY <2>1, LookPlaced
<1>6. ASSUME NEW t \in Aborter, RetireScanned(t)
      PROVE  PlacedInv'
  BY <1>6, RetireScannedPlaced
<1>7. CASE Next
  BY <1>1, <1>2, <1>3, <1>4, <1>5, <1>6, <1>7 DEF Next
<1> QED
  BY <1>0, <1>7

(* With one launcher the table only doubles when no context waits for its  *)
(* handle: whoever makes it double is the one that would give it.          *)
LEMMA OneLauncherIsReady ==
    ASSUME TypedInv, PlacedInv, [Next]_vars, \A t, u \in Launcher : t = u
    PROVE  DoublesReady
<1> SUFFICES ASSUME slot_size' # slot_size PROVE Registered = Assigned
  BY DEF DoublesReady
<1>1. PICK t \in Launcher, c \in Context : Register(t, c)
  <2>1. ~UNCHANGED vars
    BY DEF vars, table
  <2>2. \A t \in Launcher : ~Assign(t)
    BY DEF Assign, table
  <2>3. \A h \in Given : ~Retire(h) /\ \A nm \in Name : ~NameHandle(nm, h)
    BY DEF Retire, NameHandle, table
  <2>4. \A t \in Aborter : ~Abort(t) /\ ~Scan(t) /\ ~RetireScanned(t) /\ ~EndPass(t)
    BY DEF Abort, Scan, RetireScanned, EndPass, table
  <2> QED
    BY <2>1, <2>2, <2>3, <2>4 DEF Next
<1>2. \A u \in Launcher : pc[u] # "assign"
  BY <1>1 DEF Register
<1>3. \A k \in 0..slot_size-1 : slot[k] # NULL => handle[slot[k]] # 0
  BY <1>2 DEF PlacedInv, SlotsInv
<1> QED
  BY <1>3, TypesOf DEF Assigned
-----------------------------------------------------------------------------
(* The state keeps its types, with any number of launchers and aborters.   *)
THEOREM TypeCorrect == Spec => []TypeOK
<1>1. Init => TypedInv
  BY InitTyped
<1>2. TypedInv /\ [Next]_vars => TypedInv'
  BY StepTyped
<1>3. TypedInv => TypeOK
  BY DEF TypedInv
<1> QED
  BY <1>1, <1>2, <1>3, PTL DEF Spec

(* A name is found exactly if it is in the table, through every naming and *)
(* every retirement.                                                       *)
THEOREM NamesStaySorted == Spec => []NamesAreFound
<1>1. Init => TypedInv
  BY InitTyped
<1>2. TypedInv /\ [Next]_vars => TypedInv'
  BY StepTyped
<1>3. TypedInv => NamesAreFound
  BY SortedIsFound DEF TypedInv, TypeOK, Entry
<1> QED
  BY <1>1, <1>2, <1>3, PTL DEF Spec

(* What holds if no doubling meets a context that waits for its handle ... *)
LEMMA PlacedIfReady ==
    Spec /\ [][DoublesReady]_vars => [](TypedInv /\ PlacedInv)
<1>1. Init => TypedInv /\ PlacedInv
  BY InitTyped, InitPlaced
<1>2. TypedInv /\ PlacedInv /\ [Next]_vars /\ [DoublesReady]_vars => (TypedInv /\ PlacedInv)'
  <2> SUFFICES ASSUME TypedInv, PlacedInv, [Next]_vars, [DoublesReady]_vars
               PROVE  TypedInv' /\ PlacedInv'
    OBVIOUS
  <2>1. DoublesReady
    BY DEF vars, table, DoublesReady
  <2> QED
    BY <2>1, StepTyped, StepPlaced
<1> QED
  BY <1>1, <1>2, PTL DEF Spec

(* ... and so always, if one thread launches the services                  *)
LEMMA PlacedIfOne ==
    ASSUME \A t, u \in Launcher : t = u
    PROVE  Spec => [](TypedInv /\ PlacedInv)
<1>1. Init => TypedInv /\ PlacedInv
  BY InitTyped, InitPlaced
<1>2. TypedInv /\ PlacedInv /\ [Next]_vars => (TypedInv /\ PlacedInv)'
  BY StepTyped, StepPlaced, OneLauncherIsReady
<1> QED
  BY <1>1, <1>2, PTL DEF Spec

(* A service in the table is the one its handle finds, through doublings,  *)
(* reused slots and the wrap of the handles, if one thread launches.       *)
THEOREM RegisteredStaysFound ==
    ASSUME \A t, u \in Launcher : t = u
    PROVE  Spec => []RegisteredIsFound
<1>1. TypedInv /\ PlacedInv => RegisteredIsFound
  BY PlacedIsFound DEF PlacedInv
<1> QED
  BY <1>1, PlacedIfOne, PTL

(* An abort returns when everything its last pass saw is out of the table, *)
(* whatever was launched, retired or moved meanwhile, if one thread        *)
(* launches.                                                               *)
THEOREM AbortIsComplete ==
    ASSUME \A t, u \in Launcher : t = u
    PROVE  Spec => []AbortRetiresAll
<1>1. TypedInv /\ PlacedInv => AbortRetiresAll
  BY PassIsComplete DEF PlacedInv
<1> QED
  BY <1>1, PlacedIfOne, PTL

(* Both, with any number of launchers, as long as the table doubles only   *)
(* when every context in it has its handle: the late store of the handle   *)
(* by snownet_context_new is the one thing that can break them.            *)
THEOREM LateHandleIsAllThatBreaks ==
    Spec /\ [][DoublesReady]_vars => [](RegisteredIsFound /\ AbortRetiresAll)
<1>1. TypedInv /\ PlacedInv => RegisteredIsFound /\ AbortRetiresAll
  BY PlacedIsFound, PassIsComplete DEF PlacedInv
<1> QED
  BY <1>1, PlacedIfReady, PTL
=============================================================================
