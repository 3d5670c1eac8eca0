-------------------------- MODULE CoinKeys_proofs --------------------------
(***************************************************************************)
(* Proofs about CoinKeys, for any width and base of strings, any field,    *)
(* order and curve that the assumptions of Curve hold for, Ed25519 among   *)
(* them, and any function as the hash (HashHolds): types, that device,     *)
(* sender and host compute the same keys, and that the map of a digest to  *)
(* a point is total and is the one of its definition.                      *)
(*                                                                         *)
(* The invariant only says of each value which function of the others it   *)
(* is. The rest follows from what those functions compute: numbers of      *)
(* strings, multiples of points (a group, of which the addition's closure  *)
(* and associativity are assumed), and the field, where an equation is     *)
(* written as a multiple of the prime (Zero).                              *)
(***************************************************************************)
EXTENDS CoinKeys, WellFoundedInduction, TLAPS

-----------------------------------------------------------------------------
(* Induction, and functions defined by recursion on smaller numbers.       *)

\* Induction on sets of numbers.
LEMMA StrongInduction ==
    ASSUME NEW T \in SUBSET Nat,
           \A n \in Nat : (\A k \in Nat : k < n => k \in T) => n \in T
    PROVE  \A n \in Nat : n \in T
<1> DEFINE R == OpToRel(<, Nat)
<1> SUFFICES ASSUME Nat \ T # {} PROVE FALSE
  OBVIOUS
<1>1. IsWellFoundedOn(R, Nat)
  BY NatLessThanWellFounded
<1> HIDE DEF R
<1>2. PICK x \in Nat \ T : \A y \in Nat \ T : ~(<<y, x>> \in R)
  BY <1>1, WFMin
<1>3. ASSUME NEW k \in Nat, k < x PROVE k \in T
  <2>1. <<k, x>> \in R
    BY <1>3 DEF R, OpToRel
  <2> QED BY <1>2, <2>1
<1> QED BY <1>2, <1>3

LEMMA Induction ==
    ASSUME NEW T \in SUBSET Nat, 0 \in T, \A n \in T : n + 1 \in T
    PROVE  \A n \in Nat : n \in T
<1>1. ASSUME NEW n \in Nat, \A k \in Nat : k < n => k \in T PROVE n \in T
  <2>1. CASE n = 0
    BY <2>1
  <2>2. CASE n # 0
    <3>1. n - 1 \in Nat /\ n - 1 < n /\ n - 1 + 1 = n
      BY <2>2
    <3>2. n - 1 \in T
      BY <1>1, <3>1
    <3> QED BY <3>1, <3>2
  <2> QED BY <2>1, <2>2
<1> QED BY <1>1, StrongInduction

\* There is a function with the value z at 0 and otherwise one computed from
\* its value at a smaller number.
HasValues(S, z, step, below) ==
    \E f \in [Nat -> S] : f[0] = z /\ \A n \in Nat \ {0} : f[n] = step[n][f[below[n]]]

LEMMA RecursionExists ==
    ASSUME NEW S, NEW z \in S, NEW step \in [Nat -> [S -> S]], NEW below \in [Nat -> Nat],
           \A n \in Nat \ {0} : below[n] < n
    PROVE  HasValues(S, z, step, below)
<1> DEFINE Up(m, f) == f[0] = z /\ \A n \in 1..m : f[n] = step[n][f[below[n]]]
           T == {m \in Nat : \E f \in [0..m -> S] : Up(m, f)}
<1>1. 0 \in T
  <2> DEFINE f == [i \in 0..0 |-> z]
  <2>1. f \in [0..0 -> S] /\ f[0] = z
    OBVIOUS
  <2>2. Up(0, f)
    BY <2>1
  <2> QED BY <2>1, <2>2
<1>2. ASSUME NEW m \in T PROVE m + 1 \in T
  <2>1. PICK f \in [0..m -> S] : Up(m, f)
    OBVIOUS
  <2>2. m \in Nat /\ m + 1 \in Nat \ {0} /\ below[m + 1] \in 0..m
    OBVIOUS
  <2>3. step[m + 1] \in [S -> S] /\ f[below[m + 1]] \in S
    BY <2>2
  <2> DEFINE last == step[m + 1][f[below[m + 1]]]
             g == [i \in 0..(m + 1) |-> IF i <= m THEN f[i] ELSE last]
  <2>4. last \in S
    BY <2>3
  <2>5. g \in [0..(m + 1) -> S]
    BY <2>4
  <2>6. g[0] = z
    BY <2>1, <2>2
  <2>7. ASSUME NEW n \in 1..(m + 1) PROVE g[n] = step[n][g[below[n]]]
    <3>1. n \in Nat \ {0} /\ below[n] \in 0..m
      <4>1. n \in Nat \ {0} /\ n <= m + 1
        BY <2>2
      <4>2. PICK b \in Nat : b = below[n] /\ b < n
        BY <4>1
      <4> QED BY <2>2, <4>1, <4>2
    <3>4. g[below[n]] = f[below[n]]
      <4>1. \A b \in 0..m : g[b] = f[b]
        BY <2>2
      <4> QED BY <3>1, <4>1, Zenon
    <3>2. CASE n <= m
      <4>1. n \in 1..m /\ g[n] = f[n]
        BY <3>2
      <4> QED BY <2>1, <3>4, <4>1
    <3>3. CASE n = m + 1
      <4>1. g[n] = last
        BY <3>3, <2>2
      <4> QED BY <3>3, <3>4, <4>1
    <3> QED BY <2>2, <3>2, <3>3
  <2> QED BY <2>2, <2>5, <2>6, <2>7
<1> HIDE DEF T
<1>3. \A m \in Nat : m \in T
  <2>1. T \in SUBSET Nat
    BY DEF T
  <2> QED BY <1>1, <1>2, <2>1, Induction
\* Two of these functions agree where both are defined.
<1>4. ASSUME NEW m \in Nat, NEW n \in Nat, NEW f, NEW g, Up(m, f), Up(n, g)
      PROVE  \A k \in Nat : k <= m /\ k <= n => f[k] = g[k]
  <2> DEFINE U == {k \in Nat : k <= m /\ k <= n => f[k] = g[k]}
  <2>1. ASSUME NEW k \in Nat, \A i \in Nat : i < k => i \in U PROVE k \in U
    <3>1. SUFFICES ASSUME k <= m, k <= n PROVE f[k] = g[k]
      OBVIOUS
    <3>2. CASE k = 0
      BY <1>4, <3>2
    <3>3. CASE k # 0
      <4>1. k \in 1..m /\ k \in 1..n /\ below[k] \in Nat /\ below[k] < k
        BY <3>1, <3>3
      <4>2. f[below[k]] = g[below[k]]
        BY <2>1, <3>1, <4>1
      <4> QED BY <1>4, <4>1, <4>2
    <3> QED BY <3>2, <3>3
  <2> HIDE DEF U
  <2>2. \A k \in Nat : k \in U
    <3>1. U \in SUBSET Nat
      BY DEF U
    <3> QED BY <2>1, <3>1, StrongInduction
  <2> QED BY <2>2 DEF U
<1> DEFINE c == [m \in Nat |-> CHOOSE f \in [0..m -> S] : Up(m, f)]
           F == [m \in Nat |-> c[m][m]]
<1>5. ASSUME NEW m \in Nat PROVE c[m] \in [0..m -> S] /\ Up(m, c[m])
  <2>1. \E f \in [0..m -> S] : Up(m, f)
    BY <1>3 DEF T
  <2>2. c[m] = CHOOSE f \in [0..m -> S] : Up(m, f)
    OBVIOUS
  <2> HIDE DEF c, Up
  <2> QED BY <2>1, <2>2
<1> HIDE DEF c
<1>6. F \in [Nat -> S]
  BY <1>5
<1>7. F[0] = z
  BY <1>5
<1>8. ASSUME NEW n \in Nat \ {0} PROVE F[n] = step[n][F[below[n]]]
  <2>1. n \in Nat /\ n \in 1..n /\ below[n] \in Nat /\ below[n] < n
    OBVIOUS
  <2>2. F[n] = step[n][c[n][below[n]]]
    BY <1>5, <2>1
  <2>3. c[n][below[n]] = c[below[n]][below[n]]
    <3>1. PICK b \in Nat : b = below[n] /\ b < n
      BY <2>1
    <3>2. b <= n /\ b <= b
      BY <2>1, <3>1
    <3>4. Up(n, c[n]) /\ Up(b, c[b])
      BY <1>5, <2>1, <3>1
    <3> HIDE DEF Up
    <3>3. c[n][b] = c[b][b]
      BY <1>4, <2>1, <3>1, <3>2, <3>4
    <3> QED BY <3>1, <3>3, Zenon
  <2>4. F[below[n]] = c[below[n]][below[n]]
    BY <2>1
  <2> QED BY <2>2, <2>3, <2>4
<1> QED BY <1>6, <1>7, <1>8 DEF HasValues

\* The same for numbers, and for the step from one number to the next.
LEMMA NatRecursion ==
    ASSUME NEW z \in Nat, NEW step \in [Nat -> [Nat -> Nat]]
    PROVE  \E f \in [Nat -> Nat] : f[0] = z /\ \A n \in Nat \ {0} : f[n] = step[n][f[n - 1]]
<1> DEFINE below == [n \in Nat |-> IF n = 0 THEN 0 ELSE n - 1]
<1>1. \A S : \A y \in S, g \in [Nat -> [S -> S]], b \in [Nat -> Nat] :
          (\A n \in Nat \ {0} : b[n] < n) => HasValues(S, y, g, b)
  BY RecursionExists, Zenon
<1>2. below \in [Nat -> Nat] /\ \A n \in Nat \ {0} : below[n] < n /\ below[n] = n - 1
  OBVIOUS
<1> HIDE DEF below
<1>3. HasValues(Nat, z, step, below)
  BY <1>1, <1>2, Zenon
<1>4. PICK f \in [Nat -> Nat] : f[0] = z /\ \A n \in Nat \ {0} : f[n] = step[n][f[below[n]]]
  BY <1>3, Zenon DEF HasValues
<1>5. \A n \in Nat \ {0} : f[n] = step[n][f[n - 1]]
  BY <1>2, <1>4, Zenon
<1> QED BY <1>4, <1>5, Zenon

-----------------------------------------------------------------------------
(* Arithmetic. *)

LEMMA Products ==
    \A a, b, c \in Nat : /\ a * b \in Nat /\ a * b = b * a /\ (a * b) * c = a * (b * c)
                         /\ (a + 1) * b = a * b + b /\ (a + b) * c = a * c + b * c
                         /\ a # 0 /\ b # 0 => a * b # 0
OBVIOUS

\* Quotient and remainder.
LEMMA Division ==
    ASSUME NEW n \in Nat, NEW d \in Nat \ {0}
    PROVE  /\ n \div d \in Nat /\ n % d \in 0..(d - 1)
           /\ n = (n \div d) * d + (n % d)
           /\ n < d => n \div d = 0 /\ n % d = n
OBVIOUS

\* Quotient and remainder are the only ones.
LEMMA DivisionUnique ==
    ASSUME NEW d \in Nat \ {0}, NEW q \in Nat, NEW r \in 0..(d - 1)
    PROVE  (q * d + r) \div d = q /\ (q * d + r) % d = r
<1> DEFINE n == q * d + r
<1>1. n \in Nat /\ n \div d \in Nat /\ n % d \in 0..(d - 1) /\ n = (n \div d) * d + (n % d)
  BY Products
<1>2. \A x, y \in Nat : x * d + d <= y * d \/ x = y \/ y * d + d <= x * d
  <2>1. ASSUME NEW x \in Nat, NEW y \in Nat, x < y PROVE x * d + d <= y * d
    <3>1. PICK k \in Nat : y = x + 1 + k
      BY <2>1
    <3>2. y * d = x * d + d + k * d /\ k * d \in Nat /\ x * d \in Nat
      BY <3>1, Products
    <3> QED BY <3>2
  <2> QED BY <2>1
<1>3. PICK x \in Nat : x = n \div d
  BY <1>1
<1>4. PICK y \in 0..(d - 1) : y = n % d
  BY <1>1
<1>5. q * d + r = x * d + y
  BY <1>1, <1>3, <1>4
<1>6. q * d \in Nat /\ x * d \in Nat
  BY Products
<1>7. x = q
  BY <1>2, <1>5, <1>6
<1> QED BY <1>3, <1>4, <1>5, <1>6, <1>7

\* Dividing by one number and then by another.
LEMMA DivisionTwice ==
    ASSUME NEW n \in Nat, NEW a \in Nat \ {0}, NEW b \in Nat \ {0}
    PROVE  n \div (a * b) = (n \div a) \div b
<1>1. PICK q \in Nat, r \in 0..(a - 1) : n \div a = q /\ n = q * a + r
  BY Division
<1>2. PICK x \in Nat, y \in 0..(b - 1) : q \div b = x /\ q = x * b + y
  BY Division
<1>3. n = x * (a * b) + (y * a + r)
  <2>1. q * a = (x * b) * a + y * a
    BY <1>2, Products
  <2>2. (x * b) * a = x * (a * b)
    BY Products
  <2>3. x * (a * b) \in Nat /\ y * a \in Nat /\ q * a \in Nat
    BY Products
  <2> QED BY <1>1, <2>1, <2>2, <2>3
<1>4. y * a + r \in 0..(a * b - 1)
  <2>1. PICK k \in Nat : b = y + 1 + k
    BY <1>2
  <2>2. b * a = y * a + a + k * a /\ a * b = b * a
    BY <2>1, Products
  <2>3. y * a \in Nat /\ k * a \in Nat /\ a * b \in Nat
    BY Products
  <2> QED BY <2>2, <2>3
<1>5. a * b \in Nat \ {0}
  BY Products
<1>6. n \div (a * b) = x
  BY <1>3, <1>4, <1>5, DivisionUnique
<1> QED BY <1>1, <1>2, <1>6

-----------------------------------------------------------------------------
(* Strings and their numbers. *)

\* The constants of Curve, as numbers.
LEMMA Constants ==
    /\ ByteValues \in Nat \ {0} /\ ByteValues \div 2 \in Nat \ {0, 1} /\ Width \in Nat
    /\ Strings = Place[Width] /\ 0..(ByteValues - 1) \subseteq Nat
    /\ Field \in Nat \ {0} /\ Field % 2 = 1 /\ 2 * Field <= Strings
    /\ Order \in Nat \ {0} /\ Order <= Strings
BY CurveAssumption DEF Strings

\* Places are powers of the base.
LEMMA PlaceFacts ==
    /\ Place[0] = 1 /\ \A i \in 0..Width : Place[i] \in Nat \ {0}
    /\ \A i \in 1..Width : Place[i] = Place[i - 1] * ByteValues
<1> DEFINE F(p) == [i \in 0..Width |-> IF i = 0 THEN 1 ELSE p[i - 1] * ByteValues]
           step == [i \in Nat |-> [y \in Nat |-> y * ByteValues]]
<1>0. Width \in Nat /\ ByteValues \in Nat \ {0}
  BY Constants
<1>1. step \in [Nat -> [Nat -> Nat]] /\ \A i, y \in Nat : step[i][y] = y * ByteValues
  BY <1>0, Products
<1> HIDE DEF step
<1>2. PICK f \in [Nat -> Nat] : f[0] = 1 /\ \A i \in Nat \ {0} : f[i] = step[i][f[i - 1]]
  <2>1. 1 \in Nat
    OBVIOUS
  <2> QED BY <1>1, <2>1, NatRecursion, Zenon
<1>3. \A i \in Nat \ {0} : f[i] = f[i - 1] * ByteValues
  <2>1. \A i \in Nat \ {0} : f[i - 1] \in Nat /\ i \in Nat
    OBVIOUS
  <2> QED BY <1>1, <1>2, <2>1
<1> DEFINE g == [i \in 0..Width |-> f[i]]
<1>4. g = F(g)
  <2>1. \A i \in 0..Width : g[i] = IF i = 0 THEN 1 ELSE g[i - 1] * ByteValues
    BY <1>0, <1>2, <1>3
  <2> QED BY <2>1
<1>5. Place = F(Place)
  BY <1>4, Zenon DEF Place
<1>6. \A i \in 0..Width : Place[i] = IF i = 0 THEN 1 ELSE Place[i - 1] * ByteValues
  <2> DEFINE P == Place
  <2> HIDE DEF P
  <2>1. P = [i \in 0..Width |-> IF i = 0 THEN 1 ELSE P[i - 1] * ByteValues]
    BY <1>5 DEF P
  <2>2. \A i \in 0..Width : P[i] = IF i = 0 THEN 1 ELSE P[i - 1] * ByteValues
    BY <2>1, Zenon
  <2> QED BY <2>2 DEF P
<1>7. Place[0] = 1 /\ \A i \in 1..Width : Place[i] = Place[i - 1] * ByteValues
  <2>1. 0 \in 0..Width /\ \A i \in 1..Width : i \in 0..Width /\ i # 0
    BY <1>0
  <2> QED BY <1>6, <2>1
<1> DEFINE T == {i \in Nat : i <= Width => Place[i] \in Nat \ {0}}
<1>8. 0 \in T
  BY <1>7
<1>9. ASSUME NEW i \in T PROVE i + 1 \in T
  <2>1. SUFFICES ASSUME i + 1 <= Width PROVE Place[i + 1] \in Nat \ {0}
    OBVIOUS
  <2>2. i \in Nat /\ Place[i] \in Nat \ {0} /\ i + 1 \in 1..Width /\ i + 1 - 1 = i
    BY <1>0, <2>1
  <2>3. Place[i + 1] = Place[i] * ByteValues
    BY <1>7, <2>2
  <2> QED BY <1>0, <2>2, <2>3, Products
<1> HIDE DEF T
<1>10. \A i \in Nat : i \in T
  <2>1. T \in SUBSET Nat
    BY DEF T
  <2> QED BY <1>8, <1>9, <2>1, Induction
<1> QED BY <1>7, <1>10 DEF T

LEMMA StringsPositive == Strings \in Nat \ {0}
BY Constants, PlaceFacts

\* The number of a string, byte by byte.
LEMMA NumberFacts ==
    ASSUME NEW s \in Seq(Nat)
    PROVE  \E v \in [0..Len(s) -> Nat] :
              /\ v[0] = 0 /\ \A i \in 1..Len(s) : v[i] = v[i - 1] * ByteValues + s[i]
              /\ Number(s) = v[Len(s)]
<1> DEFINE F(v) == [i \in 0..Len(s) |-> IF i = 0 THEN 0 ELSE v[i - 1] * ByteValues + s[i]]
           step == [i \in Nat |-> [y \in Nat |-> IF i \in 1..Len(s) THEN y * ByteValues + s[i] ELSE 0]]
<1>0. Len(s) \in Nat /\ ByteValues \in Nat /\ \A i \in 1..Len(s) : s[i] \in Nat
  BY Constants
<1>1. \A i \in 1..Len(s), y \in Nat : y * ByteValues + s[i] \in Nat
  <2>1. \A y, b, d \in Nat : y * b + d \in Nat
    OBVIOUS
  <2> QED BY <1>0, <2>1
<1>2. step \in [Nat -> [Nat -> Nat]]
  BY <1>1
<1>3. \A i \in 1..Len(s), y \in Nat : step[i][y] = y * ByteValues + s[i]
  BY <1>0
<1> HIDE DEF step
<1>4. PICK f \in [Nat -> Nat] : f[0] = 0 /\ \A i \in Nat \ {0} : f[i] = step[i][f[i - 1]]
  <2>1. 0 \in Nat
    OBVIOUS
  <2> QED BY <1>2, <2>1, NatRecursion, Zenon
<1>5. \A i \in 1..Len(s) : f[i] = f[i - 1] * ByteValues + s[i]
  <2>1. \A i \in 1..Len(s) : i \in Nat \ {0}
    BY <1>0
  <2>2. \A i \in Nat \ {0} : f[i - 1] \in Nat
    OBVIOUS
  <2> QED BY <1>3, <1>4, <2>1, <2>2
<1> DEFINE g == [i \in 0..Len(s) |-> f[i]]
<1>6. \A i \in 0..Len(s) : g[i] = IF i = 0 THEN 0 ELSE g[i - 1] * ByteValues + s[i]
  <2>1. \A i \in 0..Len(s) : i # 0 => i \in 1..Len(s) /\ i - 1 \in 0..Len(s)
    BY <1>0
  <2>2. \A i \in 0..Len(s) : g[i] = f[i]
    OBVIOUS
  <2> QED BY <1>4, <1>5, <2>1, <2>2, Zenon
<1>7. g = F(g)
  BY <1>6
<1> DEFINE V == CHOOSE v : v = F(v)
<1>8. V = F(V)
  BY <1>7, Zenon
<1>9. Number(s) = V[Len(s)]
  BY Zenon DEF Number
<1> HIDE DEF V
<1>10. \A i \in 0..Len(s) : V[i] = IF i = 0 THEN 0 ELSE V[i - 1] * ByteValues + s[i]
  <2>1. V = [i \in 0..Len(s) |-> IF i = 0 THEN 0 ELSE V[i - 1] * ByteValues + s[i]]
    BY <1>8
  <2> QED BY <2>1, Zenon
<1>11. V[0] = 0 /\ \A i \in 1..Len(s) : V[i] = V[i - 1] * ByteValues + s[i]
  <2>1. 0 \in 0..Len(s) /\ \A i \in 1..Len(s) : i \in 0..Len(s) /\ i # 0
    BY <1>0
  <2> QED BY <1>10, <2>1
<1> DEFINE T == {i \in Nat : i <= Len(s) => V[i] \in Nat}
<1>12. 0 \in T
  BY <1>11
<1>13. ASSUME NEW i \in T PROVE i + 1 \in T
  <2>1. SUFFICES ASSUME i + 1 <= Len(s) PROVE V[i + 1] \in Nat
    OBVIOUS
  <2>2. V[i] \in Nat /\ i + 1 \in 1..Len(s) /\ i + 1 - 1 = i
    BY <1>0, <2>1
  <2>3. V[i + 1] = V[i] * ByteValues + s[i + 1]
    BY <1>11, <2>2
  <2> QED BY <1>1, <2>2, <2>3
<1> HIDE DEF T
<1>14. \A i \in Nat : i \in T
  <2>1. T \in SUBSET Nat
    BY DEF T
  <2> QED BY <1>12, <1>13, <2>1, Induction
<1>15. V \in [0..Len(s) -> Nat]
  <2>1. \A i \in 0..Len(s) : V[i] \in Nat
    BY <1>0, <1>14 DEF T
  <2>2. V = [i \in 0..Len(s) |-> IF i = 0 THEN 0 ELSE V[i - 1] * ByteValues + s[i]]
    BY <1>8
  <2> QED BY <2>1, <2>2
<1> QED BY <1>9, <1>11, <1>15, Zenon

\* The strings of the code have a number, below Strings.
LEMMA BytesFacts ==
    ASSUME NEW s \in Bytes32
    PROVE  /\ s \in Seq(Nat) /\ Len(s) = Width
           /\ reverse32(s) \in Bytes32 /\ reverse32(reverse32(s)) = s
           /\ Number(s) \in Nat /\ Scalar(s) \in Nat
<1>1. ASSUME NEW t \in Bytes32
      PROVE  t \in Seq(Nat) /\ Len(t) = Width /\ DOMAIN t = 1..Width
             /\ \A i \in 1..Width : t[i] \in 0..(ByteValues - 1)
  <2>1. t \in [1..Width -> 0..(ByteValues - 1)] /\ Width \in Nat
    BY Constants DEF Bytes32
  <2>2. t \in [1..Width -> Nat]
    BY <2>1, Constants
  <2> QED BY <2>1, <2>2
<1>2. Width \in Nat
  BY Constants
<1>3. ASSUME NEW t \in Bytes32 PROVE Number(t) \in Nat
  <2>1. PICK v \in [0..Len(t) -> Nat] : Number(t) = v[Len(t)]
    BY <1>1, NumberFacts
  <2>2. Len(t) \in 0..Len(t)
    BY <1>1, <1>2
  <2> QED BY <2>1, <2>2
<1>4. ASSUME NEW t \in Bytes32
      PROVE  reverse32(t) \in Bytes32 /\ reverse32(t) = [i \in 1..Width |-> t[Width - i + 1]]
  <2>1. reverse32(t) = [i \in 1..Width |-> t[Width - i + 1]]
    BY <1>1 DEF reverse32, Reverse
  <2>2. \A i \in 1..Width : Width - i + 1 \in 1..Width
    BY <1>2
  <2>3. \A i \in 1..Width : t[Width - i + 1] \in 0..(ByteValues - 1)
    BY <1>1, <2>2, Zenon
  <2>4. [i \in 1..Width |-> t[Width - i + 1]] \in Bytes32
    BY <2>3 DEF Bytes32
  <2> QED BY <2>1, <2>4
<1>5. reverse32(reverse32(s)) = s
  <2> DEFINE t == reverse32(s)
  <2>1. t \in Bytes32 /\ t = [i \in 1..Width |-> s[Width - i + 1]]
    BY <1>4
  <2>2. reverse32(t) \in Bytes32 /\ reverse32(t) = [i \in 1..Width |-> t[Width - i + 1]]
    BY <1>4, <2>1
  <2> HIDE DEF t
  <2>3. ASSUME NEW i \in 1..Width PROVE reverse32(t)[i] = s[i]
    <3>1. Width - i + 1 \in 1..Width /\ Width - (Width - i + 1) + 1 = i
      BY <1>2
    <3>2. reverse32(t)[i] = t[Width - i + 1]
      BY <2>2
    <3>3. t[Width - i + 1] = s[Width - (Width - i + 1) + 1]
      BY <2>1, <3>1
    <3> QED BY <3>1, <3>2, <3>3
  <2>4. s \in [1..Width -> 0..(ByteValues - 1)] /\ reverse32(t) \in [1..Width -> 0..(ByteValues - 1)]
    BY <2>2 DEF Bytes32
  <2>5. reverse32(t) = s
    <3>1. PICK u \in [1..Width -> 0..(ByteValues - 1)] : u = reverse32(t)
      BY <2>4
    <3>2. \A i \in 1..Width : u[i] = s[i]
      BY <2>3, <3>1
    <3>3. u = s
      <4>1. u = [i \in 1..Width |-> u[i]] /\ s = [i \in 1..Width |-> s[i]]
        BY <2>4
      <4>2. [i \in 1..Width |-> u[i]] = [i \in 1..Width |-> s[i]]
        BY <3>2, Zenon
      <4> QED BY <4>1, <4>2, Zenon
    <3> QED BY <3>1, <3>3
  <2> QED BY <2>5 DEF t
<1> QED BY <1>1, <1>3, <1>4, <1>5 DEF Scalar

\* The string of a number, and back.
LEMMA BigEndianFacts ==
    ASSUME NEW n \in Nat
    PROVE  BigEndian(n) \in Bytes32 /\ (n < Strings => Number(BigEndian(n)) = n)
<1> DEFINE s == BigEndian(n)
<1>0. Width \in Nat /\ ByteValues \in Nat \ {0}
  BY Constants
<1>1. \A i \in 0..Width : Width - i \in 0..Width /\ Place[Width - i] \in Nat \ {0}
                          /\ n \div Place[Width - i] \in Nat
  <2>1. \A i \in 0..Width : Width - i \in 0..Width
    BY <1>0
  <2>2. \A i \in 0..Width : Place[Width - i] \in Nat \ {0}
    BY <2>1, PlaceFacts
  <2>3. \A d \in Nat \ {0} : n \div d \in Nat
    BY Division
  <2> QED BY <2>1, <2>2, <2>3
<1>2. \A i \in 1..Width : s[i] = (n \div Place[Width - i]) % ByteValues
                          /\ s[i] \in 0..(ByteValues - 1)
  <2>1. \A i \in 1..Width : n \div Place[Width - i] \in Nat
    <3>1. \A i \in 1..Width : i \in 0..Width
      BY <1>0
    <3> QED BY <1>1, <3>1
  <2>2. \A k \in Nat : k % ByteValues \in 0..(ByteValues - 1)
    BY <1>0
  <2> QED BY <2>1, <2>2 DEF BigEndian
<1>3. s \in Bytes32
  BY <1>2 DEF BigEndian, Bytes32
<1> SUFFICES ASSUME n < Strings PROVE Number(s) = n
  BY <1>3
<1> HIDE DEF s
<1>4. s \in Seq(Nat) /\ Len(s) = Width
  BY <1>3, BytesFacts
<1>5. PICK v \in [0..Width -> Nat] :
          /\ v[0] = 0 /\ \A i \in 1..Width : v[i] = v[i - 1] * ByteValues + s[i]
          /\ Number(s) = v[Width]
  BY <1>4, NumberFacts
<1> DEFINE T == {i \in Nat : i <= Width => v[i] = n \div Place[Width - i]}
<1>6. 0 \in T
  <2>1. n \div Place[Width - 0] = 0
    <3>1. Width - 0 = Width /\ Strings \in Nat \ {0} /\ Strings = Place[Width]
      BY <1>0, Constants, StringsPositive
    <3> QED BY <3>1, Division
  <2> QED BY <1>5, <2>1
<1>7. ASSUME NEW i \in T PROVE i + 1 \in T
  <2>1. SUFFICES ASSUME i + 1 <= Width PROVE v[i + 1] = n \div Place[Width - (i + 1)]
    OBVIOUS
  <2>2. i \in 0..Width /\ i + 1 \in 1..Width /\ i + 1 \in 0..Width /\ i + 1 - 1 = i
        /\ Width - i \in 1..Width /\ Width - i - 1 = Width - (i + 1)
    BY <1>0, <2>1
  <2>3. PICK a \in Nat \ {0} : a = Place[Width - (i + 1)]
    BY <1>1, <2>2
  <2>4. Place[Width - i] = a * ByteValues
    BY <2>2, <2>3, PlaceFacts
  <2>5. v[i] = (n \div a) \div ByteValues
    <3>1. v[i] = n \div (a * ByteValues)
      BY <2>2, <2>4
    <3> QED BY <1>0, <3>1, DivisionTwice
  <2>6. s[i + 1] = (n \div a) % ByteValues
    BY <1>2, <2>2, <2>3
  <2>7. v[i + 1] = v[i] * ByteValues + s[i + 1]
    BY <1>5, <2>2
  <2>8. n \div a \in Nat
    BY Division
  <2>9. n \div a = ((n \div a) \div ByteValues) * ByteValues + ((n \div a) % ByteValues)
    BY <1>0, <2>8, Division
  <2> QED BY <2>3, <2>5, <2>6, <2>7, <2>9
<1> HIDE DEF T
<1>8. \A i \in Nat : i \in T
  <2>1. T \in SUBSET Nat
    BY DEF T
  <2> QED BY <1>6, <1>7, <2>1, Induction
<1>9. v[Width] = n \div Place[Width - Width]
  BY <1>0, <1>8 DEF T
<1>10. Place[Width - Width] = 1 /\ n \div 1 = n
  BY <1>0, PlaceFacts
<1> QED BY <1>5, <1>9, <1>10

\* A scalar of the code, from its number.
LEMMA ScalarOfNumber ==
    ASSUME NEW n \in Nat, n < Strings
    PROVE  /\ reverse32(BigEndian(n)) \in Bytes32
           /\ Scalar(reverse32(BigEndian(n))) = n
BY BigEndianFacts, BytesFacts DEF Scalar

\* What the scalar functions of the code compute.
LEMMA reduceFacts ==
    ASSUME NEW s \in Bytes32
    PROVE  reduce(s) \in Bytes32 /\ Scalar(reduce(s)) = Scalar(s) % Order
           /\ Scalar(s) \in Nat /\ Scalar(s) % Order \in 0..(Order - 1)
<1>1. Scalar(s) \in Nat /\ Order \in Nat \ {0} /\ Order <= Strings /\ Strings \in Nat
  BY BytesFacts, Constants, StringsPositive
<1>2. Scalar(s) % Order \in 0..(Order - 1)
  BY <1>1
<1>3. Scalar(s) % Order \in Nat /\ Scalar(s) % Order < Strings
  BY <1>1, <1>2
<1>4. reduce(s) = reverse32(BigEndian(Scalar(s) % Order))
  BY Zenon DEF reduce, Scalar
<1> QED BY <1>1, <1>2, <1>3, <1>4, ScalarOfNumber

LEMMA addmFacts ==
    ASSUME NEW a \in Bytes32, NEW b \in Bytes32
    PROVE  addm(a, b) \in Bytes32 /\ Scalar(addm(a, b)) = (Scalar(a) + Scalar(b)) % Order
           /\ Scalar(addm(a, b)) < Order
<1>1. /\ Scalar(a) \in Nat /\ Scalar(b) \in Nat
      /\ Order \in Nat \ {0} /\ Order <= Strings /\ Strings \in Nat
  BY BytesFacts, Constants, StringsPositive
<1>2. (Scalar(a) + Scalar(b)) % Order \in 0..(Order - 1)
  BY <1>1
<1>3. (Scalar(a) + Scalar(b)) % Order \in Nat /\ (Scalar(a) + Scalar(b)) % Order < Strings
  BY <1>1, <1>2
<1>4. addm(a, b) = reverse32(BigEndian((Scalar(a) + Scalar(b)) % Order))
  BY Zenon DEF addm, Scalar
<1>5. addm(a, b) \in Bytes32 /\ Scalar(addm(a, b)) = (Scalar(a) + Scalar(b)) % Order
  BY <1>3, <1>4, ScalarOfNumber
<1> QED BY <1>1, <1>2, <1>5

LEMMA multm_8Facts ==
    ASSUME NEW a \in Bytes32
    PROVE  multm_8(a) \in Bytes32 /\ Scalar(multm_8(a)) = (Scalar(a) * 8) % Order
<1>1. Scalar(a) \in Nat /\ Order \in Nat \ {0} /\ Order <= Strings /\ Strings \in Nat
  BY BytesFacts, Constants, StringsPositive
<1>2. (Scalar(a) * 8) % Order \in 0..(Order - 1)
  BY <1>1
<1>3. (Scalar(a) * 8) % Order \in Nat /\ (Scalar(a) * 8) % Order < Strings
  BY <1>1, <1>2
<1>4. multm_8(a) = reverse32(BigEndian((Scalar(a) * 8) % Order))
  BY Zenon DEF multm_8, Scalar
<1> QED BY <1>3, <1>4, ScalarOfNumber

-----------------------------------------------------------------------------
(* The field: what is a multiple of its prime. *)

Zero(a) == a % Field = 0

LEMMA FieldFacts ==
    /\ Field \in Nat \ {0} /\ Elements = 0..(Field - 1)
    /\ MontgomeryA \in Nat /\ \A e \in Elements : e \in Int /\ e \in Nat
BY Constants, CurveAssumption DEF Elements

LEMMA FieldDivision ==
    ASSUME NEW a \in Int
    PROVE  \E q \in Int, m \in 0..(Field - 1) : a = q * Field + m /\ a % Field = m
<1>1. a \div Field \in Int /\ a % Field \in 0..(Field - 1)
  BY FieldFacts
<1>2. a = (a \div Field) * Field + (a % Field)
  BY FieldFacts
<1> QED BY <1>1, <1>2, Zenon

LEMMA ZeroForm == \A a \in Int : Zero(a) <=> \E k \in Int : a = k * Field
<1>1. ASSUME NEW a \in Int, Zero(a) PROVE \E k \in Int : a = k * Field
  <2>1. PICK q \in Int, m \in 0..(Field - 1) : a = q * Field + m /\ a % Field = m
    BY FieldDivision
  <2>2. m = 0
    BY <1>1, <2>1 DEF Zero
  <2>3. a = q * Field
    BY <2>1, <2>2, FieldFacts
  <2> QED BY <2>3
<1>2. ASSUME NEW a \in Int, NEW k \in Int, a = k * Field PROVE Zero(a)
  <2>1. PICK q \in Int, m \in 0..(Field - 1) : a = q * Field + m /\ a % Field = m
    BY FieldDivision
  <2>2. m = (k - q) * Field
    BY <1>2, <2>1, FieldFacts
  <2>3. \A d \in Int : d * Field \in 0..(Field - 1) => d * Field = 0
    <3>1. ASSUME NEW d \in Int, d * Field >= 0, d * Field < Field PROVE d * Field = 0
      <4>1. CASE d > 0
        <5>1. PICK n \in Nat : d = 1 + n
          BY <4>1
        <5>2. d * Field = Field + n * Field /\ n * Field \in Nat
          BY <5>1, FieldFacts
        <5> QED BY <3>1, <5>2, FieldFacts
      <4>2. CASE d < 0
        <5>1. PICK n \in Nat : d = -1 - n
          BY <4>2
        <5>2. d * Field = -Field - n * Field /\ n * Field \in Nat
          BY <5>1, FieldFacts
        <5> QED BY <3>1, <5>2, FieldFacts
      <4>3. CASE d = 0
        BY <4>3, FieldFacts
      <4> QED BY <4>1, <4>2, <4>3
    <3> QED BY <3>1, FieldFacts
  <2>4. m = 0
    BY <2>2, <2>3
  <2> QED BY <2>1, <2>4 DEF Zero
<1> QED BY <1>1, <1>2

LEMMA ZeroSum == \A a, b \in Int : Zero(a) /\ Zero(b) => Zero(a + b) /\ Zero(a - b)
<1>1. ASSUME NEW a \in Int, NEW b \in Int, Zero(a), Zero(b) PROVE Zero(a + b) /\ Zero(a - b)
  <2>1. PICK k \in Int, l \in Int : a = k * Field /\ b = l * Field
    BY <1>1, ZeroForm
  <2>2. a + b = (k + l) * Field /\ a - b = (k - l) * Field
    BY <2>1, FieldFacts
  <2>3. k + l \in Int /\ k - l \in Int /\ a + b \in Int /\ a - b \in Int
    OBVIOUS
  <2> QED BY <2>2, <2>3, ZeroForm
<1> QED BY <1>1

LEMMA ZeroTimes == \A a, c \in Int : Zero(a) => Zero(a * c) /\ Zero(-a)
<1>1. ASSUME NEW a \in Int, NEW c \in Int, Zero(a) PROVE Zero(a * c) /\ Zero(-a)
  <2>1. PICK k \in Int : a = k * Field
    BY <1>1, ZeroForm
  <2>2. a * c = (k * c) * Field /\ -a = (-k) * Field
    BY <2>1, FieldFacts
  <2>3. k * c \in Int /\ -k \in Int /\ a * c \in Int /\ -a \in Int
    OBVIOUS
  <2> QED BY <2>2, <2>3, ZeroForm
<1> QED BY <1>1

\* A remainder is what it is the remainder of.
LEMMA ZeroRemainder ==
    ASSUME NEW a \in Int
    PROVE  a % Field \in Elements /\ a % Field \in Int /\ Zero((a % Field) - a)
<1>1. PICK q \in Int, m \in 0..(Field - 1) : a = q * Field + m /\ a % Field = m
  BY FieldDivision
<1>2. m - a = (-q) * Field /\ m - a \in Int /\ -q \in Int
  BY <1>1, FieldFacts
<1>3. Zero(m - a)
  BY <1>2, ZeroForm
<1> QED BY <1>1, <1>3, FieldFacts

\* Elements that differ by a multiple of the prime are equal.
LEMMA ZeroOfElement ==
    ASSUME NEW a \in Elements, NEW b \in Elements, Zero(a - b)
    PROVE  a = b
<1>1. PICK k \in Int : a - b = k * Field
  <2>1. a - b \in Int
    BY FieldFacts
  <2> QED BY <2>1, ZeroForm
<1>2. CASE k >= 1
  <2>1. PICK n \in Nat : k = 1 + n
    BY <1>2
  <2>2. k * Field = Field + n * Field /\ n * Field \in Nat
    BY <2>1, FieldFacts
  <2> QED BY <1>1, <2>2, FieldFacts
<1>3. CASE k <= -1
  <2>1. PICK n \in Nat : k = -1 - n
    BY <1>3
  <2>2. k * Field = -Field - n * Field /\ n * Field \in Nat
    BY <2>1, FieldFacts
  <2> QED BY <1>1, <2>2, FieldFacts
<1>4. CASE k = 0
  BY <1>1, <1>4, FieldFacts
<1> QED BY <1>2, <1>3, <1>4

\* Equal remainders.
LEMMA ZeroDifference ==
    ASSUME NEW a \in Int, NEW b \in Int
    PROVE  a % Field = b % Field <=> Zero(a - b)
<1> DEFINE x == a % Field
           y == b % Field
<1>1. x \in Elements /\ y \in Elements /\ x \in Int /\ y \in Int /\ Zero(x - a) /\ Zero(y - b)
  BY ZeroRemainder
<1> HIDE DEF x, y
<1>2. ASSUME x = y PROVE Zero(a - b)
  <2>1. a - b = (y - b) - (x - a) /\ y - b \in Int /\ x - a \in Int
    BY <1>1, <1>2
  <2> QED BY <1>1, <2>1, ZeroSum
<1>3. ASSUME Zero(a - b) PROVE x = y
  <2>1. x - y = ((x - a) - (y - b)) + (a - b)
        /\ y - b \in Int /\ x - a \in Int /\ a - b \in Int /\ (x - a) - (y - b) \in Int
    BY <1>1
  <2>2. Zero(x - y)
    BY <1>1, <1>3, <2>1, ZeroSum
  <2> QED BY <1>1, <2>2, ZeroOfElement
<1> QED BY <1>2, <1>3 DEF x, y

\* The squaring of cx_math_powm.
LEMMA PowerHalves ==
    ASSUME NEW b \in Elements
    PROVE  /\ \A n \in Nat : Power(b, n) \in Elements
           /\ Power(b, 0) = 1
           /\ \A n \in Nat \ {0} :
                 LET half == Power(b, n \div 2)
                 IN  Power(b, n) = (half * half % Field) * (IF n % 2 = 1 THEN b ELSE 1) % Field
<1> DEFINE Raised(k, h) == (h * h % Field) * (IF k % 2 = 1 THEN b ELSE 1) % Field
           F(p) == [k \in Nat |-> IF k = 0 THEN 1
                                  ELSE LET half == p[k \div 2]
                                       IN  (half * half % Field) * (IF k % 2 = 1 THEN b ELSE 1) % Field]
           step == [k \in Nat |-> [h \in Elements |-> Raised(k, h)]]
           below == [k \in Nat |-> k \div 2]
<1>0. 1 \in Elements
  BY FieldFacts, CurveAssumption
<1>1. \A k \in Nat, h \in Elements : Raised(k, h) \in Elements
  <2>1. ASSUME NEW k \in Nat, NEW h \in Elements PROVE Raised(k, h) \in Elements
    <3>1. PICK s \in Elements : s = IF k % 2 = 1 THEN b ELSE 1
      BY <1>0
    <3>2. h \in Int /\ s \in Int /\ h * h \in Int
      BY FieldFacts
    <3>3. PICK m \in Int : m = h * h % Field
      BY <3>2, ZeroRemainder
    <3>4. m * s \in Int
      BY <3>2
    <3>5. m * s % Field \in Elements
      BY <3>4, ZeroRemainder
    <3> QED BY <3>1, <3>3, <3>5, Zenon
  <2> QED BY <2>1
<1>2. /\ below \in [Nat -> Nat] /\ \A k \in Nat : below[k] = k \div 2 /\ k \div 2 \in Nat
      /\ \A k \in Nat \ {0} : below[k] < k /\ k \div 2 < k
  OBVIOUS
<1> HIDE DEF Raised
<1>3. step \in [Nat -> [Elements -> Elements]]
      /\ \A k \in Nat, h \in Elements : step[k][h] = Raised(k, h)
  BY <1>1
<1> HIDE DEF step, below
<1>4. HasValues(Elements, 1, step, below)
  <2>1. \A S : \A y \in S, g \in [Nat -> [S -> S]], c \in [Nat -> Nat] :
            (\A n \in Nat \ {0} : c[n] < n) => HasValues(S, y, g, c)
    BY RecursionExists, Zenon
  <2> QED BY <1>0, <1>2, <1>3, <2>1, Zenon
<1>5. PICK f \in [Nat -> Elements] :
          f[0] = 1 /\ \A k \in Nat \ {0} : f[k] = step[k][f[below[k]]]
  BY <1>4, Zenon DEF HasValues
<1>6. \A k \in Nat : f[k] = IF k = 0 THEN 1 ELSE Raised(k, f[k \div 2])
  <2>1. ASSUME NEW k \in Nat, k # 0 PROVE f[k] = step[k][f[k \div 2]] /\ f[k \div 2] \in Elements
    BY <1>2, <1>5, <2>1
  <2> QED BY <1>3, <1>5, <2>1
<1>7. f = F(f)
  <2>1. f = [k \in Nat |-> f[k]]
    OBVIOUS
  <2>2. [k \in Nat |-> f[k]] = F(f)
    BY <1>6, Zenon DEF Raised
  <2> QED BY <2>1, <2>2, Zenon
<1> DEFINE P == CHOOSE p : p = F(p)
<1>8. P = F(P)
  BY <1>7, Zenon
<1>9. \A n \in Nat : Power(b, n) = P[n]
  BY Zenon DEF Power
<1> HIDE DEF P
<1>10. \A k \in Nat : P[k] = IF k = 0 THEN 1 ELSE Raised(k, P[k \div 2])
  <2>1. P = [k \in Nat |-> IF k = 0 THEN 1 ELSE Raised(k, P[k \div 2])]
    BY <1>8 DEF Raised
  <2> QED BY <2>1, Zenon
<1> DEFINE T == {k \in Nat : P[k] \in Elements}
<1>11. ASSUME NEW k \in Nat, \A i \in Nat : i < k => i \in T PROVE k \in T
  <2>1. CASE k = 0
    BY <1>0, <1>10, <2>1
  <2>2. CASE k # 0
    <3>1. P[k \div 2] \in Elements
      <4>1. k \div 2 \in Nat /\ k \div 2 < k
        BY <1>2, <2>2
      <4> QED BY <1>11, <4>1
    <3> QED BY <1>1, <1>10, <2>2, <3>1
  <2> QED BY <2>1, <2>2
<1> HIDE DEF T
<1>12. \A k \in Nat : k \in T
  <2>1. T \in SUBSET Nat
    BY DEF T
  <2> QED BY <1>11, <2>1, StrongInduction
<1>13. \A n \in Nat : Power(b, n) \in Elements
  BY <1>9, <1>12 DEF T
<1>14. Power(b, 0) = 1
  BY <1>9, <1>10
<1>15. ASSUME NEW n \in Nat \ {0} PROVE Power(b, n) = Raised(n, Power(b, n \div 2))
  <2>1. n \in Nat /\ n # 0 /\ n \div 2 \in Nat
    OBVIOUS
  <2>2. Power(b, n) = P[n] /\ Power(b, n \div 2) = P[n \div 2]
    BY <1>9, <2>1
  <2> QED BY <1>10, <2>1, <2>2, Zenon
<1> QED BY <1>13, <1>14, <1>15 DEF Raised

LEMMA PowerType == \A b \in Elements, n \in Nat : Power(b, n) \in Elements /\ Power(b, n) \in Int
BY PowerHalves, FieldFacts

\* The products that a power stands for.
LEMMA PowerHalf ==
    ASSUME NEW b \in Elements, NEW n \in Nat, NEW h \in Nat
    PROVE  LET r == Power(b, h)
           IN  /\ n = 2 * h => Zero(Power(b, n) - r * r)
               /\ n = 2 * h + 1 => Zero(Power(b, n) - (r * r) * b)
<1> DEFINE r == Power(b, h)
<1>1. b \in Int /\ r \in Int /\ Power(b, n) \in Int /\ Power(b, 0) = 1
  BY PowerHalves, PowerType, FieldFacts
<1>2. ASSUME NEW s \in Int, Power(b, n) = (r * r % Field) * s % Field
      PROVE  Zero(Power(b, n) - (r * r) * s)
  <2> HIDE DEF r
  <2>1. PICK q \in Int : q = r * r /\ q % Field \in Int /\ Zero((q % Field) - q)
    <3>1. r * r \in Int
      BY <1>1
    <3> QED BY <3>1, ZeroRemainder
  <2>2. PICK m \in Int : m = q % Field /\ Zero(m - q)
    BY <2>1
  <2>3. m * s \in Int
    OBVIOUS
  <2>4. Zero((m * s % Field) - m * s) /\ Power(b, n) = m * s % Field
    BY <1>2, <2>1, <2>2, <2>3, ZeroRemainder
  <2>5. PICK x \in Int : x = Power(b, n) /\ Zero(x - m * s)
    BY <1>1, <2>4
  <2>6. x - q * s = (x - m * s) + (m - q) * s /\ x - m * s \in Int /\ (m - q) * s \in Int /\ m - q \in Int
    OBVIOUS
  <2>7. Zero(x - q * s)
    BY <2>2, <2>5, <2>6, ZeroSum, ZeroTimes
  <2> QED BY <2>1, <2>5, <2>7
<1>3. ASSUME n = 2 * h + 1 PROVE Zero(Power(b, n) - (r * r) * b)
  <2>1. n \in Nat \ {0} /\ n % 2 = 1 /\ n \div 2 = h
    BY <1>3
  <2>2. Power(b, n) = (r * r % Field) * b % Field
    BY <2>1, PowerHalves
  <2> QED BY <1>1, <1>2, <2>2
<1>4. ASSUME n = 2 * h PROVE Zero(Power(b, n) - r * r)
  <2>1. CASE n = 0
    <3>1. h = 0 /\ Power(b, n) - r * r = 0
      BY <1>1, <1>4, <2>1
    <3> QED BY <3>1, FieldFacts DEF Zero
  <2>2. CASE n # 0
    <3>1. n \in Nat \ {0} /\ n % 2 # 1 /\ n \div 2 = h
      BY <1>4, <2>2
    <3>2. Power(b, n) = (r * r % Field) * 1 % Field
      BY <3>1, PowerHalves
    <3>3. Zero(Power(b, n) - (r * r) * 1)
      BY <1>2, <3>2
    <3>4. (r * r) * 1 = r * r
      BY <1>1
    <3> QED BY <3>3, <3>4, Zenon
  <2> QED BY <2>1, <2>2
<1> QED BY <1>3, <1>4

LEMMA PowerNext ==
    ASSUME NEW b \in Elements
    PROVE  \A n \in Nat : Zero(Power(b, n + 1) - Power(b, n) * b)
<1> DEFINE p(n) == Power(b, n)
           T == {n \in Nat : Zero(p(n + 1) - p(n) * b)}
<1>0. b \in Int /\ \A n \in Nat : p(n) \in Int
  BY PowerType, FieldFacts
<1>1. \A n, h \in Nat : /\ n = 2 * h => Zero(p(n) - p(h) * p(h))
                        /\ n = 2 * h + 1 => Zero(p(n) - (p(h) * p(h)) * b)
  BY PowerHalf
<1> HIDE DEF p
<1>2. ASSUME NEW n \in Nat, \A i \in Nat : i < n => i \in T PROVE n \in T
  <2>1. PICK h \in Nat : n = 2 * h \/ n = 2 * h + 1
    <3>1. n \div 2 \in Nat /\ (n = 2 * (n \div 2) \/ n = 2 * (n \div 2) + 1)
      OBVIOUS
    <3> QED BY <3>1
  <2>2. PICK x \in Int, y \in Int, z \in Int, c \in Int :
            x = p(h) /\ y = p(h + 1) /\ z = p(n) /\ c = p(n + 1)
    <3>1. p(h) \in Int /\ p(h + 1) \in Int /\ p(n) \in Int /\ p(n + 1) \in Int
      BY <1>0
    <3> QED BY <3>1
  <2>3. CASE n = 2 * h
    <3>1. Zero(z - x * x) /\ Zero(c - (x * x) * b)
      <4>1. n + 1 = 2 * h + 1 /\ n + 1 \in Nat
        BY <2>3
      <4> QED BY <1>1, <2>2, <2>3, <4>1
    <3>2. /\ c - z * b = (c - (x * x) * b) - (z - x * x) * b
          /\ c - (x * x) * b \in Int /\ z - x * x \in Int /\ (z - x * x) * b \in Int
      BY <1>0
    <3>3. Zero(c - z * b)
      BY <1>0, <3>1, <3>2, ZeroSum, ZeroTimes
    <3> QED BY <2>2, <3>3
  <2>4. CASE n = 2 * h + 1
    <3>1. Zero(z - (x * x) * b) /\ Zero(c - y * y)
      <4>1. n + 1 = 2 * (h + 1) /\ n + 1 \in Nat /\ h + 1 \in Nat
        BY <2>4
      <4> QED BY <1>1, <2>2, <2>4, <4>1
    <3>2. Zero(y - x * b)
      <4>1. h < n
        BY <2>4
      <4> QED BY <1>2, <2>2, <4>1
    <3>3. c - z * b = (c - y * y) + (y - x * b) * (y + x * b) - (z - (x * x) * b) * b
      BY <1>0
    <3>4. PICK d \in Int, e \in Int, g \in Int :
              /\ d = c - y * y /\ e = (y - x * b) * (y + x * b) /\ g = (z - (x * x) * b) * b
              /\ Zero(d) /\ Zero(e) /\ Zero(g)
      <4>1. /\ c - y * y \in Int /\ y - x * b \in Int /\ y + x * b \in Int /\ z - (x * x) * b \in Int
            /\ (y - x * b) * (y + x * b) \in Int /\ (z - (x * x) * b) * b \in Int
        BY <1>0
      <4> QED BY <1>0, <3>1, <3>2, <4>1, ZeroTimes
    <3>5. c - z * b = (d + e) - g /\ d + e \in Int
      BY <3>3, <3>4
    <3>6. Zero(c - z * b)
      BY <3>4, <3>5, ZeroSum
    <3> QED BY <2>2, <3>6
  <2> QED BY <2>1, <2>3, <2>4
<1> HIDE DEF T
<1>3. \A n \in Nat : n \in T
  <2>1. T \in SUBSET Nat
    BY DEF T
  <2> QED BY <1>2, <2>1, StrongInduction
<1> QED BY <1>3 DEF T, p

LEMMA OneNotZero == ~Zero(1) /\ Zero(0) /\ 1 \in Elements /\ 0 \in Elements
BY FieldFacts, CurveAssumption DEF Zero

\* Fermat's theorem gives inverses.
LEMMA InverseFacts ==
    ASSUME NEW a \in Int, ~Zero(a)
    PROVE  Inv[a % Field] \in Elements /\ Inv[a % Field] \in Int /\ Zero(a * Inv[a % Field] - 1)
<1>1. PICK e \in Elements : e = a % Field /\ e \in Int /\ e # 0 /\ Zero(e - a)
  BY ZeroRemainder DEF Zero
<1>2. e \in 1..(Field - 1) /\ Field - 2 \in Nat /\ (Field - 2) + 1 = Field - 1
  BY <1>1, FieldFacts, CurveAssumption
<1>3. PICK i \in Elements : i = Inv[e] /\ i = Power(e, Field - 2) /\ i \in Int
  <2>1. Inv[e] = Power(e, Field - 2)
    BY DEF Inv
  <2> QED BY <1>2, <2>1, PowerType
<1>4. Power(e, Field - 1) = 1
  BY <1>2, FieldAssumption
<1>5. Zero(1 - i * e)
  <2>1. Zero(Power(e, (Field - 2) + 1) - Power(e, Field - 2) * e)
    BY <1>2, PowerNext
  <2> QED BY <1>2, <1>3, <1>4, <2>1
<1>6. a * i - 1 = (-(1 - i * e)) - (e - a) * i
  BY <1>1, <1>3
<1>7. -(1 - i * e) \in Int /\ 1 - i * e \in Int /\ (e - a) * i \in Int /\ e - a \in Int
  BY <1>1, <1>3
<1>8. Zero(a * i - 1)
  BY <1>1, <1>3, <1>5, <1>6, <1>7, ZeroSum, ZeroTimes
<1> QED BY <1>1, <1>3, <1>8, Zenon

\* The field has no divisors of zero.
LEMMA ZeroProduct ==
    ASSUME NEW a \in Int, NEW b \in Int, Zero(a * b), ~Zero(a)
    PROVE  Zero(b)
<1>1. PICK i \in Int : Zero(a * i - 1)
  BY InverseFacts
<1>2. b = (a * b) * i - (a * i - 1) * b
  OBVIOUS
<1>3. a * b \in Int /\ (a * b) * i \in Int /\ a * i - 1 \in Int /\ (a * i - 1) * b \in Int
  OBVIOUS
<1> QED BY <1>1, <1>2, <1>3, ZeroSum, ZeroTimes

LEMMA SquareForm == \A a \in Int : IsSquare(a) <=> \E r \in Elements : Zero(r * r - a)
<1>1. ASSUME NEW a \in Int, NEW r \in Elements PROVE r * r % Field = a % Field <=> Zero(r * r - a)
  <2>1. r * r \in Int
    BY FieldFacts
  <2> QED BY <2>1, ZeroDifference
<1> QED BY <1>1 DEF IsSquare

\* A number is a square when a square times it is one.
LEMMA SquareQuotient ==
    ASSUME NEW a \in Int, NEW s \in Int, NEW r \in Int, ~Zero(s), Zero(r * r - a * (s * s))
    PROVE  IsSquare(a)
<1>1. PICK i \in Int : Zero(s * i - 1)
  BY InverseFacts
<1>2. PICK m \in Elements : m \in Int /\ Zero(m - r * i)
  <2>1. r * i \in Int
    OBVIOUS
  <2> QED BY <2>1, ZeroRemainder
<1>3. PICK x \in Int, y \in Int, z \in Int :
          /\ x = (m - r * i) * (m + r * i) /\ y = (r * r - a * (s * s)) * (i * i)
          /\ z = (s * i - 1) * (a * (s * i + 1))
          /\ Zero(x) /\ Zero(y) /\ Zero(z)
  <2>1. /\ m - r * i \in Int /\ m + r * i \in Int /\ r * r - a * (s * s) \in Int /\ i * i \in Int
        /\ s * i - 1 \in Int /\ a * (s * i + 1) \in Int
    BY <1>2
  <2>2. Zero((m - r * i) * (m + r * i))
    BY <1>2, <2>1, ZeroTimes
  <2>3. Zero((r * r - a * (s * s)) * (i * i))
    BY <2>1, ZeroTimes
  <2>4. Zero((s * i - 1) * (a * (s * i + 1)))
    BY <1>1, <2>1, ZeroTimes
  <2>5. /\ (m - r * i) * (m + r * i) \in Int /\ (r * r - a * (s * s)) * (i * i) \in Int
        /\ (s * i - 1) * (a * (s * i + 1)) \in Int
    BY <2>1
  <2> QED BY <2>2, <2>3, <2>4, <2>5, Zenon
<1>4. m * m - a = (x + y) + z /\ x + y \in Int
  BY <1>2, <1>3
<1>5. Zero(m * m - a)
  BY <1>3, <1>4, ZeroSum
<1> QED BY <1>2, <1>5, SquareForm

\* Remainders may be taken in between.
LEMMA ProductRemainder ==
    ASSUME NEW x \in Int, NEW a \in Int, NEW y \in Int, NEW b \in Int, Zero(x - a), Zero(y - b)
    PROVE  x * y % Field \in Elements /\ x * y % Field \in Int /\ Zero((x * y % Field) - a * b)
<1>1. x * y \in Int
  OBVIOUS
<1>2. PICK m \in Elements : m = x * y % Field /\ m \in Int /\ Zero(m - x * y)
  BY <1>1, ZeroRemainder
<1>3. /\ m - a * b = (m - x * y) + ((x - a) * y + (y - b) * a)
      /\ m - x * y \in Int /\ x - a \in Int /\ y - b \in Int
      /\ (x - a) * y \in Int /\ (y - b) * a \in Int /\ (x - a) * y + (y - b) * a \in Int
  BY <1>2
<1>4. Zero(m - a * b)
  BY <1>2, <1>3, ZeroSum, ZeroTimes
<1> QED BY <1>2, <1>4

LEMMA ZeroSelf == \A a \in Int : Zero(a - a)
<1>1. \A a \in Int : a - a = 0
  OBVIOUS
<1> QED BY <1>1, OneNotZero

\* A root of a square.
LEMMA RootFacts ==
    ASSUME NEW a \in Int, IsSquare(a)
    PROVE  Root(a) \in Elements /\ Root(a) \in Int /\ Zero(Root(a) * Root(a) - a)
<1>1. \E r \in Elements : r * r % Field = a % Field
  BY DEF IsSquare
<1>2. PICK m : m = Root(a)
  OBVIOUS
<1>3. m \in Elements /\ m * m % Field = a % Field
  BY <1>1, <1>2, Zenon DEF Root
<1>4. m \in Int /\ m * m \in Int
  BY <1>3, FieldFacts
<1>5. Zero(m * m - a)
  BY <1>3, <1>4, ZeroDifference
<1> QED BY <1>2, <1>3, <1>4, <1>5

\* What the formulas of the constants say.
LEMMA MapConstants ==
    LET A == MontgomeryA
        i == fe_sqrtm1
        c == A * (A + 2)
    IN  /\ A \in Int /\ i \in Int /\ c \in Int /\ Zero(i * i + 1)
        /\ fe_ma \in Elements /\ fe_ma \in Int /\ Zero(fe_ma + A)
        /\ fe_ma2 \in Int /\ Zero(fe_ma2 + A * A)
        /\ fe_fffb1 \in Int /\ Zero(fe_fffb1 * fe_fffb1 + 2 * c)
        /\ fe_fffb2 \in Int /\ Zero(fe_fffb2 * fe_fffb2 - 2 * c)
        /\ fe_fffb3 \in Int /\ Zero(fe_fffb3 * fe_fffb3 + i * c)
        /\ fe_fffb4 \in Int /\ Zero(fe_fffb4 * fe_fffb4 - i * c)
<1>1. PICK A \in Int : A = MontgomeryA
  BY FieldFacts
<1>2. PICK i \in Int : i = fe_sqrtm1 /\ Zero(i * i + 1)
  <2>1. fe_sqrtm1 \in Int /\ Zero(fe_sqrtm1 * fe_sqrtm1 - (-1))
    BY FieldAssumption, RootFacts DEF fe_sqrtm1
  <2>2. PICK i \in Int : i = fe_sqrtm1
    BY <2>1
  <2>3. i * i - (-1) = i * i + 1
    OBVIOUS
  <2> QED BY <2>1, <2>2, <2>3
<1>3. PICK c \in Int : c = A * (A + 2)
  OBVIOUS
<1>4. /\ -A \in Int /\ fe_ma = (-A) % Field
      /\ -A * A \in Int /\ fe_ma2 = (-A * A) % Field
  BY <1>1 DEF fe_ma, fe_ma2
<1>5. fe_ma \in Elements /\ fe_ma \in Int /\ Zero(fe_ma + A)
  <2>1. PICK m \in Elements : m = fe_ma /\ m \in Int /\ Zero(m - (-A))
    BY <1>4, ZeroRemainder
  <2>2. m - (-A) = m + A
    BY <2>1
  <2> QED BY <2>1, <2>2
<1>6. fe_ma2 \in Int /\ Zero(fe_ma2 + A * A)
  <2>1. PICK m \in Elements : m = fe_ma2 /\ m \in Int /\ Zero(m - (-A * A))
    BY <1>4, ZeroRemainder
  <2>2. m - (-A * A) = m + A * A
    BY <2>1
  <2> QED BY <2>1, <2>2
<1>7. fe_fffb2 \in Int /\ Zero(fe_fffb2 * fe_fffb2 - 2 * c)
  <2>1. 2 * A * (A + 2) = 2 * c /\ 2 * c \in Int
    BY <1>3
  <2>2. IsSquare(2 * c) /\ fe_fffb2 = Root(2 * c)
    BY <1>1, <2>1, FieldAssumption DEF fe_fffb2
  <2> QED BY <2>1, <2>2, RootFacts
<1>8. fe_fffb4 \in Int /\ Zero(fe_fffb4 * fe_fffb4 - i * c)
  <2>1. i * A * (A + 2) = i * c /\ i * c \in Int
    BY <1>3
  <2>2. IsSquare(i * c) /\ fe_fffb4 = Root(i * c)
    BY <1>1, <1>2, <2>1, FieldAssumption DEF fe_fffb4
  <2> QED BY <2>1, <2>2, RootFacts
\* The roots of the negatives, as i times the others.
<1>9. ASSUME NEW a \in Int, NEW e \in Int, Zero(e * e - a) PROVE IsSquare(-a)
  <2>1. /\ (i * e) * (i * e) - (-a) * (1 * 1) = (i * i + 1) * (e * e) - (e * e - a)
        /\ i * i + 1 \in Int /\ e * e \in Int /\ (i * i + 1) * (e * e) \in Int /\ e * e - a \in Int
        /\ i * e \in Int /\ -a \in Int
    OBVIOUS
  <2>2. Zero((i * e) * (i * e) - (-a) * (1 * 1))
    BY <1>2, <1>9, <2>1, ZeroSum, ZeroTimes
  <2>3. PICK r \in Int, b \in Int : r = i * e /\ b = -a
    OBVIOUS
  <2>4. Zero(r * r - b * (1 * 1)) /\ 1 \in Int
    BY <2>2, <2>3
  <2>5. IsSquare(b)
    BY <2>4, SquareQuotient, OneNotZero
  <2> QED BY <2>3, <2>5
<1>10. fe_fffb1 \in Int /\ Zero(fe_fffb1 * fe_fffb1 + 2 * c)
  <2>1. -2 * A * (A + 2) = -(2 * c) /\ 2 * c \in Int /\ -(2 * c) \in Int
    BY <1>3
  <2>2. IsSquare(-(2 * c)) /\ fe_fffb1 = Root(-(2 * c))
    BY <1>1, <1>7, <1>9, <2>1 DEF fe_fffb1
  <2>3. PICK m \in Int : m = fe_fffb1 /\ Zero(m * m - (-(2 * c)))
    BY <2>1, <2>2, RootFacts
  <2>4. m * m - (-(2 * c)) = m * m + 2 * c
    OBVIOUS
  <2> QED BY <2>3, <2>4
<1>11. fe_fffb3 \in Int /\ Zero(fe_fffb3 * fe_fffb3 + i * c)
  <2>1. -i * A * (A + 2) = -(i * c) /\ i * c \in Int /\ -(i * c) \in Int
    BY <1>3
  <2>2. IsSquare(-(i * c)) /\ fe_fffb3 = Root(-(i * c))
    BY <1>1, <1>2, <1>8, <1>9, <2>1 DEF fe_fffb3
  <2>3. PICK m \in Int : m = fe_fffb3 /\ Zero(m * m - (-(i * c)))
    BY <2>1, <2>2, RootFacts
  <2>4. m * m - (-(i * c)) = m * m + i * c
    OBVIOUS
  <2> QED BY <2>3, <2>4
<1> QED BY <1>1, <1>2, <1>3, <1>5, <1>6, <1>7, <1>8, <1>10, <1>11, Zenon

\* What is no square, and so not zero.
LEMMA NonSquares ==
    /\ ~Zero(MontgomeryA) /\ ~Zero(MontgomeryA + 2) /\ ~IsSquare(2) /\ ~IsSquare(MontgomeryA)
<1>1. PICK A \in Int, i \in Int, e \in Int :
          /\ A = MontgomeryA /\ Zero(i * i + 1) /\ Zero(e * e - 2 * (A * (A + 2)))
  BY MapConstants
<1>2. ~IsSquare(A) /\ ~IsSquare(A - 2) /\ IsSquare(A + 2)
  BY <1>1, CurveAssumption
<1>3. ~Zero(A)
  <2>1. 0 * 0 - A = -A /\ 0 \in Elements /\ 0 * 0 - A \in Int
    BY OneNotZero
  <2>2. Zero(A) => Zero(0 * 0 - A)
    BY <2>1, ZeroTimes
  <2> QED BY <1>2, <2>1, <2>2, SquareForm
<1>4. ~Zero(A + 2)
  <2> SUFFICES ASSUME Zero(A + 2) PROVE FALSE
    OBVIOUS
  <2>1. /\ (2 * i) * (2 * i) - (A - 2) * (1 * 1) = (i * i + 1) * 4 - (A + 2)
        /\ i * i + 1 \in Int /\ (i * i + 1) * 4 \in Int /\ A + 2 \in Int /\ 2 * i \in Int /\ A - 2 \in Int
    OBVIOUS
  <2>2. Zero((2 * i) * (2 * i) - (A - 2) * (1 * 1))
    BY <1>1, <2>1, ZeroSum, ZeroTimes
  <2>3. PICK r \in Int, b \in Int : r = 2 * i /\ b = A - 2
    OBVIOUS
  <2>4. Zero(r * r - b * (1 * 1)) /\ 1 \in Int
    BY <2>2, <2>3
  <2>5. IsSquare(b)
    BY <2>4, SquareQuotient, OneNotZero
  <2> QED BY <1>2, <2>3, <2>5
<1>5. ~IsSquare(2)
  <2> SUFFICES ASSUME IsSquare(2) PROVE FALSE
    OBVIOUS
  <2>1. PICK s \in Elements : Zero(s * s - 2)
    BY SquareForm
  <2>2. PICK c \in Elements : Zero(c * c - (A + 2))
    BY <1>2, SquareForm
  <2>3. s \in Int /\ c \in Int
    BY FieldFacts
  <2>4. ~Zero(2)
    BY FieldFacts, CurveAssumption DEF Zero
  <2>5. ~Zero(s)
    <3>1. 2 = s * s - (s * s - 2) /\ s * s \in Int /\ s * s - 2 \in Int
      BY <2>3
    <3> QED BY <2>1, <2>3, <2>4, <3>1, ZeroSum, ZeroTimes
  <2>6. ~Zero(c)
    <3>1. A + 2 = c * c - (c * c - (A + 2)) /\ c * c \in Int /\ c * c - (A + 2) \in Int
      BY <2>3
    <3> QED BY <1>4, <2>2, <2>3, <3>1, ZeroSum, ZeroTimes
  <2>7. ~Zero(s * c) /\ s * c \in Int
    BY <2>3, <2>5, <2>6, ZeroProduct
  <2>8. Zero(e * e - A * ((s * c) * (s * c)))
    <3>1. e * e - A * ((s * c) * (s * c))
              = (e * e - 2 * (A * (A + 2))) - ((s * s - 2) * (A * (c * c)) + (c * c - (A + 2)) * (2 * A))
      BY <2>3
    <3>2. /\ e * e - 2 * (A * (A + 2)) \in Int /\ s * s - 2 \in Int /\ A * (c * c) \in Int
          /\ c * c - (A + 2) \in Int /\ 2 * A \in Int
          /\ (s * s - 2) * (A * (c * c)) \in Int /\ (c * c - (A + 2)) * (2 * A) \in Int
          /\ (s * s - 2) * (A * (c * c)) + (c * c - (A + 2)) * (2 * A) \in Int
      BY <2>3
    <3> QED BY <1>1, <2>1, <2>2, <3>1, <3>2, ZeroSum, ZeroTimes
  <2> QED BY <1>2, <2>7, <2>8, SquareQuotient
<1> QED BY <1>1, <1>2, <1>3, <1>4, <1>5

\* The prime is 5 modulo 8.
LEMMA ExponentFacts == fe_qm5div8 \in Nat /\ Field = 8 * fe_qm5div8 + 5
<1>1. PICK k \in Nat : Field = 8 * k + 5
  <2>1. Field \div 8 \in Nat /\ Field = 8 * (Field \div 8) + 5
    BY CurveAssumption
  <2> QED BY <2>1
<1>2. (Field - 5) \div 8 = k
  BY <1>1
<1> QED BY <1>1, <1>2 DEF fe_qm5div8

\* A sum of multiples of zeros; most identities below are one.
LEMMA ZeroCombined ==
    \A a, b, c, d, e, f \in Int : Zero(a) /\ Zero(b) /\ Zero(c) => Zero((a * d + b * e) + c * f)
<1>1. ASSUME NEW a \in Int, NEW b \in Int, NEW c \in Int, NEW d \in Int, NEW e \in Int, NEW f \in Int,
             Zero(a), Zero(b), Zero(c)
      PROVE  Zero((a * d + b * e) + c * f)
  <2>1. a * d \in Int /\ b * e \in Int /\ c * f \in Int /\ a * d + b * e \in Int
    OBVIOUS
  <2>2. Zero(a * d) /\ Zero(b * e) /\ Zero(c * f)
    BY <1>1, ZeroTimes
  <2> QED BY <2>1, <2>2, ZeroSum
<1> QED BY <1>1

\* Dividing: what is left of the product with the divisor.
LEMMA QuotientFacts ==
    ASSUME NEW a \in Int, NEW m \in Int, ~Zero(m)
    PROVE  /\ a * Inv[m % Field] % Field \in Elements /\ a * Inv[m % Field] % Field \in Int
           /\ Zero((a * Inv[m % Field] % Field) * m - a)
<1>1. PICK I \in Int : I = Inv[m % Field] /\ Zero(m * I - 1)
  BY InverseFacts
<1>2. PICK t \in Int : t = a * I
  OBVIOUS
<1>3. PICK q \in Elements : q = t % Field /\ q \in Int /\ Zero(q - t)
  BY ZeroRemainder
<1>4. /\ q * m - a = (q - t) * m + (m * I - 1) * a
      /\ q - t \in Int /\ m * I - 1 \in Int /\ (q - t) * m \in Int /\ (m * I - 1) * a \in Int
  BY <1>2, <1>3
<1>5. Zero((q - t) * m) /\ Zero((m * I - 1) * a)
  BY <1>1, <1>3, <1>4, ZeroTimes
<1>6. Zero((q - t) * m + (m * I - 1) * a)
  BY <1>4, <1>5, ZeroSum
<1> QED BY <1>1, <1>2, <1>3, <1>4, <1>6
-----------------------------------------------------------------------------
(* The curve, and what its group is made of. *)

\* The coefficient of the curve.
LEMMA EdwardsForm ==
    EdwardsD \in Int /\ Zero(EdwardsD * (MontgomeryA + 2) + (MontgomeryA - 2))
<1>1. PICK A \in Int, B \in Int : A = MontgomeryA /\ B = A + 2
  BY FieldFacts
<1>2. PICK I \in Int : I = Inv[B % Field] /\ Zero(B * I - 1)
  BY <1>1, NonSquares, InverseFacts
<1>3. PICK n \in Int : n = -(A - 2) * I
  OBVIOUS
<1>4. PICK D \in Int : D = EdwardsD /\ Zero(D - n)
  <2>1. EdwardsD = n % Field
    BY <1>1, <1>2, <1>3, Zenon DEF EdwardsD
  <2> QED BY <2>1, ZeroRemainder
<1>5. PICK a \in Int, b \in Int : a = D - n /\ b = B * I - 1 /\ Zero(a) /\ Zero(b)
  <2>1. D - n \in Int /\ B * I - 1 \in Int
    OBVIOUS
  <2> QED BY <1>2, <1>4, <2>1
<1>6. D * B + (A - 2) = a * B - b * (A - 2) /\ a * B \in Int /\ b * (A - 2) \in Int /\ A - 2 \in Int
  BY <1>3, <1>5
<1>7. Zero(a * B - b * (A - 2))
  BY <1>5, <1>6, ZeroSum, ZeroTimes
<1> QED BY <1>1, <1>4, <1>6, <1>7

\* The curve is complete: its coefficient is not a square.
LEMMA CoefficientNoSquare == ~IsSquare(EdwardsD)
<1> SUFFICES ASSUME IsSquare(EdwardsD) PROVE FALSE
  OBVIOUS
<1>1. PICK A \in Int, B \in Int, D \in Int : A = MontgomeryA /\ B = A + 2 /\ D = EdwardsD
  BY FieldFacts, EdwardsForm
<1>2. PICK k \in Int : k = D * B + (A - 2) /\ Zero(k)
  BY <1>1, EdwardsForm
<1>3. PICK s \in Int, l \in Int : l = s * s - D /\ Zero(l)
  <2>1. PICK s \in Elements : Zero(s * s - D)
    BY <1>1, SquareForm
  <2> QED BY <2>1, FieldFacts
<1>4. ~IsSquare(A - 2) /\ IsSquare(B)
  BY <1>1, CurveAssumption
<1>5. PICK c \in Int, n \in Int : n = c * c - B /\ Zero(n)
  <2>1. PICK c \in Elements : Zero(c * c - B)
    BY <1>4, SquareForm
  <2> QED BY <2>1, FieldFacts
<1>6. PICK i \in Int, j \in Int : j = i * i + 1 /\ Zero(j)
  <2>1. PICK i \in Int : Zero(i * i + 1)
    BY MapConstants
  <2>2. i * i + 1 \in Int
    OBVIOUS
  <2> QED BY <2>1, <2>2
<1>7. PICK r \in Int, a \in Int : r = i * (s * c) /\ a = A - 2
  OBVIOUS
<1>8. PICK c1 \in Int, c2 \in Int, c3 \in Int, o \in Int :
          c1 = (s * s) * (c * c) /\ c2 = -(s * s) /\ c3 = -B /\ o = 1
  OBVIOUS
<1>9. r * r - a * (o * o) = ((j * c1 + n * c2) + l * c3) - k
  <2>0. PICK I \in Int, S \in Int, C \in Int : I = i * i /\ S = s * s /\ C = c * c
    OBVIOUS
  <2>1. r * r = I * c1
    BY <1>7, <1>8, <2>0
  <2>2. I = j - 1 /\ C = n + B /\ S = l + D
    BY <1>3, <1>5, <1>6, <2>0
  <2>3. I * c1 = j * c1 - c1
    BY <2>2
  <2>4. c1 = S * C /\ S * C = -(n * c2) + S * B
    BY <1>8, <2>0, <2>2
  <2>5. S * B = -(l * c3) + D * B
    BY <1>8, <2>2
  <2>6. D * B = k - a /\ a * (o * o) = a
    BY <1>2, <1>7, <1>8
  <2> QED BY <2>1, <2>3, <2>4, <2>5, <2>6
<1>10. Zero((j * c1 + n * c2) + l * c3)
  BY <1>3, <1>5, <1>6, ZeroCombined, Zenon
<1>11. Zero(r * r - a * (o * o))
  <2>1. (j * c1 + n * c2) + l * c3 \in Int
    OBVIOUS
  <2>2. Zero(((j * c1 + n * c2) + l * c3) - k)
    BY <1>2, <1>10, <2>1, ZeroSum
  <2> QED BY <1>9, <2>2, Zenon
<1> QED BY <1>4, <1>7, <1>8, <1>11, OneNotZero, SquareQuotient

\* So the denominators of the addition do not vanish.
LEMMA DenominatorNotZero ==
    ASSUME NEW P \in Int
    PROVE  ~Zero(1 + EdwardsD * (P * P))
<1>1. PICK D \in Int, d \in Int : D = EdwardsD /\ d = 1 + D * (P * P)
  BY EdwardsForm
<1> SUFFICES ASSUME Zero(d) PROVE FALSE
  BY <1>1
<1>2. PICK i \in Int, j \in Int : j = i * i + 1 /\ Zero(j)
  <2>1. PICK i \in Int : Zero(i * i + 1)
    BY MapConstants
  <2>2. i * i + 1 \in Int
    OBVIOUS
  <2> QED BY <2>1, <2>2
<1>3. i * i - D * (P * P) = j - d
  BY <1>1, <1>2
<1>4. Zero(j - d)
  BY <1>2, ZeroSum
<1>5. ~Zero(P)
  <2> SUFFICES ASSUME Zero(P) PROVE FALSE
    OBVIOUS
  <2>1. 1 = d - P * (D * P) /\ D * P \in Int /\ P * (D * P) \in Int
    BY <1>1
  <2>2. Zero(d - P * (D * P))
    BY <2>1, ZeroSum, ZeroTimes
  <2> QED BY <2>1, <2>2, OneNotZero, Zenon
<1>6. IsSquare(D)
  BY <1>3, <1>4, <1>5, SquareQuotient
<1> QED BY <1>1, <1>6, CoefficientNoSquare

\* The equation of the curve, without remainders in between.
LEMMA PointForm ==
    ASSUME NEW x \in Elements, NEW y \in Elements
    PROVE  Point(x, y) \in Points
               <=> Zero((y * y - x * x) - (1 + (EdwardsD * (x * x)) * (y * y)))
<1>1. PICK D \in Int : D = EdwardsD
  BY EdwardsForm
<1>2. x \in Int /\ y \in Int
  BY FieldFacts
<1>3. PICK Q \in Int, Y \in Int, P \in Int : Q = x * x /\ Y = y * y /\ P = D * Q
  BY <1>2
<1>4. PICK q \in Int : q = x * x % Field /\ Zero(q - Q) /\ q - Q \in Int
  BY <1>3, ZeroRemainder
<1>5. PICK v \in Int : v = y * y % Field /\ Zero(v - Y) /\ v - Y \in Int
  BY <1>3, ZeroRemainder
<1>6. PICK t \in Int : t = D * q % Field /\ Zero(t - P) /\ t - P \in Int
  <2>1. PICK t \in Int : t = D * q % Field /\ Zero(t - D * Q)
    BY <1>4, ZeroSelf, ProductRemainder
  <2> QED BY <1>3, <2>1
<1>7. PICK a \in Int, b \in Int : a = v - q /\ b = 1 + t * v
  OBVIOUS
<1>8. PICK k1 \in Int, k2 \in Int, k3 \in Int :
          k1 = v - Y /\ k2 = q - Q /\ k3 = t - P /\ Zero(k1) /\ Zero(k2) /\ Zero(k3)
  BY <1>4, <1>5, <1>6
<1>9. PICK c1 \in Int, c2 \in Int, c3 \in Int : c1 = 1 - P /\ c2 = -1 /\ c3 = -v
  OBVIOUS
<1>10. PICK k \in Int, e \in Int : /\ k = (k1 * c1 + k2 * c2) + k3 * c3
                                   /\ e = (Y - Q) - (1 + P * Y)
  OBVIOUS
<1>11. a - b = k + e
  BY <1>7, <1>8, <1>9, <1>10
<1>12. Zero(k)
  <2>1. Zero((k1 * c1 + k2 * c2) + k3 * c3)
    BY <1>8, ZeroCombined, Zenon
  <2> QED BY <1>10, <2>1, Zenon
<1>13. Zero(a - b) <=> Zero(e)
  <2>1. a - b \in Int /\ e = (a - b) - k
    BY <1>11
  <2> QED BY <1>11, <1>12, <2>1, ZeroSum
<1>14. (v - q) % Field = (1 + t * v) % Field <=> Zero(e)
  <2>1. a % Field = b % Field <=> Zero(a - b)
    BY ZeroDifference
  <2> QED BY <1>7, <1>13, <2>1, Zenon
<1>15. Point(x, y) \in [x : Elements, y : Elements] /\ Point(x, y).x = x /\ Point(x, y).y = y
  BY DEF Point
<1>16. Point(x, y) \in Points <=> Zero(e)
  BY <1>1, <1>4, <1>5, <1>6, <1>14, <1>15, Zenon DEF Points
<1> QED BY <1>1, <1>3, <1>10, <1>16, Zenon

LEMMA PointParts ==
    ASSUME NEW p \in Points
    PROVE  /\ p.x \in Elements /\ p.y \in Elements /\ p.x \in Int /\ p.y \in Int
           /\ p = Point(p.x, p.y)
           /\ Zero((p.y * p.y - p.x * p.x) - (1 + (EdwardsD * (p.x * p.x)) * (p.y * p.y)))
<1>1. p \in [x : Elements, y : Elements]
  BY DEF Points
<1>2. p.x \in Elements /\ p.y \in Elements /\ p = Point(p.x, p.y)
  BY <1>1 DEF Point
<1> QED BY <1>2, PointForm, FieldFacts

LEMMA NeutralPoint == Neutral \in Points
<1>1. PICK D \in Int : D = EdwardsD
  BY EdwardsForm
<1>2. (1 * 1 - 0 * 0) - (1 + (D * (0 * 0)) * (1 * 1)) = 0
  OBVIOUS
<1>3. Zero((1 * 1 - 0 * 0) - (1 + (EdwardsD * (0 * 0)) * (1 * 1)))
  BY <1>1, <1>2, OneNotZero
<1> QED BY <1>3, OneNotZero, PointForm DEF Neutral

\* y leaves two x, of opposite sign; the prime is odd, so one is even.
LEMMA PointOfString ==
    ASSUME NEW p \in Points, NEW q \in Points, p.y = q.y, p.x % 2 = q.x % 2
    PROVE  p = q
<1>1. PICK x \in Elements, z \in Elements, y \in Int :
          x = p.x /\ z = q.x /\ y = p.y /\ x \in Int /\ z \in Int
  BY PointParts
<1>2. PICK D \in Int, X \in Int, Z \in Int, Y \in Int :
          D = EdwardsD /\ X = x * x /\ Z = z * z /\ Y = y * y
  BY <1>1, EdwardsForm
<1>3. PICK e \in Int, f \in Int :
          /\ e = (Y - X) - (1 + (D * X) * Y) /\ f = (Y - Z) - (1 + (D * Z) * Y)
          /\ Zero(e) /\ Zero(f)
  <2>1. Zero((Y - X) - (1 + (D * X) * Y)) /\ Zero((Y - Z) - (1 + (D * Z) * Y))
    BY <1>1, <1>2, PointParts, Zenon
  <2>2. (Y - X) - (1 + (D * X) * Y) \in Int /\ (Y - Z) - (1 + (D * Z) * Y) \in Int
    OBVIOUS
  <2> QED BY <2>1, <2>2
<1>4. PICK d \in Int, g \in Int : d = 1 + D * Y /\ g = X - Z
  OBVIOUS
<1>5. d * g = f - e
  BY <1>3, <1>4
<1>6. ~Zero(d)
  BY <1>2, <1>4, DenominatorNotZero, Zenon
<1>7. Zero(g)
  <2>1. Zero(d * g)
    BY <1>3, <1>5, ZeroSum
  <2> QED BY <1>6, <2>1, ZeroProduct
<1>8. PICK a \in Int, b \in Int : a = x - z /\ b = x + z
  BY <1>1
<1>9. a * b = g
  BY <1>1, <1>2, <1>4, <1>8
<1>10. x = z
  <2>1. CASE Zero(a)
    BY <1>8, <2>1, ZeroOfElement
  <2>2. CASE ~Zero(a)
    <3>1. Zero(b)
      BY <1>7, <1>9, <2>2, ZeroProduct
    <3>2. PICK k \in Int : b = k * Field
      BY <3>1, ZeroForm
    <3>3. PICK n \in Nat : Field = 8 * n + 5
      BY ExponentFacts
    <3>4. x \in 0..(Field - 1) /\ z \in 0..(Field - 1) /\ x % 2 = z % 2
      BY <1>1, FieldFacts
    <3>5. k = 0 \/ k = 1
      <4>1. CASE k >= 2
        <5>1. PICK m \in Nat : k = 2 + m
          BY <4>1
        <5>2. k * Field = 2 * Field + m * Field /\ m * Field \in Nat
          BY <5>1, FieldFacts
        <5> QED BY <1>8, <3>2, <3>4, <5>2, FieldFacts
      <4>2. CASE k <= -1
        <5>1. PICK m \in Nat : k = -1 - m
          BY <4>2
        <5>2. k * Field = -Field - m * Field /\ m * Field \in Nat
          BY <5>1, FieldFacts
        <5> QED BY <1>8, <3>2, <3>4, <5>2, FieldFacts
      <4> QED BY <4>1, <4>2
    <3>6. b = 0 \/ b = 8 * n + 5
      BY <3>2, <3>3, <3>5
    <3> QED BY <1>8, <3>3, <3>4, <3>6
  <2> QED BY <2>1, <2>2
<1> QED BY <1>1, <1>10, PointParts

LEMMA PlusCommutes ==
    ASSUME NEW p \in Points, NEW q \in Points
    PROVE  Plus(p, q) = Plus(q, p)
<1>1. PICK D \in Int, px \in Int, py \in Int, qx \in Int, qy \in Int :
          D = EdwardsD /\ px = p.x /\ py = p.y /\ qx = q.x /\ qy = q.y
  BY PointParts, EdwardsForm
<1>2. PICK a \in Int, b \in Int : a = px * qy % Field /\ b = py * qx % Field
  <2>1. px * qy \in Int /\ py * qx \in Int
    OBVIOUS
  <2> QED BY <2>1, ZeroRemainder
<1>3. a = qy * px % Field /\ b = qx * py % Field
  BY <1>2
<1>4. PICK t \in Elements : t = (D * a % Field) * b % Field /\ t \in Int /\ Zero(t - (D * a) * b)
  <2>1. PICK m \in Int : m = D * a % Field /\ Zero(m - D * a)
    BY ZeroSelf, ProductRemainder
  <2>2. D * a \in Int
    OBVIOUS
  <2> QED BY <2>1, <2>2, ZeroSelf, ProductRemainder
<1>5. PICK s \in Elements : s = (D * b % Field) * a % Field /\ s \in Int /\ Zero(s - (D * b) * a)
  <2>1. PICK m \in Int : m = D * b % Field /\ Zero(m - D * b)
    BY ZeroSelf, ProductRemainder
  <2>2. D * b \in Int
    OBVIOUS
  <2> QED BY <2>1, <2>2, ZeroSelf, ProductRemainder
<1>6. t = s
  <2>1. PICK k \in Int, l \in Int : k = t - (D * a) * b /\ l = s - (D * b) * a /\ Zero(k) /\ Zero(l)
    <3>1. t - (D * a) * b \in Int /\ s - (D * b) * a \in Int
      BY <1>4, <1>5
    <3> QED BY <1>4, <1>5, <3>1
  <2>2. t \in Int /\ s \in Int
    BY <1>4, <1>5
  <2>3. t - s = k - l
    BY <2>1, <2>2
  <2>4. Zero(t - s)
    BY <2>1, <2>3, ZeroSum
  <2> QED BY <2>4, ZeroOfElement
<1>7. a + b = b + a /\ py * qy + px * qx = qy * py + qx * px
  OBVIOUS
<1>8. Plus(p, q) = Point((a + b) * Inv[(1 + t) % Field] % Field,
                         (py * qy + px * qx) * Inv[(1 - t) % Field] % Field)
  BY <1>1, <1>2, <1>4, Zenon DEF Plus
<1>9. Plus(q, p) = Point((b + a) * Inv[(1 + s) % Field] % Field,
                         (qy * py + qx * px) * Inv[(1 - s) % Field] % Field)
  BY <1>1, <1>3, <1>5, Zenon DEF Plus
<1> QED BY <1>6, <1>7, <1>8, <1>9, Zenon

LEMMA SmallRemainders == 0 % Field = 0 /\ 1 % Field = 1 /\ Inv[1 % Field] = 1
<1>1. 0 % Field = 0 /\ 1 % Field = 1
  BY FieldFacts, CurveAssumption
<1>2. PICK i \in Elements : i = Inv[1 % Field] /\ i \in Int /\ Zero(1 * i - 1)
  BY OneNotZero, InverseFacts
<1>3. 1 * i - 1 = i - 1
  BY <1>2
<1>4. i = 1
  BY <1>2, <1>3, OneNotZero, ZeroOfElement
<1> QED BY <1>1, <1>2, <1>4

LEMMA PlusNeutral ==
    ASSUME NEW p \in Points
    PROVE  Plus(p, Neutral) = p
<1>1. PICK D \in Int, x \in Elements, y \in Elements :
          D = EdwardsD /\ x = p.x /\ y = p.y /\ p = Point(x, y) /\ x \in Int /\ y \in Int
  BY PointParts, EdwardsForm
<1>2. x % Field = x /\ y % Field = y
  <2>1. \A e \in 0..(Field - 1) : e % Field = e
    BY FieldFacts
  <2>2. Elements = 0..(Field - 1)
    BY DEF Elements
  <2> QED BY <2>1, <2>2, Zenon
<1>3. x * 1 = x /\ y * 0 = 0 /\ y * 1 + x * 0 = y /\ x + 0 = x /\ 1 + 0 = 1 /\ 1 - 0 = 1 /\ y * 1 = y
  BY <1>1
<1>4. (D * x % Field) * 0 = 0
  <2>1. PICK m \in Int : m = D * x % Field
    BY <1>1, ZeroSelf, ProductRemainder
  <2>2. m * 0 = 0
    OBVIOUS
  <2> QED BY <2>1, <2>2
<1>5. Neutral.x = 0 /\ Neutral.y = 1
  BY DEF Neutral, Point
<1>6. Plus(p, Neutral) = Point((x + 0) * Inv[(1 + 0) % Field] % Field,
                               (y * 1 + x * 0) * Inv[(1 - 0) % Field] % Field)
  BY <1>1, <1>2, <1>3, <1>4, <1>5, SmallRemainders, Zenon DEF Plus
<1> QED BY <1>1, <1>2, <1>3, <1>6, SmallRemainders, Zenon

\* The point that incognito_ecsub adds.
LEMMA MinusFacts ==
    ASSUME NEW p \in Points
    PROVE  LET minus == Point((Field - p.x) % Field, p.y)
           IN  minus \in Points /\ Plus(p, minus) = Neutral
<1>1. PICK D \in Int, x \in Elements, y \in Elements :
          D = EdwardsD /\ x = p.x /\ y = p.y /\ x \in Int /\ y \in Int
  BY PointParts, EdwardsForm
<1>2. PICK m \in Elements : m = (Field - x) % Field /\ m \in Int /\ Zero(m + x)
  <2>1. PICK n \in Int : n = Field - x
    BY <1>1, FieldFacts
  <2>2. PICK m \in Elements : m = n % Field /\ m \in Int /\ Zero(m - n)
    BY ZeroRemainder
  <2>3. PICK f \in Int : f = 1 * Field /\ f = Field /\ Zero(f)
    <3>1. 1 * Field = Field /\ 1 \in Int /\ Field \in Int
      BY FieldFacts
    <3> QED BY <3>1, ZeroForm, Zenon
  <2>4. m + x = (m - n) + f /\ m - n \in Int
    BY <1>1, <2>1, <2>2, <2>3
  <2>5. Zero((m - n) + f)
    BY <2>2, <2>3, <2>4, ZeroSum
  <2> QED BY <2>1, <2>2, <2>4, <2>5
<1>3. PICK h \in Int : h = m + x /\ Zero(h)
  <2>1. m + x \in Int
    BY <1>1, <1>2
  <2> QED BY <1>2, <2>1
<1>4. x \in Int /\ y \in Int /\ m \in Int
  BY <1>1, <1>2
<1>5. PICK X \in Int, Y \in Int, e \in Int :
          X = x * x /\ Y = y * y /\ e = (Y - X) - (1 + (D * X) * Y) /\ Zero(e)
  <2>1. PICK X \in Int, Y \in Int : X = x * x /\ Y = y * y
    BY <1>4
  <2>2. (Y - X) - (1 + (D * X) * Y) \in Int
    OBVIOUS
  <2>3. Zero((Y - X) - (1 + (D * X) * Y))
    BY <1>1, <2>1, PointParts, Zenon
  <2> QED BY <2>1, <2>2, <2>3
<1>6. Point(m, y) \in Points
  <2>1. PICK M \in Int : M = m * m
    BY <1>4
  <2>2. PICK c \in Int : c = (m - x) * (-(1 + D * Y))
    BY <1>4
  <2>3. M - X = h * (m - x)
    BY <1>3, <1>4, <1>5, <2>1
  <2>4. (Y - M) - (1 + (D * M) * Y) = e + h * c
    <3>1. PICK u \in Int, v \in Int : u = m - x /\ v = h * u
      BY <1>4
    <3>2. M = X + v
      BY <1>4, <2>1, <2>3, <3>1
    <3>3. h * c = v * (-(1 + D * Y))
      BY <2>2, <3>1
    <3> QED BY <1>5, <3>2, <3>3
  <2>5. Zero(e + h * c)
    <3>1. h * c \in Int /\ Zero(h * c)
      BY <1>3, ZeroTimes
    <3> QED BY <1>5, <3>1, ZeroSum
  <2>6. Zero((y * y - m * m) - (1 + (EdwardsD * (m * m)) * (y * y)))
    BY <1>1, <1>5, <2>1, <2>4, <2>5, Zenon
  <2> QED BY <2>6, PointForm
<1>7. PICK P \in Int, N \in Int : P = x * y /\ N = m * y
  BY <1>4
<1>8. PICK a \in Int : a = x * y % Field /\ Zero(a - P)
  BY <1>7, ZeroRemainder
<1>9. PICK b \in Int : b = y * m % Field /\ Zero(b - N)
  <2>1. y * m = N
    BY <1>4, <1>7
  <2> QED BY <1>7, <2>1, ZeroRemainder
<1>10. PICK t \in Int : t = (D * a % Field) * b % Field /\ Zero(t - (D * P) * N)
  <2>1. PICK l \in Int : l = D * a % Field /\ Zero(l - D * P)
    BY <1>8, ZeroSelf, ProductRemainder
  <2>2. D * P \in Int
    OBVIOUS
  <2> QED BY <1>9, <2>1, <2>2, ProductRemainder
\* x: the products cancel.
<1>11. (a + b) * Inv[(1 + t) % Field] % Field = 0
  <2>1. PICK I \in Int : I = Inv[(1 + t) % Field]
    <3>1. (1 + t) % Field \in Elements
      <4>1. 1 + t \in Int
        OBVIOUS
      <4> QED BY <4>1, ZeroRemainder
    <3>2. Field - 2 \in Nat
      BY FieldFacts, CurveAssumption
    <3>3. Inv[(1 + t) % Field] = Power((1 + t) % Field, Field - 2)
      BY <3>1 DEF Inv
    <3> QED BY <3>1, <3>2, <3>3, PowerType
  <2>2. PICK k \in Int, l \in Int : k = a - P /\ l = b - N /\ Zero(k) /\ Zero(l)
    <3>1. a - P \in Int /\ b - N \in Int
      OBVIOUS
    <3> QED BY <1>8, <1>9, <3>1
  <2>3. a + b = (k + l) + h * y /\ k + l \in Int /\ h * y \in Int
    BY <1>3, <1>4, <1>7, <2>2
  <2>4. Zero((k + l) + h * y)
    BY <1>3, <1>4, <2>2, <2>3, ZeroSum, ZeroTimes
  <2>5. PICK c \in Int : c = a + b /\ Zero(c)
    BY <2>3, <2>4
  <2>6. Zero(c * I)
    BY <2>5, ZeroTimes
  <2> QED BY <2>1, <2>5, <2>6 DEF Zero
\* y: the sum of the squares is the denominator, by the equation of the curve.
<1>12. (y * y + x * m) * Inv[(1 - t) % Field] % Field = 1
  <2>1. PICK n \in Int, d \in Int : n = y * y + x * m /\ d = 1 - t
    BY <1>4
  <2>2. PICK g \in Int, S \in Int : g = t - (D * P) * N /\ Zero(g) /\ S = P * P
    <3>1. t - (D * P) * N \in Int /\ P * P \in Int
      OBVIOUS
    <3> QED BY <1>10, <3>1
  <2>3. PICK E \in Int : E = 1 + D * S /\ ~Zero(E)
    <3>1. PICK E \in Int : E = 1 + D * S
      OBVIOUS
    <3>2. ~Zero(1 + EdwardsD * (P * P))
      BY DenominatorNotZero
    <3> QED BY <1>1, <2>2, <3>1, <3>2, Zenon
  <2>4. S = X * Y /\ N = h * y - P
    BY <1>3, <1>4, <1>5, <1>7, <2>2
  <2>5. PICK c \in Int : c = (D * P) * y
    BY <1>4
  <2>6. E - d = g + h * c
    <3>1. t = g + (D * P) * (h * y - P)
      BY <2>2, <2>4
    <3>2. (D * P) * (h * y - P) = h * c - D * S
      <4>1. PICK q \in Int, r \in Int : q = D * P /\ r = h * y
        BY <1>4
      <4>2. q * (r - P) = q * r - q * P
        OBVIOUS
      <4>3. q * P = D * S
        BY <2>2, <4>1
      <4>4. q * r = h * c
        BY <1>4, <2>5, <4>1
      <4> QED BY <4>1, <4>2, <4>3, <4>4
    <3>3. PICK k \in Int, l \in Int : k = h * c /\ l = D * S
      OBVIOUS
    <3>4. t = g + (k - l)
      BY <3>1, <3>2, <3>3, Zenon
    <3> QED BY <2>1, <2>3, <3>3, <3>4
  <2>7. ~Zero(d)
    <3>1. h * c \in Int /\ g + h * c \in Int /\ Zero(g + h * c)
      <4>1. Zero(h * c)
        BY <1>3, ZeroTimes, Zenon
      <4>2. h * c \in Int /\ g + h * c \in Int
        OBVIOUS
      <4> QED BY <2>2, <4>1, <4>2, ZeroSum, Zenon
    <3>2. E = d + (g + h * c)
      BY <2>6, <3>1
    <3> QED BY <2>3, <3>1, <3>2, ZeroSum
  <2>8. PICK v \in Elements : v = n * Inv[d % Field] % Field /\ v \in Int /\ Zero(v * d - n)
    BY <2>7, QuotientFacts
  <2>9. n - d = e + ((g + h * c) + h * x)
    <3>1. n = Y - X + h * x
      BY <1>3, <1>4, <1>5, <2>1
    <3>2. Y - X = e + (1 + D * S)
      <4>1. (D * X) * Y = D * (X * Y)
        OBVIOUS
      <4> QED BY <1>5, <2>4, <4>1
    <3>3. PICK k \in Int, l \in Int : k = h * c /\ l = h * x
      BY <1>4
    <3> QED BY <2>3, <2>6, <3>1, <3>2, <3>3
  <2>10. PICK f \in Int, k \in Int : f = n - d /\ k = v * d - n /\ Zero(f) /\ Zero(k)
    <3>1. Zero(h * c) /\ Zero(h * x) /\ h * c \in Int /\ h * x \in Int
      <4>1. Zero(h * c) /\ Zero(h * x)
        BY <1>3, <1>4, ZeroTimes, Zenon
      <4> QED BY <1>4, <4>1
    <3>2. Zero(g + h * c) /\ g + h * c \in Int
      <4>1. g + h * c \in Int
        BY <3>1
      <4> QED BY <2>2, <3>1, <4>1, ZeroSum, Zenon
    <3>3. Zero((g + h * c) + h * x) /\ (g + h * c) + h * x \in Int
      <4>1. (g + h * c) + h * x \in Int
        BY <3>1, <3>2
      <4> QED BY <3>1, <3>2, <4>1, ZeroSum, Zenon
    <3>4. Zero(e + ((g + h * c) + h * x))
      BY <1>5, <3>3, ZeroSum
    <3>5. Zero(n - d)
      BY <2>9, <3>4, Zenon
    <3>6. v * d - n \in Int
      BY <2>8
    <3> QED BY <2>8, <3>5, <3>6
  <2>11. d * (v - 1) = f + k /\ v - 1 \in Int
    BY <2>8, <2>10
  <2>12. Zero(v - 1)
    <3>1. Zero(d * (v - 1))
      BY <2>10, <2>11, ZeroSum
    <3> QED BY <2>7, <2>11, <3>1, ZeroProduct
  <2>13. v = 1
    BY <2>12, OneNotZero, ZeroOfElement
  <2> QED BY <2>1, <2>8, <2>13, Zenon
<1>13. PICK minus : minus = Point(m, y)
  OBVIOUS
<1>14. minus.x = m /\ minus.y = y
  BY <1>13 DEF Point
<1>15. Plus(p, minus) = Point(0, 1)
  BY <1>1, <1>8, <1>9, <1>10, <1>11, <1>12, <1>14, Zenon DEF Plus
<1> QED BY <1>1, <1>2, <1>6, <1>13, <1>15, Zenon DEF Neutral

LEMMA GroupFacts ==
    /\ Neutral \in Points
    /\ \A p, q \in Points : Plus(p, q) \in Points /\ Plus(p, q) = Plus(q, p)
    /\ \A p, q, r \in Points : Plus(Plus(p, q), r) = Plus(p, Plus(q, r))
    /\ \A p \in Points : Plus(p, Neutral) = p /\ Plus(Neutral, p) = p
BY GroupAssumption, NeutralPoint, PlusCommutes, PlusNeutral
-----------------------------------------------------------------------------
(* Multiples of a point. *)

\* The doubling of cx_ecfp_scalar_mult.
LEMMA TimesHalves ==
    ASSUME NEW p \in Points
    PROVE  /\ \A n \in Nat : Times(n, p) \in Points
           /\ Times(0, p) = Neutral
           /\ \A n \in Nat \ {0} :
                 LET even == Plus(Times(n \div 2, p), Times(n \div 2, p))
                 IN  Times(n, p) = IF n % 2 = 1 THEN Plus(even, p) ELSE even
<1> DEFINE F(m) == [k \in Nat |-> IF k = 0 THEN Neutral
                                  ELSE LET half == m[k \div 2]
                                           even == Plus(half, half)
                                       IN  IF k % 2 = 1 THEN Plus(even, p) ELSE even]
           step == [k \in Nat |-> [h \in Points |-> IF k % 2 = 1 THEN Plus(Plus(h, h), p) ELSE Plus(h, h)]]
           below == [k \in Nat |-> k \div 2]
<1>1. step \in [Nat -> [Points -> Points]]
      /\ \A k \in Nat, h \in Points :
            step[k][h] = IF k % 2 = 1 THEN Plus(Plus(h, h), p) ELSE Plus(h, h)
  <2>1. \A h \in Points : Plus(h, h) \in Points /\ Plus(Plus(h, h), p) \in Points
    BY GroupFacts
  <2> QED BY <2>1
<1>2. /\ below \in [Nat -> Nat] /\ \A k \in Nat : below[k] = k \div 2 /\ k \div 2 \in Nat
      /\ \A k \in Nat \ {0} : below[k] < k
  OBVIOUS
<1>3. Neutral \in Points
  BY GroupFacts
<1> HIDE DEF step, below
<1>4. HasValues(Points, Neutral, step, below)
  <2>1. \A S : \A y \in S, g \in [Nat -> [S -> S]], b \in [Nat -> Nat] :
            (\A n \in Nat \ {0} : b[n] < n) => HasValues(S, y, g, b)
    BY RecursionExists, Zenon
  <2> QED BY <1>1, <1>2, <1>3, <2>1, Zenon
<1>5. PICK f \in [Nat -> Points] :
          f[0] = Neutral /\ \A k \in Nat \ {0} : f[k] = step[k][f[below[k]]]
  BY <1>4, Zenon DEF HasValues
<1>6. \A k \in Nat : f[k] = IF k = 0 THEN Neutral
                            ELSE LET half == f[k \div 2]
                                     even == Plus(half, half)
                                 IN  IF k % 2 = 1 THEN Plus(even, p) ELSE even
  <2>1. ASSUME NEW k \in Nat, k # 0 PROVE f[k] = step[k][f[k \div 2]] /\ f[k \div 2] \in Points
    BY <1>2, <1>5, <2>1
  <2> QED BY <1>1, <1>5, <2>1
<1>7. f = F(f)
  <2>1. f = [k \in Nat |-> f[k]]
    OBVIOUS
  <2>2. [k \in Nat |-> f[k]] = F(f)
    BY <1>6, Zenon
  <2> QED BY <2>1, <2>2, Zenon
<1> DEFINE M == CHOOSE m : m = F(m)
<1>8. M = F(M)
  BY <1>7, Zenon
<1>9. \A n \in Nat : Times(n, p) = M[n]
  BY Zenon DEF Times
<1> HIDE DEF M
<1>10. \A k \in Nat : M[k] = IF k = 0 THEN Neutral
                             ELSE LET half == M[k \div 2]
                                      even == Plus(half, half)
                                  IN  IF k % 2 = 1 THEN Plus(even, p) ELSE even
  <2>1. M = [k \in Nat |-> IF k = 0 THEN Neutral
                           ELSE LET half == M[k \div 2]
                                    even == Plus(half, half)
                                IN  IF k % 2 = 1 THEN Plus(even, p) ELSE even]
    BY <1>8
  <2> QED BY <2>1, Zenon
<1> DEFINE T == {k \in Nat : M[k] \in Points}
<1>11. ASSUME NEW k \in Nat, \A i \in Nat : i < k => i \in T PROVE k \in T
  <2>1. CASE k = 0
    BY <1>3, <1>10, <2>1
  <2>2. CASE k # 0
    <3>1. M[k \div 2] \in Points
      <4>1. k \div 2 \in Nat /\ k \div 2 < k
        BY <2>2
      <4> QED BY <1>11, <4>1
    <3>2. \A h \in Points : Plus(h, h) \in Points /\ Plus(Plus(h, h), p) \in Points
      BY GroupFacts
    <3> QED BY <1>10, <2>2, <3>1, <3>2
  <2> QED BY <2>1, <2>2
<1> HIDE DEF T
<1>12. \A k \in Nat : k \in T
  <2>1. T \in SUBSET Nat
    BY DEF T
  <2> QED BY <1>11, <2>1, StrongInduction
<1>13. \A n \in Nat : Times(n, p) \in Points
  BY <1>9, <1>12 DEF T
<1>14. Times(0, p) = Neutral
  BY <1>9, <1>10
<1>15. ASSUME NEW n \in Nat \ {0}
       PROVE  LET even == Plus(Times(n \div 2, p), Times(n \div 2, p))
              IN  Times(n, p) = IF n % 2 = 1 THEN Plus(even, p) ELSE even
  <2>1. n \in Nat /\ n # 0 /\ n \div 2 \in Nat
    OBVIOUS
  <2>2. Times(n, p) = M[n] /\ Times(n \div 2, p) = M[n \div 2]
    BY <1>9, <2>1
  <2> QED BY <1>10, <2>1, <2>2, Zenon
<1> QED BY <1>13, <1>14, <1>15

LEMMA TimesType == \A n \in Nat, p \in Points : Times(n, p) \in Points
BY TimesHalves

\* It is repeated addition.
LEMMA TimesNext ==
    ASSUME NEW p \in Points
    PROVE  \A n \in Nat : Times(n + 1, p) = Plus(Times(n, p), p)
<1> DEFINE t(n) == Times(n, p)
           T == {n \in Nat : t(n + 1) = Plus(t(n), p)}
<1>1. /\ \A n \in Nat : t(n) \in Points
      /\ t(0) = Neutral
      /\ \A n \in Nat \ {0} : t(n) = IF n % 2 = 1 THEN Plus(Plus(t(n \div 2), t(n \div 2)), p)
                                     ELSE Plus(t(n \div 2), t(n \div 2))
  BY TimesHalves
<1> HIDE DEF t
<1>2. ASSUME NEW n \in Nat, \A i \in Nat : i < n => i \in T PROVE n \in T
  <2>1. PICK h \in Nat : n = 2 * h \/ n = 2 * h + 1
    <3>1. n \div 2 \in Nat /\ (n = 2 * (n \div 2) \/ n = 2 * (n \div 2) + 1)
      OBVIOUS
    <3> QED BY <3>1
  <2>2. t(h) \in Points /\ t(h + 1) \in Points /\ p \in Points
    BY <1>1
  <2>3. CASE n = 2 * h
    <3>1. n + 1 \in Nat \ {0} /\ (n + 1) % 2 = 1 /\ (n + 1) \div 2 = h
      BY <2>3
    <3>2. t(n + 1) = Plus(Plus(t(h), t(h)), p)
      BY <1>1, <3>1
    <3>3. t(n) = Plus(t(h), t(h))
      <4>1. CASE h = 0
        <5>1. t(n) = Neutral /\ t(h) = Neutral
          BY <1>1, <2>3, <4>1
        <5> QED BY <5>1, GroupFacts
      <4>2. CASE h # 0
        <5>1. n \in Nat \ {0} /\ n % 2 = 0 /\ n \div 2 = h
          BY <2>3, <4>2
        <5> QED BY <1>1, <5>1
      <4> QED BY <4>1, <4>2
    <3> QED BY <3>2, <3>3
  <2>4. CASE n = 2 * h + 1
    <3>1. n + 1 \in Nat \ {0} /\ (n + 1) % 2 = 0 /\ (n + 1) \div 2 = h + 1
      BY <2>4
    <3>2. t(n + 1) = Plus(t(h + 1), t(h + 1))
      <4>1. PICK k \in Nat \ {0} : k = n + 1 /\ k % 2 = 0 /\ k \div 2 = h + 1
        BY <3>1
      <4>2. k % 2 # 1
        BY <4>1
      <4>3. t(k) = Plus(t(k \div 2), t(k \div 2))
        BY <1>1, <4>2, Zenon
      <4> QED BY <4>1, <4>3, Zenon
    <3>3. t(h + 1) = Plus(t(h), p)
      <4>1. h < n
        BY <2>4
      <4> QED BY <1>2, <4>1
    <3>4. n \in Nat \ {0} /\ n % 2 = 1 /\ n \div 2 = h
      BY <2>4
    <3>5. t(n) = Plus(Plus(t(h), t(h)), p)
      BY <1>1, <3>4
    <3>6. ASSUME NEW a \in Points PROVE Plus(Plus(a, p), Plus(a, p)) = Plus(Plus(Plus(a, a), p), p)
      <4>1. Plus(a, p) \in Points /\ Plus(p, p) \in Points /\ Plus(a, a) \in Points
        BY GroupFacts
      <4>2. Plus(Plus(a, p), Plus(a, p)) = Plus(a, Plus(p, Plus(a, p)))
        BY <4>1, GroupFacts
      <4>3. Plus(p, Plus(a, p)) = Plus(a, Plus(p, p))
        BY <4>1, GroupFacts
      <4>4. Plus(a, Plus(a, Plus(p, p))) = Plus(Plus(a, a), Plus(p, p))
        BY <4>1, GroupFacts
      <4>5. Plus(Plus(a, a), Plus(p, p)) = Plus(Plus(Plus(a, a), p), p)
        BY <4>1, GroupFacts
      <4> QED BY <4>2, <4>3, <4>4, <4>5
    <3> QED BY <2>2, <3>2, <3>3, <3>5, <3>6
  <2> QED BY <2>1, <2>3, <2>4
<1> HIDE DEF T
<1>3. \A n \in Nat : n \in T
  <2>1. T \in SUBSET Nat
    BY DEF T
  <2> QED BY <1>2, <2>1, StrongInduction
<1> QED BY <1>3 DEF T, t

LEMMA TimesZero == \A p \in Points : Times(0, p) = Neutral
BY TimesHalves

\* Multiples add up, and multiply.
LEMMA TimesSum ==
    ASSUME NEW p \in Points, NEW a \in Nat
    PROVE  \A b \in Nat : Times(a + b, p) = Plus(Times(a, p), Times(b, p))
<1> DEFINE T == {b \in Nat : Times(a + b, p) = Plus(Times(a, p), Times(b, p))}
<1>1. 0 \in T
  <2>1. a + 0 = a /\ Times(a, p) \in Points /\ Times(0, p) = Neutral
    BY TimesType, TimesZero
  <2> QED BY <2>1, GroupFacts
<1>2. ASSUME NEW b \in T PROVE b + 1 \in T
  <2>1. PICK c \in Nat : c = a + b
    OBVIOUS
  <2>2. a + (b + 1) = c + 1
    BY <2>1
  <2>3. Times(c + 1, p) = Plus(Times(c, p), p) /\ Times(b + 1, p) = Plus(Times(b, p), p)
    BY TimesNext
  <2>4. Times(c, p) = Plus(Times(a, p), Times(b, p))
    BY <2>1
  <2>5. Times(a, p) \in Points /\ Times(b, p) \in Points
    BY TimesType
  <2>6. Plus(Plus(Times(a, p), Times(b, p)), p) = Plus(Times(a, p), Plus(Times(b, p), p))
    BY <2>5, GroupFacts
  <2>7. Times(a + (b + 1), p) = Plus(Times(a, p), Times(b + 1, p))
    BY <2>2, <2>3, <2>4, <2>6, Zenon
  <2> QED BY <2>7
<1> HIDE DEF T
<1>3. \A b \in Nat : b \in T
  <2>1. T \in SUBSET Nat
    BY DEF T
  <2> QED BY <1>1, <1>2, <2>1, Induction
<1> QED BY <1>3 DEF T

LEMMA TimesTimes ==
    ASSUME NEW p \in Points, NEW b \in Nat
    PROVE  \A a \in Nat : Times(a, Times(b, p)) = Times(a * b, p)
<1> DEFINE T == {a \in Nat : Times(a, Times(b, p)) = Times(a * b, p)}
<1>0. Times(b, p) \in Points
  BY TimesType
<1>1. 0 \in T
  <2>1. 0 * b = 0
    OBVIOUS
  <2> QED BY <1>0, <2>1, TimesZero
<1>2. ASSUME NEW a \in T PROVE a + 1 \in T
  <2>1. (a + 1) * b = a * b + b /\ a * b \in Nat
    BY Products
  <2>2. Times(a + 1, Times(b, p)) = Plus(Times(a, Times(b, p)), Times(b, p))
    BY <1>0, TimesNext
  <2>3. Times(a, Times(b, p)) = Times(a * b, p)
    OBVIOUS
  <2>4. Times(a * b + b, p) = Plus(Times(a * b, p), Times(b, p))
    BY <2>1, TimesSum
  <2>5. Times(a + 1, Times(b, p)) = Times((a + 1) * b, p)
    BY <2>1, <2>2, <2>3, <2>4, Zenon
  <2> QED BY <2>5
<1> HIDE DEF T
<1>3. \A a \in Nat : a \in T
  <2>1. T \in SUBSET Nat
    BY DEF T
  <2> QED BY <1>1, <1>2, <2>1, Induction
<1> QED BY <1>3 DEF T

LEMMA TimesNeutral == \A a \in Nat : Times(a, Neutral) = Neutral
<1>1. ASSUME NEW a \in Nat PROVE Times(a, Neutral) = Neutral
  <2>1. Times(0, Neutral) = Neutral /\ Neutral \in Points /\ a * 0 = 0
    BY TimesZero, GroupFacts
  <2>2. Times(a, Times(0, Neutral)) = Times(a * 0, Neutral)
    BY <2>1, TimesTimes
  <2> QED BY <2>1, <2>2
<1> QED BY <1>1

LEMMA GeneratorFacts == Generator \in Points /\ Times(Order, Generator) = Neutral
<1>1. \E p \in Points : p # Neutral /\ Times(Order, p) = Neutral
  BY GroupAssumption
<1> QED BY <1>1, Zenon DEF Generator

\* Scalars may be taken modulo the order.
LEMMA TimesModulo ==
    ASSUME NEW n \in Nat, NEW p \in Points, Times(Order, p) = Neutral
    PROVE  Times(n % Order, p) = Times(n, p)
<1>1. PICK q \in Nat, r \in 0..(Order - 1) : n = q * Order + r /\ n % Order = r
  BY Constants, Division
<1>2. Order \in Nat /\ r \in Nat /\ q * Order \in Nat
  BY Constants, Products
<1>3. Times(q * Order, p) = Neutral
  <2>1. Times(q, Times(Order, p)) = Times(q * Order, p)
    BY <1>2, TimesTimes
  <2>2. Times(q, Neutral) = Neutral
    BY TimesNeutral
  <2> QED BY <2>1, <2>2
<1>4. PICK m \in Nat : m = q * Order
  BY <1>2
<1>5. Times(m, p) = Neutral /\ n = m + r
  BY <1>1, <1>3, <1>4
<1>6. Times(m + r, p) = Plus(Times(m, p), Times(r, p)) /\ Times(r, p) \in Points
  BY <1>2, TimesSum, TimesType
<1>7. Times(n, p) = Times(r, p)
  BY <1>5, <1>6, GroupFacts
<1> QED BY <1>1, <1>7

\* The multiples of a multiple of the generator are multiples of the generator.
LEMMA OrderOfMultiple ==
    ASSUME NEW n \in Nat
    PROVE  Times(n, Generator) \in Points /\ Times(Order, Times(n, Generator)) = Neutral
<1>1. Order \in Nat /\ Generator \in Points /\ Order * n = n * Order
  BY Constants, GeneratorFacts, Products
<1>2. Times(Order, Times(n, Generator)) = Times(n, Times(Order, Generator))
  BY <1>1, TimesTimes
<1> QED BY <1>1, <1>2, GeneratorFacts, TimesNeutral, TimesType

-----------------------------------------------------------------------------
(* Points and their strings. *)

\* The string of a point gives the point back.
LEMMA CompressFacts ==
    ASSUME NEW p \in Points
    PROVE  Compress(p) \in Bytes32 /\ Decompress[Compress(p)] = p
<1> DEFINE H == Strings \div 2
           n(q) == q.y + H * (q.x % 2)
<1>1. ASSUME NEW q \in Points
      PROVE  q.y \in Nat /\ q.y < H /\ q.x % 2 \in {0, 1} /\ n(q) \in Nat /\ n(q) < Strings
  <2>1. q.x \in 0..(Field - 1) /\ q.y \in 0..(Field - 1)
    BY DEF Points, Elements
  <2>2. q.x % 2 \in {0, 1} /\ Field \in Nat /\ 2 * Field <= Strings /\ Strings \in Nat
    BY <2>1, Constants, StringsPositive
  <2>3. H \in Nat /\ Field <= H /\ 2 * H <= Strings
    BY <2>2
  <2> HIDE DEF H
  <2>4. H * 0 = 0 /\ H * 1 = H
    BY <2>3
  <2>5. CASE q.x % 2 = 0
    BY <2>1, <2>2, <2>3, <2>4, <2>5
  <2>6. CASE q.x % 2 = 1
    BY <2>1, <2>2, <2>3, <2>4, <2>6
  <2> QED BY <2>2, <2>5, <2>6
<1>2. H \in Nat
  BY StringsPositive
<1> HIDE DEF H
<1>3. ASSUME NEW q \in Points
      PROVE  Compress(q) \in Bytes32 /\ Scalar(Compress(q)) = n(q)
  <2>1. Compress(q) = reverse32(BigEndian(n(q)))
    BY DEF Compress, H
  <2> QED BY <1>1, <2>1, ScalarOfNumber
<1>4. ASSUME NEW q \in Points, Compress(q) = Compress(p) PROVE q = p
  <2>1. q.y + H * (q.x % 2) = p.y + H * (p.x % 2)
    BY <1>3, <1>4
  <2>2. H * 0 = 0 /\ H * 1 = H
    BY <1>2
  <2>3. q.y = p.y /\ q.x % 2 = p.x % 2
    <3>1. PICK y \in Nat, z \in Nat : y = q.y /\ z = p.y /\ y < H /\ z < H
      BY <1>1
    <3>2. CASE q.x % 2 = 0 /\ p.x % 2 = 0
      BY <1>2, <2>1, <2>2, <3>1, <3>2
    <3>3. CASE q.x % 2 = 1 /\ p.x % 2 = 1
      BY <1>2, <2>1, <2>2, <3>1, <3>3
    <3>4. CASE q.x % 2 = 0 /\ p.x % 2 = 1
      BY <1>2, <2>1, <2>2, <3>1, <3>4
    <3>5. CASE q.x % 2 = 1 /\ p.x % 2 = 0
      BY <1>2, <2>1, <2>2, <3>1, <3>5
    <3> QED BY <1>1, <3>2, <3>3, <3>4, <3>5
  <2> QED BY <2>3, PointOfString
<1>5. Compress(p) \in Compressed
  BY DEF Compressed
<1>6. Decompress[Compress(p)] = CHOOSE q \in Points : Compress(q) = Compress(p)
  BY <1>5 DEF Decompress
<1>7. (CHOOSE q \in Points : Compress(q) = Compress(p)) = p
  <2>1. \E q \in Points : Compress(q) = Compress(p)
    OBVIOUS
  <2>2. PICK q : q = CHOOSE r \in Points : Compress(r) = Compress(p)
    OBVIOUS
  <2>3. q \in Points /\ Compress(q) = Compress(p)
    BY <2>1, <2>2, Zenon
  <2> QED BY <1>4, <2>2, <2>3
<1> QED BY <1>3, <1>6, <1>7

\* Multiples of two scalars, in either order.
LEMMA TimesCommute ==
    ASSUME NEW p \in Points, NEW a \in Nat, NEW b \in Nat
    PROVE  Times(a, Times(b, p)) = Times(b, Times(a, p))
BY TimesTimes, Products

\* Adding a point and taking it off again.
LEMMA PlusMinus ==
    ASSUME NEW p \in Points, NEW q \in Points
    PROVE  LET minus == Point((Field - p.x) % Field, p.y)
           IN  minus \in Points /\ Plus(Plus(p, q), minus) = q
<1> DEFINE minus == Point((Field - p.x) % Field, p.y)
<1>1. minus \in Points /\ Plus(p, minus) = Neutral
  BY MinusFacts
<1> HIDE DEF minus
<1>2. Plus(Plus(p, q), minus) = Plus(q, Plus(p, minus))
  BY <1>1, GroupFacts
<1> QED BY <1>1, <1>2, GroupFacts DEF minus

\* incognito_ecmul_G.
LEMMA ecmul_GFacts ==
    ASSUME NEW s \in Bytes32
    PROVE  /\ ecmul_G(s) = Compress(Times(Scalar(s), Generator))
           /\ ecmul_G(s) \in Bytes32
           /\ Times(Scalar(s), Generator) \in Points
           /\ Decompress[ecmul_G(s)] = Times(Scalar(s), Generator)
<1>1. Times(Scalar(s), Generator) \in Points
  BY BytesFacts, GeneratorFacts, TimesType
<1>2. ecmul_G(s) = Compress(Times(Scalar(s), Generator))
  BY Zenon DEF ecmul_G, Scalar
<1> QED BY <1>1, <1>2, CompressFacts

\* The sum of two scalars is the key of the sum of their points.
LEMMA addmTimes ==
    ASSUME NEW a \in Bytes32, NEW b \in Bytes32
    PROVE  Times(Scalar(addm(a, b)), Generator)
               = Plus(Times(Scalar(a), Generator), Times(Scalar(b), Generator))
<1>1. Scalar(a) \in Nat /\ Scalar(b) \in Nat /\ Scalar(a) + Scalar(b) \in Nat
  BY BytesFacts
<1>2. Times(Scalar(addm(a, b)), Generator) = Times(Scalar(a) + Scalar(b), Generator)
  <2>1. Times((Scalar(a) + Scalar(b)) % Order, Generator) = Times(Scalar(a) + Scalar(b), Generator)
    BY <1>1, GeneratorFacts, TimesModulo
  <2>2. Scalar(addm(a, b)) = (Scalar(a) + Scalar(b)) % Order
    BY addmFacts
  <2> QED BY <2>1, <2>2, Zenon
<1>3. Times(Scalar(a) + Scalar(b), Generator)
          = Plus(Times(Scalar(a), Generator), Times(Scalar(b), Generator))
  BY <1>1, GeneratorFacts, TimesSum
<1> QED BY <1>2, <1>3

\* Eight times a scalar, times a multiple of the generator.
LEMMA ecmul_8kFacts ==
    ASSUME NEW a \in Bytes32, NEW r \in Nat
    PROVE  ecmul_8k(Compress(Times(r, Generator)), a)
               = Compress(Times(8 * r, Times(Scalar(a), Generator)))
<1> DEFINE R == Times(r, Generator)
<1>1. /\ Scalar(a) \in Nat /\ Scalar(a) * 8 \in Nat /\ 8 * r \in Nat
      /\ (8 * r) * Scalar(a) = (Scalar(a) * 8) * r
  <2>1. Scalar(a) \in Nat
    BY BytesFacts
  <2>2. \A x, y \in Nat : x * 8 \in Nat /\ 8 * y \in Nat /\ (8 * y) * x = (x * 8) * y
    OBVIOUS
  <2> QED BY <2>1, <2>2
<1>2. R \in Points /\ Times(Order, R) = Neutral /\ Decompress[Compress(R)] = R
  BY OrderOfMultiple, CompressFacts
<1>3. ecmul_8k(Compress(R), a) = Compress(Times(Scalar(multm_8(a)), Decompress[Compress(R)]))
  BY Zenon DEF ecmul_8k, ecmul_k, Scalar
<1>4. Times(Scalar(multm_8(a)), R) = Times(Scalar(a) * 8, R)
  <2>1. Times((Scalar(a) * 8) % Order, R) = Times(Scalar(a) * 8, R)
    BY <1>1, <1>2, TimesModulo
  <2>2. Scalar(multm_8(a)) = (Scalar(a) * 8) % Order
    BY multm_8Facts
  <2> QED BY <2>1, <2>2, Zenon
<1>5. Times(Scalar(a) * 8, R) = Times(8 * r, Times(Scalar(a), Generator))
  <2>1. Times(Scalar(a) * 8, R) = Times((Scalar(a) * 8) * r, Generator)
    BY <1>1, GeneratorFacts, TimesTimes
  <2>2. Times(8 * r, Times(Scalar(a), Generator)) = Times((8 * r) * Scalar(a), Generator)
    BY <1>1, GeneratorFacts, TimesTimes
  <2> QED BY <1>1, <2>1, <2>2, Zenon
<1> HIDE DEF R
<1>6. ecmul_8k(Compress(R), a) = Compress(Times(8 * r, Times(Scalar(a), Generator)))
  BY <1>2, <1>3, <1>4, <1>5, Zenon
<1> QED BY <1>6 DEF R

\* Three doublings are eight times the point.
LEMMA ecmul_8Facts ==
    ASSUME NEW p \in Points
    PROVE  ecmul_8(Compress(p)) = Compress(Times(8, p))
<1>1. Times(1, p) = p
  <2>1. Times(0 + 1, p) = Plus(Times(0, p), p)
    BY TimesNext
  <2> QED BY <2>1, TimesZero, GroupFacts
<1>2. ASSUME NEW n \in Nat PROVE Times(n + n, p) = Plus(Times(n, p), Times(n, p))
  BY TimesSum
<1>3. Times(2, p) = Plus(p, p)
  <2>1. 1 + 1 = 2
    OBVIOUS
  <2> QED BY <1>1, <1>2, <2>1
<1>4. Times(4, p) = Plus(Times(2, p), Times(2, p))
  <2>1. 2 + 2 = 4
    OBVIOUS
  <2> QED BY <1>2, <2>1
<1>5. Times(8, p) = Plus(Times(4, p), Times(4, p))
  <2>1. 4 + 4 = 8
    OBVIOUS
  <2> QED BY <1>2, <2>1
<1>6. Decompress[Compress(p)] = p
  BY CompressFacts
<1> QED BY <1>3, <1>4, <1>5, <1>6, Zenon DEF ecmul_8

-----------------------------------------------------------------------------
(* What is hashed is a sequence of bytes. *)

LEMMA Joined == \A a, b \in Seq(Nat) : a \o b \in Seq(Nat)
OBVIOUS

LEMMA encode_varintType == \A n \in Nat : encode_varint(n) \in Seq(Nat)
<1> DEFINE More == ByteValues \div 2
           F(v) == [n \in Nat |-> IF n < More THEN <<n>> ELSE <<(n % More) + More>> \o v[n \div More]]
           step == [n \in Nat |-> [t \in Seq(Nat) |->
                      IF n < More THEN <<n>> ELSE <<(n % More) + More>> \o t]]
           below == [n \in Nat |-> n \div More]
<1>0. More \in Nat /\ More > 1
  BY Constants
<1> HIDE DEF More
<1>1. step \in [Nat -> [Seq(Nat) -> Seq(Nat)]]
      /\ \A n \in Nat, t \in Seq(Nat) :
            step[n][t] = IF n < More THEN <<n>> ELSE <<(n % More) + More>> \o t
  <2>1. \A n \in Nat : <<n>> \in Seq(Nat) /\ <<(n % More) + More>> \in Seq(Nat)
    <3>1. \A n \in Nat : (n % More) + More \in Nat
      BY <1>0
    <3> QED BY <3>1
  <2>2. \A n \in Nat, t \in Seq(Nat) : <<(n % More) + More>> \o t \in Seq(Nat)
    BY <2>1, Joined
  <2> QED BY <2>1, <2>2
<1>2. /\ below \in [Nat -> Nat] /\ \A n \in Nat : below[n] = n \div More
      /\ \A n \in Nat \ {0} : below[n] < n
  <2>1. ASSUME NEW n \in Nat PROVE n \div More \in Nat /\ (n # 0 => n \div More < n)
    <3>1. PICK q \in Nat, r \in 0..(More - 1) : n \div More = q /\ n = q * More + r
      BY <1>0, Division
    <3>2. PICK k \in Nat : More = 2 + k
      BY <1>0
    <3>3. q * More = q + q + q * k /\ q * k \in Nat
      BY <3>2
    <3>4. q # 0 => q < n
      BY <3>1, <3>3
    <3> QED BY <3>1, <3>4
  <2> QED BY <2>1
<1>3. <<0>> \in Seq(Nat)
  OBVIOUS
<1> HIDE DEF step, below
<1>4. HasValues(Seq(Nat), <<0>>, step, below)
  <2>1. \A S : \A y \in S, g \in [Nat -> [S -> S]], b \in [Nat -> Nat] :
            (\A n \in Nat \ {0} : b[n] < n) => HasValues(S, y, g, b)
    BY RecursionExists, Zenon
  <2> QED BY <1>1, <1>2, <1>3, <2>1, Zenon
<1>5. PICK f \in [Nat -> Seq(Nat)] :
          f[0] = <<0>> /\ \A n \in Nat \ {0} : f[n] = step[n][f[below[n]]]
  BY <1>4, Zenon DEF HasValues
<1>6. \A n \in Nat : f[n] = IF n < More THEN <<n>> ELSE <<(n % More) + More>> \o f[n \div More]
  <2>1. ASSUME NEW n \in Nat \ {0}
        PROVE  f[n] = IF n < More THEN <<n>> ELSE <<(n % More) + More>> \o f[n \div More]
    <3>1. f[n] = step[n][f[n \div More]] /\ f[n \div More] \in Seq(Nat) /\ n \in Nat
      BY <1>2, <1>5
    <3> QED BY <1>1, <3>1, Zenon
  <2>2. 0 < More /\ f[0] = <<0>>
    BY <1>0, <1>5
  <2> QED BY <2>1, <2>2
<1>7. f = F(f)
  <2>1. f = [n \in Nat |-> f[n]]
    OBVIOUS
  <2>2. [n \in Nat |-> f[n]] = F(f)
    BY <1>6, Zenon
  <2> QED BY <2>1, <2>2, Zenon
<1> DEFINE V == CHOOSE v : v = F(v)
<1>8. V = F(V)
  BY <1>7, Zenon
<1>9. \A n \in Nat : encode_varint(n) = V[n]
  BY Zenon DEF encode_varint, More
<1> HIDE DEF V
<1>10. \A n \in Nat : V[n] = IF n < More THEN <<n>> ELSE <<(n % More) + More>> \o V[n \div More]
  <2>1. V = [n \in Nat |-> IF n < More THEN <<n>> ELSE <<(n % More) + More>> \o V[n \div More]]
    BY <1>8
  <2> QED BY <2>1, Zenon
<1> DEFINE T == {n \in Nat : V[n] \in Seq(Nat)}
<1>11. ASSUME NEW n \in Nat, \A i \in Nat : i < n => i \in T PROVE n \in T
  <2>1. CASE n < More
    <3>1. V[n] = <<n>>
      BY <1>10, <2>1, Zenon
    <3>2. <<n>> \in Seq(Nat)
      OBVIOUS
    <3>3. V[n] \in Seq(Nat)
      BY <3>1, <3>2, Zenon
    <3> QED BY <3>3
  <2>2. CASE ~(n < More)
    <3>1. n \div More \in Nat /\ n \div More < n
      <4>1. n \in Nat \ {0}
        BY <1>0, <2>2
      <4>2. below[n] = n \div More /\ below[n] < n /\ below[n] \in Nat
        BY <1>2, <4>1
      <4> QED BY <4>2
    <3>2. V[n \div More] \in Seq(Nat)
      BY <1>11, <3>1
    <3>3. <<(n % More) + More>> \in Seq(Nat)
      <4>1. (n % More) + More \in Nat
        BY <1>0
      <4> QED BY <4>1
    <3>4. V[n] = <<(n % More) + More>> \o V[n \div More]
      BY <1>10, <2>2
    <3>5. V[n] \in Seq(Nat)
      BY <3>2, <3>3, <3>4, Joined
    <3> QED BY <3>5
  <2> QED BY <2>1, <2>2
<1> HIDE DEF T
<1>12. \A n \in Nat : n \in T
  <2>1. T \in SUBSET Nat
    BY DEF T
  <2> QED BY <1>11, <2>1, StrongInduction
<1> QED BY <1>9, <1>12 DEF T

-----------------------------------------------------------------------------
(* The map of a digest to a point. *)

\* The square of the power is w / x but for a factor, and that is a fourth root
\* of one.
LEMMA DivPowM1Facts ==
    ASSUME NEW w \in Elements, NEW x \in Elements
    PROVE  \E r \in Elements, c \in Int :
              /\ r = DivPowM1(w, x) /\ Zero(r * r * x - w * c)
              /\ ~Zero(w) /\ ~Zero(x) => Zero((c * c) * (c * c) - 1)
<1>0. w \in Int /\ x \in Int
  BY FieldFacts
<1> DEFINE k == fe_qm5div8
<1>1. k \in Nat /\ Field - 1 = 8 * k + 4
  BY ExponentFacts
<1> HIDE DEF k
<1>2. PICK x3 \in Elements : x3 = Power(x, 3) /\ x3 \in Int /\ Zero(x3 - x * x * x)
  <2>1. PICK p \in Int, q \in Elements : p = Power(x, 1) /\ q = Power(x, 3) /\ q \in Int
    BY PowerType
  <2>2. Zero(p - x)
    <3>1. 1 = 2 * 0 + 1 /\ Power(x, 0) = 1 /\ (1 * 1) * x = x
      BY <1>0, PowerHalves
    <3>2. Zero(Power(x, 1) - (Power(x, 0) * Power(x, 0)) * x)
      BY <3>1, PowerHalf
    <3> QED BY <2>1, <3>1, <3>2
  <2>3. Zero(q - (p * p) * x)
    <3>1. 3 = 2 * 1 + 1
      OBVIOUS
    <3> QED BY <2>1, <3>1, PowerHalf
  <2>4. /\ q - x * x * x = (q - (p * p) * x) + (p - x) * ((p + x) * x)
        /\ q - (p * p) * x \in Int /\ p - x \in Int /\ (p + x) * x \in Int
        /\ (p - x) * ((p + x) * x) \in Int
    BY <1>0, <2>1
  <2>5. Zero(q - x * x * x)
    BY <2>2, <2>3, <2>4, ZeroSum, ZeroTimes
  <2> QED BY <2>1, <2>5
<1>3. PICK X \in Int : X = x * x * x /\ Zero(x3 - X)
  BY <1>0, <1>2
<1>4. PICK m1 \in Int : m1 = x3 * x3 % Field /\ Zero(m1 - X * X)
  BY <1>2, <1>3, ProductRemainder
<1>5. PICK m2 \in Int : m2 = x * w % Field /\ Zero(m2 - x * w)
  BY <1>0, ZeroSelf, ProductRemainder
<1>6. PICK t \in Elements : t = m1 * m2 % Field /\ t \in Int /\ Zero(t - (X * X) * (x * w))
  <2>1. X * X \in Int /\ x * w \in Int
    BY <1>0
  <2> QED BY <1>4, <1>5, <2>1, ProductRemainder
<1>7. PICK P \in Int : P = Power(t, k)
  BY <1>1, PowerType
<1>8. PICK m3 \in Int : m3 = P * x3 % Field /\ Zero(m3 - P * X)
  BY <1>2, <1>3, ZeroSelf, ProductRemainder
<1>9. PICK r \in Elements : r = m3 * w % Field /\ r \in Int /\ Zero(r - (P * X) * w)
  <2>1. P * X \in Int
    OBVIOUS
  <2> QED BY <1>0, <1>8, <2>1, ZeroSelf, ProductRemainder
<1>10. r = DivPowM1(w, x)
  BY <1>2, <1>4, <1>5, <1>6, <1>7, <1>8, <1>9, Zenon DEF DivPowM1, k
<1>11. 2 * k + 1 \in Nat /\ 4 * k + 2 \in Nat /\ 8 * k + 4 \in Nat
  BY <1>1
<1>12. PICK c \in Int, d \in Int, e \in Int :
           c = Power(t, 2 * k + 1) /\ d = Power(t, 4 * k + 2) /\ e = Power(t, 8 * k + 4)
  BY <1>11, PowerType
<1>13. Zero(c - (P * P) * t) /\ Zero(d - c * c) /\ Zero(e - d * d)
  <2>1. 4 * k + 2 = 2 * (2 * k + 1) /\ 8 * k + 4 = 2 * (4 * k + 2)
    BY <1>1
  <2>2. Zero(c - (P * P) * t)
    BY <1>1, <1>7, <1>11, <1>12, PowerHalf
  <2>3. Zero(d - c * c)
    BY <1>11, <1>12, <2>1, PowerHalf
  <2>4. Zero(e - d * d)
    BY <1>11, <1>12, <2>1, PowerHalf
  <2> QED BY <2>2, <2>3, <2>4
<1>14. Zero(r * r * x - w * c)
  <2>1. PICK y \in Int : y = (P * X) * w
    BY <1>0
  <2>2. r * r * x - w * c = ((r - y) * ((r + y) * x) - (c - (P * P) * t) * w)
                                - (t - (X * X) * (x * w)) * ((P * P) * w)
    <3>1. r * r * x - w * c = (r - y) * ((r + y) * x) + (y * y * x - w * c)
      BY <1>0, <1>9
    <3>2. y * y * x = ((X * X) * (x * w)) * ((P * P) * w)
      BY <1>0, <2>1
    <3>3. PICK Y \in Int, Q \in Int, D \in Int :
              Y = (X * X) * (x * w) /\ Q = P * P /\ D = (r - y) * ((r + y) * x)
      BY <1>0, <1>9
    <3>4. D + (Y * (Q * w) - w * c) = (D - (c - Q * t) * w) - (t - Y) * (Q * w)
      BY <1>0, <1>6
    <3>5. r * r * x - w * c = D + (Y * (Q * w) - w * c)
      BY <3>1, <3>2, <3>3, Zenon
    <3> QED BY <3>3, <3>4, <3>5, Zenon
  <2>3. /\ r - y \in Int /\ (r + y) * x \in Int /\ c - (P * P) * t \in Int
        /\ t - (X * X) * (x * w) \in Int /\ (P * P) * w \in Int
        /\ (r - y) * ((r + y) * x) \in Int /\ (c - (P * P) * t) * w \in Int
        /\ (t - (X * X) * (x * w)) * ((P * P) * w) \in Int
        /\ (r - y) * ((r + y) * x) - (c - (P * P) * t) * w \in Int
    BY <1>0, <1>6, <1>9
  <2> QED BY <1>0, <1>6, <1>9, <1>13, <2>1, <2>2, <2>3, ZeroSum, ZeroTimes
<1>15. ASSUME ~Zero(w), ~Zero(x) PROVE Zero((c * c) * (c * c) - 1)
  <2>1. ~Zero(X) /\ ~Zero(X * X) /\ ~Zero(x * w) /\ ~Zero((X * X) * (x * w))
    <3>1. x * x \in Int /\ X = (x * x) * x /\ X * X \in Int /\ x * w \in Int
      BY <1>0, <1>3
    <3> QED BY <1>0, <1>15, <3>1, ZeroProduct
  <2>2. ~Zero(t)
    <3>1. PICK y \in Int : y = (X * X) * (x * w)
      BY <1>0
    <3>2. y = t - (t - y) /\ t - y \in Int
      BY <1>6
    <3> QED BY <1>6, <2>1, <3>1, <3>2, ZeroSum
  <2>3. t \in 1..(Field - 1)
    BY <2>2, FieldFacts, OneNotZero
  <2>4. e = 1
    BY <1>1, <1>12, <2>3, FieldAssumption
  <2>5. /\ (c * c) * (c * c) - 1 = -(1 - d * d) - (d - c * c) * (d + c * c)
        /\ 1 - d * d \in Int /\ -(1 - d * d) \in Int /\ d - c * c \in Int /\ d + c * c \in Int
        /\ (d - c * c) * (d + c * c) \in Int
    OBVIOUS
  <2> QED BY <1>13, <2>4, <2>5, ZeroSum, ZeroTimes
<1> QED BY <1>10, <1>14, <1>15

\* The four roots.
LEMMA FourthRoots ==
    ASSUME NEW c \in Int, NEW i \in Int, Zero(i * i + 1), Zero((c * c) * (c * c) - 1)
    PROVE  Zero(c - 1) \/ Zero(c + 1) \/ Zero(c - i) \/ Zero(c + i)
<1>1. PICK a \in Int, b \in Int, d \in Int, e \in Int :
          a = c - 1 /\ b = c + 1 /\ d = c - i /\ e = c + i
  OBVIOUS
<1>2. /\ a * (b * (d * e)) = ((c * c) * (c * c) - 1) - (i * i + 1) * (c * c - 1)
      /\ (c * c) * (c * c) - 1 \in Int /\ i * i + 1 \in Int /\ c * c - 1 \in Int
      /\ (i * i + 1) * (c * c - 1) \in Int
  BY <1>1
<1>3. Zero(a * (b * (d * e)))
  BY <1>2, ZeroSum, ZeroTimes
<1>4. d * e \in Int /\ b * (d * e) \in Int
  OBVIOUS
<1> QED BY <1>1, <1>3, <1>4, ZeroProduct

\* The denominator of the map, for either candidate z.
LEMMA SameDenominator ==
    ASSUME NEW A \in Int, NEW v \in Int, NEW w \in Int, NEW X \in Int, NEW z \in Int,
           Zero(w - (v + 1)), Zero(X - (w * w - (A * A) * v)),
           Zero(z + A * v) \/ Zero(z + A)
    PROVE  Zero((z * z + w * w + A * (z * w)) - X)
<1> DEFINE S == z * z + w * w + A * (z * w)
<1>1. CASE Zero(z + A * v)
  <2>1. PICK a \in Int, b \in Int, c \in Int, d \in Int, e \in Int, f \in Int :
            /\ a = z + A * v /\ b = w - (v + 1) /\ c = X - (w * w - (A * A) * v)
            /\ d = z - A * v + A * w /\ e = -((A * A) * v) /\ f = -1
    OBVIOUS
  <2>2. S - X = (a * d + b * e) + c * f
    BY <2>1
  <2>3. Zero(a) /\ Zero(b) /\ Zero(c)
    BY <1>1, <2>1
  <2>4. Zero((a * d + b * e) + c * f)
    BY <2>3, ZeroCombined, Zenon
  <2> QED BY <2>2, <2>4, Zenon
<1>2. CASE Zero(z + A)
  <2>1. PICK a \in Int, b \in Int, c \in Int, d \in Int, e \in Int, f \in Int :
            /\ a = z + A /\ b = w - (v + 1) /\ c = X - (w * w - (A * A) * v)
            /\ d = z - A + A * w /\ e = -(A * A) /\ f = -1
    OBVIOUS
  <2>2. S - X = (a * d + b * e) + c * f
    BY <2>1
  <2>3. Zero(a) /\ Zero(b) /\ Zero(c)
    BY <1>2, <2>1
  <2>4. Zero((a * d + b * e) + c * f)
    BY <2>3, ZeroCombined, Zenon
  <2> QED BY <2>2, <2>4, Zenon
<1> QED BY <1>1, <1>2

\* The candidate 2 u^2 z: its root is the power times u and a constant.
EvenRoot(A, u, v, w, X, r, e, z, x, f) ==
    /\ f * f = 1
    /\ Zero(v - 2 * (u * u)) /\ Zero(r * r * X - f * w) /\ Zero(e * e - f * (2 * (A * (A + 2))))
    /\ Zero(z + A * v) /\ Zero(x - r * e * u)

LEMMA EvenBranch ==
    ASSUME NEW A \in Int, NEW u \in Int, NEW v \in Int, NEW w \in Int, NEW X \in Int, NEW r \in Int,
           NEW e \in Int, NEW z \in Int, NEW x \in Int, NEW f \in Int,
           EvenRoot(A, u, v, w, X, r, e, z, x, f)
    PROVE  Zero((x * x) * X + (A + 2) * (z * w))
<1> USE DEF EvenRoot
<1>0. PICK o \in Int : o = 0 /\ Zero(o)
  BY OneNotZero
<1>1. PICK y \in Int, c \in Int : y = r * e * u /\ c = A * (A + 2)
  OBVIOUS
<1>2. PICK a1 \in Int, a2 \in Int, a3 \in Int, a4 \in Int, a5 \in Int :
          /\ a1 = x - y /\ a2 = r * r * X - f * w /\ a3 = e * e - f * (2 * c)
          /\ a4 = z + A * v /\ a5 = v - 2 * (u * u)
          /\ Zero(a1) /\ Zero(a2) /\ Zero(a3) /\ Zero(a4) /\ Zero(a5)
  <2>1. /\ x - y \in Int /\ r * r * X - f * w \in Int /\ e * e - f * (2 * c) \in Int
        /\ z + A * v \in Int /\ v - 2 * (u * u) \in Int
    OBVIOUS
  <2> QED BY <1>1, <2>1
<1>3. PICK p1 \in Int, p2 \in Int, p3 \in Int, p4 \in Int, p5 \in Int :
          /\ p1 = (x + y) * X /\ p2 = (e * e) * (u * u) /\ p3 = f * w * (u * u)
          /\ p4 = (A + 2) * w /\ p5 = -(c * w)
  OBVIOUS
<1>4. (x * x) * X + (A + 2) * (z * w)
          = ((a1 * p1 + a2 * p2) + a3 * p3) + ((a4 * p4 + a5 * p5) + o * o)
  <2>1. (x * x) * X = a1 * p1 + (y * y) * X
    BY <1>2, <1>3
  <2>2. (y * y) * X = (r * r * X) * p2
    BY <1>1, <1>3
  <2>3. (r * r * X) * p2 = a2 * p2 + (f * w) * p2
    BY <1>2
  <2>4. (f * w) * p2 = a3 * p3 + (f * (2 * c)) * p3
    BY <1>2, <1>3
  <2>5. (f * (2 * c)) * p3 = (f * f) * ((2 * c) * (w * (u * u)))
    BY <1>3
  <2>6. (2 * c) * (w * (u * u)) + (A + 2) * (z * w) = a4 * p4 + a5 * p5
    BY <1>1, <1>2, <1>3
  <2>7. (f * f) * ((2 * c) * (w * (u * u))) = (2 * c) * (w * (u * u))
    OBVIOUS
  <2>8. PICK t1 \in Int, t2 \in Int, t3 \in Int, t4 \in Int, t5 \in Int :
            /\ t1 = (y * y) * X /\ t2 = (r * r * X) * p2 /\ t3 = (f * w) * p2
            /\ t4 = (f * (2 * c)) * p3 /\ t5 = (2 * c) * (w * (u * u))
    OBVIOUS
  <2>9. PICK b1 \in Int, b2 \in Int, b3 \in Int, b4 \in Int, b5 \in Int, l \in Int, k \in Int :
            /\ b1 = a1 * p1 /\ b2 = a2 * p2 /\ b3 = a3 * p3 /\ b4 = a4 * p4 /\ b5 = a5 * p5
            /\ l = (x * x) * X /\ k = (A + 2) * (z * w)
    OBVIOUS
  <2>10. l = b1 + t1 /\ t1 = t2 /\ t2 = b2 + t3 /\ t3 = b3 + t4 /\ t4 = t5 /\ t5 + k = b4 + b5
    BY <2>1, <2>2, <2>3, <2>4, <2>5, <2>6, <2>7, <2>8, <2>9, Zenon
  <2>11. l + k = ((b1 + b2) + b3) + ((b4 + b5) + o * o)
    BY <1>0, <2>10
  <2> QED BY <2>9, <2>11, Zenon
<1>5. Zero((a1 * p1 + a2 * p2) + a3 * p3) /\ Zero((a4 * p4 + a5 * p5) + o * o)
  BY <1>0, <1>2, ZeroCombined, Zenon
<1>6. Zero(((a1 * p1 + a2 * p2) + a3 * p3) + ((a4 * p4 + a5 * p5) + o * o))
  <2>1. (a1 * p1 + a2 * p2) + a3 * p3 \in Int /\ (a4 * p4 + a5 * p5) + o * o \in Int
    OBVIOUS
  <2> QED BY <1>5, <2>1, ZeroSum
<1> QED BY <1>4, <1>6, Zenon

\* The candidate z itself.
LEMMA OddBranch ==
    ASSUME NEW A \in Int, NEW w \in Int, NEW X \in Int, NEW r \in Int,
           NEW e \in Int, NEW z \in Int, NEW x \in Int, NEW g \in Int, NEW h \in Int, Zero(g * h - 1),
           Zero(r * r * X - g * w), Zero(e * e - h * (A * (A + 2))),
           Zero(z + A), Zero(x - r * e)
    PROVE  Zero((x * x) * X + (A + 2) * (z * w))
<1>0. PICK o \in Int : o = 0 /\ Zero(o)
  BY OneNotZero
<1>1. PICK y \in Int, c \in Int : y = r * e /\ c = A * (A + 2)
  OBVIOUS
<1>2. PICK a1 \in Int, a2 \in Int, a3 \in Int, a4 \in Int, a5 \in Int :
          /\ a1 = x - y /\ a2 = r * r * X - g * w /\ a3 = e * e - h * c
          /\ a4 = z + A /\ a5 = g * h - 1
          /\ Zero(a1) /\ Zero(a2) /\ Zero(a3) /\ Zero(a4) /\ Zero(a5)
  <2>1. /\ x - y \in Int /\ r * r * X - g * w \in Int /\ e * e - h * c \in Int
        /\ z + A \in Int /\ g * h - 1 \in Int
    OBVIOUS
  <2> QED BY <1>1, <2>1
<1>3. PICK p1 \in Int, p2 \in Int, p3 \in Int, p4 \in Int, p5 \in Int :
          /\ p1 = (x + y) * X /\ p2 = e * e /\ p3 = g * w /\ p4 = (A + 2) * w /\ p5 = w * c
  OBVIOUS
<1>4. (x * x) * X + (A + 2) * (z * w)
          = ((a1 * p1 + a2 * p2) + a3 * p3) + ((a4 * p4 + a5 * p5) + o * o)
  <2>1. (x * x) * X = a1 * p1 + (y * y) * X
    BY <1>2, <1>3
  <2>2. (y * y) * X = a2 * p2 + (g * w) * p2
    BY <1>1, <1>2, <1>3
  <2>3. (g * w) * p2 = a3 * p3 + (h * c) * p3
    BY <1>2, <1>3
  <2>4. (h * c) * p3 + (A + 2) * (z * w) = a4 * p4 + a5 * p5
    BY <1>1, <1>2, <1>3
  <2> QED BY <1>0, <2>1, <2>2, <2>3, <2>4
<1>5. Zero((a1 * p1 + a2 * p2) + a3 * p3) /\ Zero((a4 * p4 + a5 * p5) + o * o)
  BY <1>0, <1>2, ZeroCombined, Zenon
<1>6. Zero(((a1 * p1 + a2 * p2) + a3 * p3) + ((a4 * p4 + a5 * p5) + o * o))
  <2>1. (a1 * p1 + a2 * p2) + a3 * p3 \in Int /\ (a4 * p4 + a5 * p5) + o * o \in Int
    OBVIOUS
  <2> QED BY <1>5, <2>1, ZeroSum
<1> QED BY <1>4, <1>6, Zenon

\* The denominators of the two candidates never vanish: 2 is not a square.
LEMMA MapDenominators ==
    ASSUME NEW A \in Int, NEW u \in Int, NEW v \in Int, NEW w \in Int, NEW X \in Int,
           A = MontgomeryA, Zero(v - 2 * (u * u)), Zero(w - (v + 1)),
           Zero(X - (w * w - (A * A) * v))
    PROVE  ~Zero(w) /\ ~Zero(X)
<1>1. PICK U \in Int, B \in Int, W \in Int, a \in Int, b \in Int, c \in Int :
          /\ U = u * u /\ B = A * A /\ W = w * w
          /\ a = v - 2 * U /\ b = w - (v + 1) /\ c = X - (W - B * v)
          /\ Zero(a) /\ Zero(b) /\ Zero(c)
  <2>1. u * u \in Int /\ A * A \in Int /\ w * w \in Int
        /\ v - 2 * (u * u) \in Int /\ w - (v + 1) \in Int /\ X - (w * w - (A * A) * v) \in Int
    OBVIOUS
  <2> QED BY <2>1
<1>2. ~IsSquare(2) /\ ~Zero(A) /\ 2 \in Int
  BY NonSquares
<1>3. Zero(u) => Zero(v)
  <2>1. v = a + u * (2 * u) /\ 2 * u \in Int /\ u * (2 * u) \in Int
    BY <1>1
  <2> QED BY <1>1, <2>1, ZeroSum, ZeroTimes
<1>4. ~Zero(w)
  <2> SUFFICES ASSUME Zero(w) PROVE FALSE
    OBVIOUS
  <2>1. ~Zero(u)
    <3>1. 1 = (w - b) - v /\ w - b \in Int
      BY <1>1
    <3> QED BY <1>1, <1>3, <3>1, OneNotZero, ZeroSum
  <2>2. PICK i \in Int, j \in Int : j = i * i + 1 /\ Zero(j)
    <3>1. PICK i \in Int : Zero(i * i + 1)
      BY MapConstants
    <3>2. i * i + 1 \in Int
      OBVIOUS
    <3> QED BY <3>1, <3>2
  <2>3. i * i - 2 * (u * u) = (j + a) + (b - w) /\ j + a \in Int /\ b - w \in Int
    BY <1>1, <2>2
  <2>4. Zero(i * i - 2 * (u * u))
    BY <1>1, <2>2, <2>3, ZeroSum
  <2> QED BY <1>2, <2>1, <2>4, SquareQuotient
<1>5. ~Zero(X)
  <2> SUFFICES ASSUME Zero(X) PROVE FALSE
    OBVIOUS
  <2>1. ~Zero(u)
    <3> SUFFICES ASSUME Zero(u) PROVE FALSE
      OBVIOUS
    <3>1. W = (X - c) + v * B /\ X - c \in Int /\ v * B \in Int
      BY <1>1
    <3>2. Zero(w * w)
      BY <1>1, <1>3, <3>1, ZeroSum, ZeroTimes
    <3> QED BY <1>4, <3>2, ZeroProduct
  <2>2. PICK s \in Int : s = A * u /\ ~Zero(s)
    <3>1. A * u \in Int
      OBVIOUS
    <3> QED BY <1>2, <2>1, <3>1, ZeroProduct
  <2>3. s * s = B * U
    BY <1>1, <2>2
  <2>4. W - 2 * (B * U) = (X - c) + a * B /\ X - c \in Int /\ a * B \in Int
    BY <1>1
  <2>5. Zero(W - 2 * (B * U))
    <3>1. Zero(a * B) /\ Zero(X - c)
      BY <1>1, <2>4, ZeroSum, ZeroTimes
    <3>2. Zero((X - c) + a * B)
      BY <2>4, <3>1, ZeroSum
    <3> QED BY <2>4, <3>2, Zenon
  <2>6. Zero(w * w - 2 * (s * s))
    BY <1>1, <2>3, <2>5
  <2> QED BY <1>2, <2>2, <2>6, SquareQuotient
<1> QED BY <1>4, <1>5

\* What each branch leaves: its root satisfies the equation of the curve, and
\* its sign tells which candidate it took.
BranchOutcome(u, x, z, w, v, X) ==
    LET A == MontgomeryA
        b == Branches(u)
    IN  /\ b.x = x /\ b.z = z /\ w = (2 * u * u + 1) % Field
        /\ ~Zero(w) /\ ~Zero(X)
        /\ Zero(w - (v + 1)) /\ Zero(X - (w * w - (A * A) * v))
        /\ Zero((x * x) * X + (A + 2) * (z * w))
        /\ \/ b.sign = 1 /\ Zero(z + A)
           \/ /\ b.sign = 0 /\ Zero(z + A * v)
              /\ \E r \in Int, f \in Int : f * f = 1 /\ Zero(r * r * X - f * w)

LEMMA BranchFacts ==
    ASSUME NEW u \in Elements
    PROVE  \E x, z, w \in Elements, v, X \in Int : BranchOutcome(u, x, z, w, v, X)
<1>1. PICK A \in Int, i \in Int, ma \in Elements, ma2 \in Int,
           e1 \in Int, e2 \in Int, e3 \in Int, e4 \in Int :
          /\ A = MontgomeryA /\ i = fe_sqrtm1 /\ ma = fe_ma /\ ma2 = fe_ma2
          /\ e1 = fe_fffb1 /\ e2 = fe_fffb2 /\ e3 = fe_fffb3 /\ e4 = fe_fffb4
          /\ Zero(i * i + 1) /\ Zero(ma + A) /\ Zero(ma2 + A * A)
          /\ Zero(e1 * e1 + 2 * (A * (A + 2))) /\ Zero(e2 * e2 - 2 * (A * (A + 2)))
          /\ Zero(e3 * e3 + i * (A * (A + 2))) /\ Zero(e4 * e4 - i * (A * (A + 2)))
  BY MapConstants
<1>2. u \in Int /\ ma \in Int
  BY FieldFacts
<1>3. PICK v \in Elements : v = 2 * u * u % Field /\ v \in Int /\ Zero(v - 2 * (u * u))
  <2>1. 2 * u * u \in Int /\ 2 * u * u = 2 * (u * u)
    BY <1>2
  <2> QED BY <2>1, ZeroRemainder
<1>4. PICK w \in Elements : w = (v + 1) % Field /\ w \in Int /\ Zero(w - (v + 1))
  <2>1. v + 1 \in Int
    BY <1>3
  <2> QED BY <2>1, ZeroRemainder
<1>5. w = (2 * u * u + 1) % Field
  <2>1. /\ (v + 1) - (2 * u * u + 1) = v - 2 * (u * u) /\ v + 1 \in Int /\ 2 * u * u + 1 \in Int
    BY <1>2, <1>3
  <2>2. PICK a \in Int, b \in Int : a = v + 1 /\ b = 2 * u * u + 1
    BY <2>1
  <2>3. Zero(a - b)
    BY <1>3, <2>1, <2>2
  <2>4. a % Field = b % Field
    BY <2>3, ZeroDifference
  <2> QED BY <1>4, <2>2, <2>4
<1>6. PICK X \in Elements : /\ X = (w * w + ma2 * v) % Field /\ X \in Int
                            /\ Zero(X - (w * w - (A * A) * v))
  <2>1. PICK t \in Int, B \in Int, W \in Int : t = w * w + ma2 * v /\ B = A * A /\ W = w * w
    BY <1>3, <1>4
  <2>2. PICK m \in Elements : m = t % Field /\ m \in Int /\ Zero(m - t)
    BY ZeroRemainder
  <2>3. /\ m - (W - B * v) = (m - t) + (ma2 + B) * v
        /\ m - t \in Int /\ ma2 + B \in Int /\ (ma2 + B) * v \in Int
    BY <1>3, <2>1, <2>2
  <2>4. Zero((ma2 + B) * v)
    BY <1>1, <1>3, <2>1, <2>3, ZeroTimes
  <2>5. Zero((m - t) + (ma2 + B) * v)
    BY <2>2, <2>3, <2>4, ZeroSum
  <2> QED BY <2>1, <2>2, <2>3, <2>5
<1>7. ~Zero(w) /\ ~Zero(X)
  <2>1. /\ A \in Int /\ u \in Int /\ v \in Int /\ w \in Int /\ X \in Int /\ A = MontgomeryA
        /\ Zero(v - 2 * (u * u)) /\ Zero(w - (v + 1)) /\ Zero(X - (w * w - (A * A) * v))
    BY <1>1, <1>2, <1>3, <1>4, <1>6, Zenon
  <2> QED BY <2>1, MapDenominators, Zenon
<1>8. PICK r \in Elements, c \in Int :
          r = DivPowM1(w, X) /\ Zero(r * r * X - w * c) /\ Zero((c * c) * (c * c) - 1)
  BY <1>7, DivPowM1Facts
<1>9. r \in Int
  BY FieldFacts
<1>10. PICK q \in Elements : /\ q = (r * r % Field) * X % Field /\ q \in Int
                             /\ Zero(q - r * r * X)
  <2>1. PICK m \in Int : m = r * r % Field /\ Zero(m - r * r)
    BY <1>9, ZeroSelf, ProductRemainder
  <2>2. r * r \in Int
    BY <1>9
  <2> QED BY <1>6, <2>1, <2>2, ZeroSelf, ProductRemainder
<1>11. Branches(u) =
          IF q = w THEN [x |-> (r * e2 % Field) * u % Field, z |-> ma * v % Field, sign |-> 0]
          ELSE IF q = (-w) % Field
          THEN [x |-> (r * e1 % Field) * u % Field, z |-> ma * v % Field, sign |-> 0]
          ELSE [x |-> r * (IF q * i % Field = w THEN e4 ELSE e3) % Field, z |-> ma, sign |-> 1]
  BY <1>1, <1>3, <1>4, <1>6, <1>8, <1>10, Zenon DEF Branches
<1> DEFINE Equation(x, z) == Zero((x * x) * X + (A + 2) * (z * w))
\* The two candidates.
<1>12. PICK z0 \in Elements : z0 = ma * v % Field /\ z0 \in Int /\ Zero(z0 + A * v)
  <2>1. PICK z \in Elements : z = ma * v % Field /\ z \in Int /\ Zero(z - (-A) * v)
    <3>1. PICK n \in Int : n = -A
      OBVIOUS
    <3>2. ma - n = ma + A
      BY <1>2, <3>1
    <3> QED BY <1>1, <1>2, <1>3, <3>1, <3>2, ZeroSelf, ProductRemainder
  <2>2. z - (-A) * v = z + A * v
    BY <1>3, <2>1
  <2> QED BY <2>1, <2>2
<1>13. ASSUME NEW f \in Int, f * f = 1, Zero(r * r * X - f * w),
              NEW e \in Int, Zero(e * e - f * (2 * (A * (A + 2))))
       PROVE  \E x \in Elements : x = (r * e % Field) * u % Field /\ Equation(x, z0)
  <2>1. PICK m \in Int : m = r * e % Field /\ Zero(m - r * e)
    BY <1>9, ZeroSelf, ProductRemainder
  <2>2. r * e \in Int
    BY <1>9
  <2>3. PICK x \in Elements : x = m * u % Field /\ x \in Int /\ Zero(x - r * e * u)
    BY <1>2, <2>1, <2>2, ZeroSelf, ProductRemainder
  <2>4. Equation(x, z0)
    <3>1. /\ A \in Int /\ u \in Int /\ v \in Int /\ w \in Int /\ X \in Int /\ r \in Int
          /\ z0 \in Int /\ x \in Int /\ Zero(v - 2 * (u * u)) /\ Zero(z0 + A * v)
      BY <1>1, <1>2, <1>3, <1>4, <1>6, <1>9, <1>12, <2>3, Zenon
    <3>2. Zero((x * x) * X + (A + 2) * (z0 * w))
      <4>1. EvenRoot(A, u, v, w, X, r, e, z0, x, f)
        BY <1>13, <2>3, <3>1, Zenon DEF EvenRoot
      <4> QED BY <3>1, <4>1, EvenBranch, Zenon
    <3> QED BY <3>2
  <2> QED BY <2>1, <2>3, <2>4
<1>14. ASSUME NEW g \in Int, NEW h \in Int, Zero(g * h - 1), Zero(r * r * X - g * w),
              NEW e \in Int, Zero(e * e - h * (A * (A + 2)))
       PROVE  \E x \in Elements : x = r * e % Field /\ Equation(x, ma)
  <2>1. PICK x \in Elements : x = r * e % Field /\ x \in Int /\ Zero(x - r * e)
    BY <1>9, ZeroSelf, ProductRemainder
  <2>2. Equation(x, ma)
    BY <1>1, <1>2, <1>4, <1>6, <1>9, <1>14, <2>1, OddBranch, Zenon
  <2> QED BY <2>1, <2>2
<1> HIDE DEF Equation
<1>15. u \in Int /\ v \in Int /\ w \in Int /\ X \in Int /\ r \in Int /\ q \in Int
  BY <1>2, <1>3, <1>4, <1>6, <1>9, <1>10
<1>16. ASSUME NEW x \in Elements, NEW z \in Elements, NEW s, Equation(x, z),
              Branches(u) = [x |-> x, z |-> z, sign |-> s],
              \/ s = 1 /\ Zero(z + A)
              \/ /\ s = 0 /\ Zero(z + A * v)
                 /\ \E R \in Int, f \in Int : f * f = 1 /\ Zero(R * R * X - f * w)
       PROVE  BranchOutcome(u, x, z, w, v, X)
  <2>1. Branches(u).x = x /\ Branches(u).z = z /\ Branches(u).sign = s
    BY <1>16
  <2> QED BY <1>1, <1>4, <1>5, <1>6, <1>7, <1>16, <2>1, Zenon DEF BranchOutcome, Equation
<1>17. CASE q = w
  <2>1. Zero(r * r * X - 1 * w)
    <3>1. r * r * X \in Int
      BY <1>6, <1>9
    <3>2. r * r * X - 1 * w = -(q - r * r * X) /\ q - r * r * X \in Int
      BY <1>4, <1>10, <1>17, <3>1
    <3> QED BY <1>10, <3>2, ZeroTimes
  <2>2. e2 * e2 - 1 * (2 * (A * (A + 2))) = e2 * e2 - 2 * (A * (A + 2)) /\ 1 * 1 = 1
    OBVIOUS
  <2>3. PICK x \in Elements : x = (r * e2 % Field) * u % Field /\ Equation(x, z0)
    BY <1>1, <1>13, <2>1, <2>2
  <2>4. Branches(u) = [x |-> x, z |-> z0, sign |-> 0]
    BY <1>11, <1>12, <1>17, <2>3
  <2>5. 1 \in Int
    OBVIOUS
  <2>6. BranchOutcome(u, x, z0, w, v, X)
    BY <1>12, <1>15, <1>16, <2>1, <2>2, <2>3, <2>4, <2>5, Zenon
  <2> QED BY <1>15, <2>6, Zenon
<1>18. CASE q # w /\ q = (-w) % Field
  <2>1. Zero(r * r * X - (-1) * w)
    <3>1. r * r * X \in Int /\ -w \in Int
      BY <1>4, <1>6, <1>9
    <3>2. Zero(q - (-w)) /\ q - (-w) \in Int
      BY <1>4, <1>10, <1>18, <3>1, ZeroRemainder
    <3>3. r * r * X - (-1) * w = (q - (-w)) - (q - r * r * X) /\ q - r * r * X \in Int
      BY <1>4, <1>10, <3>1
    <3> QED BY <1>10, <3>2, <3>3, ZeroSum
  <2>2. /\ e1 * e1 - (-1) * (2 * (A * (A + 2))) = e1 * e1 + 2 * (A * (A + 2))
        /\ (-1) * (-1) = 1 /\ -1 \in Int
    OBVIOUS
  <2>3. PICK x \in Elements : x = (r * e1 % Field) * u % Field /\ Equation(x, z0)
    BY <1>1, <1>13, <2>1, <2>2
  <2>4. Branches(u) = [x |-> x, z |-> z0, sign |-> 0]
    BY <1>11, <1>12, <1>18, <2>3
  <2>5. BranchOutcome(u, x, z0, w, v, X)
    BY <1>12, <1>15, <1>16, <2>1, <2>2, <2>3, <2>4, Zenon
  <2> QED BY <1>15, <2>5, Zenon
<1>19. CASE q # w /\ q # (-w) % Field
  <2>1. PICK d \in Int, k \in Int : /\ d = r * r * X - w * c /\ k = q - r * r * X
                                    /\ Zero(d) /\ Zero(k) /\ d + k = q - w * c
    <3>1. PICK y \in Int : y = r * r * X
      BY <1>15
    <3>2. w * c \in Int
      BY <1>4
    <3>3. y - w * c \in Int /\ q - y \in Int /\ (y - w * c) + (q - y) = q - w * c
      BY <1>15, <3>2
    <3> QED BY <1>8, <1>10, <3>1, <3>3
  <2>2. ~Zero(c - 1)
    <3> SUFFICES ASSUME Zero(c - 1) PROVE FALSE
      OBVIOUS
    <3>1. /\ q - w = (d + k) + (c - 1) * w /\ d + k \in Int /\ c - 1 \in Int
          /\ (c - 1) * w \in Int /\ q - w \in Int
      BY <1>15, <2>1
    <3>2. Zero(q - w)
      BY <1>15, <2>1, <3>1, ZeroSum, ZeroTimes
    <3> QED BY <1>19, <3>2, ZeroOfElement
  <2>3. ~Zero(c + 1)
    <3> SUFFICES ASSUME Zero(c + 1) PROVE FALSE
      OBVIOUS
    <3>1. PICK n \in Elements : n = (-w) % Field /\ n \in Int /\ Zero(n - (-w)) /\ n - (-w) \in Int
      <4>1. -w \in Int
        BY <1>4
      <4>2. PICK n \in Elements : n = (-w) % Field /\ n \in Int /\ Zero(n - (-w))
        BY <4>1, ZeroRemainder
      <4> QED BY <4>1, <4>2
    <3>2. /\ q - n = ((d + k) + (c + 1) * w) - (n - (-w)) /\ d + k \in Int /\ c + 1 \in Int
          /\ (c + 1) * w \in Int /\ (d + k) + (c + 1) * w \in Int
      BY <1>15, <2>1, <3>1
    <3>3. Zero(q - n)
      BY <1>15, <2>1, <3>1, <3>2, ZeroSum, ZeroTimes
    <3> QED BY <1>19, <3>1, <3>3, ZeroOfElement
  <2>4. Zero(c - i) \/ Zero(c + i)
    BY <1>1, <1>8, <2>2, <2>3, FourthRoots
  <2>5. PICK j \in Int : j = i * i + 1 /\ Zero(j)
    BY <1>1
  <2>6. CASE q * i % Field = w
    <3>1. Zero(w - q * i) /\ q * i \in Int /\ w - q * i \in Int
      <4>1. q * i \in Int
        BY <1>15
      <4> QED BY <1>15, <2>6, <4>1, ZeroRemainder
    <3>2. Zero(r * r * X - (-i) * w)
      <4>1. /\ r * r * X = q - k
            /\ (q - k) - (-i) * w = (j * q + (w - q * i) * i) - k
            /\ j * q \in Int /\ (w - q * i) * i \in Int /\ j * q + (w - q * i) * i \in Int
        <5>1. r * r * X \in Int
          BY <1>15
        <5>2. r * r * X = q - k
          BY <1>15, <2>1, <5>1
        <5>3. (q - k) - (-i) * w = (j * q + (w - q * i) * i) - k
          BY <1>15, <2>5
        <5>4. j * q \in Int /\ (w - q * i) * i \in Int /\ j * q + (w - q * i) * i \in Int
          BY <1>15, <1>10
        <5> QED BY <5>2, <5>3, <5>4
      <4>2. Zero(j * q) /\ Zero((w - q * i) * i)
        BY <1>15, <2>5, <3>1, ZeroTimes
      <4>3. Zero((j * q + (w - q * i) * i) - k)
        BY <2>1, <4>1, <4>2, ZeroSum
      <4> QED BY <4>1, <4>3, Zenon
    <3>3. Zero((-i) * i - 1)
      <4>1. (-i) * i - 1 = -j
        BY <2>5
      <4> QED BY <2>5, <4>1, ZeroTimes
    <3>4. PICK x \in Elements : x = r * e4 % Field /\ Equation(x, ma)
      <4>1. -i \in Int
        OBVIOUS
      <4> QED BY <1>1, <1>14, <3>2, <3>3, <4>1
    <3>5. Branches(u) = [x |-> x, z |-> ma, sign |-> 1]
      BY <1>11, <1>19, <2>6, <3>4
    <3>6. BranchOutcome(u, x, ma, w, v, X)
      BY <1>1, <1>16, <3>4, <3>5, Zenon
    <3> QED BY <1>15, <3>6, Zenon
  <2>7. CASE q * i % Field # w
    <3>1. ~Zero(c + i)
      <4> SUFFICES ASSUME Zero(c + i) PROVE FALSE
        OBVIOUS
      <4>1. q * i \in Int
        BY <1>15
      <4>2. PICK n \in Elements : n = q * i % Field /\ n \in Int /\ Zero(n - q * i) /\ n - q * i \in Int
        BY <4>1, ZeroRemainder
      <4>3. n - w = ((n - q * i) + (d + k) * i) + ((c + i) * (w * i) - j * w)
        BY <1>15, <2>1, <2>5, <4>2
      <4>4. /\ d + k \in Int /\ (d + k) * i \in Int /\ (n - q * i) + (d + k) * i \in Int
            /\ c + i \in Int /\ w * i \in Int /\ (c + i) * (w * i) \in Int /\ j * w \in Int
            /\ (c + i) * (w * i) - j * w \in Int
        BY <1>15, <4>2
      <4>5. Zero((d + k) * i) /\ Zero((c + i) * (w * i)) /\ Zero(j * w)
        BY <1>15, <2>1, <2>5, <4>4, ZeroSum, ZeroTimes
      <4>6. Zero(((n - q * i) + (d + k) * i) + ((c + i) * (w * i) - j * w))
        BY <4>2, <4>4, <4>5, ZeroSum
      <4>7. Zero(n - w)
        BY <4>3, <4>6, Zenon
      <4> QED BY <2>7, <4>2, <4>7, ZeroOfElement
    <3>2. Zero(r * r * X - i * w)
      <4>1. r * r * X - i * w = d + (c - i) * w
        <5>1. PICK y \in Int : y = r * r * X
          BY <1>15
        <5> QED BY <1>15, <2>1, <5>1
      <4>2. c - i \in Int /\ (c - i) * w \in Int
        BY <1>4
      <4>3. Zero(d + (c - i) * w)
        BY <1>15, <2>1, <2>4, <3>1, <4>2, ZeroSum, ZeroTimes
      <4> QED BY <4>1, <4>3, Zenon
    <3>3. Zero(i * (-i) - 1)
      <4>1. i * (-i) - 1 = -j
        BY <2>5
      <4> QED BY <2>5, <4>1, ZeroTimes
    <3>4. PICK x \in Elements : x = r * e3 % Field /\ Equation(x, ma)
      <4>1. e3 * e3 - (-i) * (A * (A + 2)) = e3 * e3 + i * (A * (A + 2)) /\ -i \in Int
        OBVIOUS
      <4>2. Zero(e3 * e3 - (-i) * (A * (A + 2)))
        BY <1>1, <4>1, Zenon
      <4> QED BY <1>14, <3>2, <3>3, <4>1, <4>2
    <3>5. Branches(u) = [x |-> x, z |-> ma, sign |-> 1]
      BY <1>11, <1>19, <2>7, <3>4
    <3>6. BranchOutcome(u, x, ma, w, v, X)
      BY <1>1, <1>16, <3>4, <3>5, Zenon
    <3> QED BY <1>15, <3>6, Zenon
  <2> QED BY <2>6, <2>7
<1> QED BY <1>17, <1>18, <1>19

\* The denominator of y never vanishes: A - 2 is not a square.
LEMMA SumNotZero ==
    ASSUME NEW A \in Int, NEW w \in Int, NEW X \in Int, NEW z \in Int, NEW x \in Int,
           A = MontgomeryA, ~Zero(w), Zero((z * z + w * w + A * (z * w)) - X),
           Zero((x * x) * X + (A + 2) * (z * w))
    PROVE  ~Zero(z + w)
<1> SUFFICES ASSUME Zero(z + w) PROVE FALSE
  OBVIOUS
<1>1. PICK W \in Int, S \in Int, Q \in Int, d \in Int, k \in Int, p \in Int :
          /\ W = w * w /\ S = z * z + W + A * (z * w) /\ Q = x * x
          /\ d = z + w /\ k = S - X /\ p = Q * X + (A + 2) * (z * w)
          /\ Zero(d) /\ Zero(k) /\ Zero(p)
  OBVIOUS
<1>2. PICK T \in Int : T = Q * (2 - A) - (A + 2)
  OBVIOUS
<1>3. Zero(T)
  <2>1. PICK l \in Int, o \in Int : l = z - w + A * w /\ o = -(Q * l + (A + 2) * w)
    OBVIOUS
  <2>2. W * T = (d * o + k * Q) + p * 1
    <3>1. S = d * l + (2 - A) * W
      BY <1>1, <2>1
    <3>2. z * w = d * w - W
      BY <1>1
    <3>3. X = d * l + (2 - A) * W - k
      BY <1>1, <3>1
    <3>4. p = Q * (d * l + (2 - A) * W - k) + (A + 2) * (d * w - W)
      BY <1>1, <3>2, <3>3
    <3> QED BY <1>2, <2>1, <3>4
  <2>3. Zero((d * o + k * Q) + p * 1)
    <3>1. 1 \in Int
      OBVIOUS
    <3> QED BY <1>1, <3>1, ZeroCombined, Zenon
  <2>4. Zero(W * T)
    BY <2>2, <2>3, Zenon
  <2>5. ~Zero(W)
    BY <1>1, ZeroProduct
  <2> QED BY <2>4, <2>5, ZeroProduct
<1>4. ~IsSquare(A - 2) /\ ~Zero(A + 2)
  BY CurveAssumption, NonSquares
<1>5. ~Zero(x)
  <2> SUFFICES ASSUME Zero(x) PROVE FALSE
    OBVIOUS
  <2>1. A + 2 = x * (x * (2 - A)) - T /\ x * (2 - A) \in Int /\ x * (x * (2 - A)) \in Int
    BY <1>1, <1>2
  <2>2. Zero(x * (x * (2 - A)))
    BY <2>1, ZeroTimes
  <2>3. Zero(x * (x * (2 - A)) - T)
    BY <1>3, <2>1, <2>2, ZeroSum
  <2> QED BY <1>4, <2>1, <2>3, Zenon
<1>6. PICK i \in Int, j \in Int : j = i * i + 1 /\ Zero(j)
  <2>1. PICK i \in Int : Zero(i * i + 1)
    BY MapConstants
  <2>2. i * i + 1 \in Int
    OBVIOUS
  <2> QED BY <2>1, <2>2
<1>7. PICK c \in Int, n \in Int : n = c * c - (A + 2) /\ Zero(n)
  <2>1. IsSquare(A + 2) /\ A + 2 \in Int
    BY CurveAssumption
  <2>2. PICK c \in Elements : Zero(c * c - (A + 2))
    BY <2>1, SquareForm
  <2> QED BY <2>2, FieldFacts
<1>8. PICK r \in Int, a \in Int : r = i * c /\ a = A - 2
  OBVIOUS
<1>9. r * r - a * (x * x) = (j * (c * c) + T * 1) + n * (-1)
  <2>1. r * r = j * (c * c) - (n + (A + 2))
    BY <1>6, <1>7, <1>8
  <2> QED BY <1>1, <1>2, <1>8, <2>1
<1>10. Zero((j * (c * c) + T * 1) + n * (-1))
  <2>1. c * c \in Int /\ 1 \in Int /\ -1 \in Int
    OBVIOUS
  <2> QED BY <1>3, <1>6, <1>7, <2>1, ZeroCombined
<1>11. Zero(r * r - a * (x * x))
  BY <1>9, <1>10, Zenon
<1> QED BY <1>4, <1>5, <1>8, <1>11, SquareQuotient

\* The root and the y of a candidate are on the curve.
LEMMA OnCurve ==
    ASSUME NEW A \in Int, NEW D \in Int, NEW w \in Int, NEW X \in Int, NEW z \in Int,
           NEW x \in Int, NEW y \in Int, ~Zero(A + 2), ~Zero(z + w),
           Zero(D * (A + 2) + (A - 2)), Zero((z * z + w * w + A * (z * w)) - X),
           Zero((x * x) * X + (A + 2) * (z * w)), Zero(y * (z + w) - (z - w))
    PROVE  Zero((y * y - x * x) - (1 + (D * (x * x)) * (y * y)))
<1>1. PICK s \in Int, m \in Int, S \in Int, Q \in Int, Y \in Int, B \in Int, R \in Int, V \in Int :
          /\ s = z + w /\ m = z - w /\ S = z * z + w * w + A * (z * w)
          /\ Q = x * x /\ Y = y * y /\ B = A + 2 /\ R = s * s /\ V = z * w
  OBVIOUS
<1>2. PICK k \in Int, h \in Int, p \in Int, e \in Int :
          /\ k = D * B + (A - 2) /\ h = S - X /\ p = Q * X + B * V /\ e = y * s - m
          /\ Zero(k) /\ Zero(h) /\ Zero(p) /\ Zero(e)
  <2>1. D * B + (A - 2) \in Int /\ S - X \in Int /\ Q * X + B * V \in Int /\ y * s - m \in Int
    OBVIOUS
  <2> QED BY <1>1, <2>1
<1>3. PICK M \in Int, G \in Int, F \in Int :
          M = m * m /\ G = y * s + m /\ F = (Y - Q) - (1 + (D * Q) * Y)
  OBVIOUS
<1>4. Y * R = M + e * G
  <2>1. Y * R = (y * s) * (y * s)
    BY <1>1
  <2> QED BY <1>2, <1>3, <2>1
<1>5. M - R = -4 * V /\ B * R - (A - 2) * M = 4 * S
  BY <1>1, <1>3
<1>6. (B * R) * F = B * (Y * R - R - Q * R) - ((D * B) * Q) * (Y * R)
  BY <1>3
<1>7. PICK N \in Int : N = M + e * G
  OBVIOUS
<1>8. B * (N - R - Q * R) - ((k - (A - 2)) * Q) * N
          = B * (N - R) - Q * (B * R - (A - 2) * N) - (k * Q) * N
  OBVIOUS
<1>9. B * (N - R) - Q * (B * R - (A - 2) * N)
          = B * (M - R) - Q * (B * R - (A - 2) * M) + e * (G * (B + (A - 2) * Q))
  BY <1>7
<1>10. B * (-4 * V) - Q * (4 * S) = p * (-4) + h * (-4 * Q)
  BY <1>2
<1>11. PICK c1 \in Int, c2 \in Int, c3 \in Int, c4 \in Int, o \in Int :
           /\ c1 = -4 /\ c2 = -4 * Q /\ c3 = G * (B + (A - 2) * Q) /\ c4 = -(Q * N) /\ o = 0
  OBVIOUS
<1>12. (B * R) * F = ((p * c1 + h * c2) + e * c3) + ((k * c4 + k * o) + k * o)
  <2>1. D * B = k - (A - 2)
    BY <1>2
  <2>2. (B * R) * F = B * (N - R - Q * R) - ((k - (A - 2)) * Q) * N
    BY <1>4, <1>6, <1>7, <2>1, Zenon
  <2>3. (k * Q) * N = -(k * c4) /\ k * o = 0
    BY <1>11
  <2>4. B * (M - R) - Q * (B * R - (A - 2) * M) = p * c1 + h * c2
    BY <1>5, <1>10, <1>11, Zenon
  <2>5. PICK t1 \in Int, t2 \in Int, t3 \in Int, t4 \in Int, t5 \in Int, t6 \in Int :
            /\ t1 = (B * R) * F /\ t2 = B * (N - R) - Q * (B * R - (A - 2) * N)
            /\ t3 = p * c1 + h * c2 /\ t4 = e * c3 /\ t5 = k * c4 /\ t6 = k * o
    OBVIOUS
  <2>6. t1 = t2 - (k * Q) * N
    BY <1>8, <2>2, <2>5, Zenon
  <2>7. t2 = t3 + t4
    BY <1>9, <1>11, <2>4, <2>5, Zenon
  <2>8. t1 = (t3 + t4) + ((t5 + t6) + t6)
    BY <2>3, <2>5, <2>6, <2>7
  <2> QED BY <2>5, <2>8, Zenon
<1>13. Zero((p * c1 + h * c2) + e * c3) /\ Zero((k * c4 + k * o) + k * o)
  BY <1>2, ZeroCombined, Zenon
<1>14. Zero((B * R) * F)
  <2>1. (p * c1 + h * c2) + e * c3 \in Int /\ (k * c4 + k * o) + k * o \in Int
    OBVIOUS
  <2>2. Zero(((p * c1 + h * c2) + e * c3) + ((k * c4 + k * o) + k * o))
    BY <1>13, <2>1, ZeroSum
  <2> QED BY <1>12, <2>2, Zenon
<1>15. ~Zero(B * R) /\ B * R \in Int
  <2>1. ~Zero(R)
    BY <1>1, ZeroProduct
  <2> QED BY <1>1, <2>1, ZeroProduct
<1>16. Zero(F)
  BY <1>14, <1>15, ZeroProduct
<1> QED BY <1>1, <1>3, <1>16

\* The root with the sign that was asked for.
LEMMA SignedRoot ==
    ASSUME NEW x \in Elements, NEW sign \in {0, 1},
           NEW q \in Elements, NEW s \in Int,
           s = IF x % 2 # sign THEN Field - x ELSE x, Zero(q - s)
    PROVE  Zero(q * q - x * x) /\ (q # 0 => q % 2 = sign)
<1>1. x \in 0..(Field - 1) /\ Field \in Nat /\ Field % 2 = 1 /\ q \in Int /\ x \in Int
  <2>1. PICK k \in Nat : Field = 8 * k + 5
    BY ExponentFacts
  <2> QED BY <2>1, FieldFacts
<1>2. s = Field - x \/ s = x
  OBVIOUS
<1>3. q = s \/ (q = 0 /\ x = 0)
  <2>1. CASE s \in Elements
    BY <2>1, ZeroOfElement
  <2>2. CASE s \notin Elements
    <3>1. x = 0 /\ s = Field
      BY <1>1, <1>2, <2>2, FieldFacts
    <3>2. q = (q - s) + 1 * Field /\ q - s \in Int /\ 1 * Field \in Int /\ 1 \in Int
      BY <1>1, <3>1
    <3>3. Zero(1 * Field)
      BY <3>2, ZeroForm, Zenon
    <3>4. Zero(q)
      BY <3>2, <3>3, ZeroSum
    <3>5. q - 0 = q
      BY <1>1
    <3>6. q = 0
      BY <3>4, <3>5, OneNotZero, ZeroOfElement
    <3> QED BY <3>1, <3>6
  <2> QED BY <2>1, <2>2
<1>4. q # 0 => q % 2 = sign
  BY <1>1, <1>3
<1>5. Zero(q * q - x * x)
  <2>1. CASE q = s
    <3>1. PICK k \in Int, f \in Int : f = Field /\ q * q - x * x = k * f
      <4>1. CASE s = x
        <5>1. q * q - x * x = 0 * Field
          BY <1>1, <2>1, <4>1
        <5> QED BY <1>1, <5>1
      <4>2. CASE s = Field - x
        <5>1. q * q - x * x = (Field - 2 * x) * Field /\ Field - 2 * x \in Int /\ Field \in Int
          BY <1>1, <2>1, <4>2
        <5> QED BY <5>1, Zenon
      <4> QED BY <1>2, <4>1, <4>2
    <3>2. q * q - x * x \in Int
      BY <1>1
    <3> QED BY <3>1, <3>2, ZeroForm, Zenon
  <2>2. CASE q = 0 /\ x = 0
    BY <2>2, OneNotZero
  <2> QED BY <1>3, <2>1, <2>2
<1> QED BY <1>4, <1>5

\* The point of a digest: on the curve, with the y of its candidate and the
\* parity of its sign.
LEMMA ProjectiveFacts ==
    ASSUME NEW bytes \in Bytes32, NEW u \in Elements, u = Scalar(bytes) % Field
    PROVE  \E x, z, w \in Elements, v, X \in Int, px, py \in Elements :
              LET p == Projective(bytes)
              IN  /\ BranchOutcome(u, x, z, w, v, X)
                  /\ p.z # 0 /\ px = p.x * Inv[p.z] % Field /\ py = p.y * Inv[p.z] % Field
                  /\ Point(px, py) \in Points
                  /\ ~Zero(z + w) /\ Zero(py * (z + w) - (z - w))
                  /\ px # 0 => px % 2 = Branches(u).sign
<1>1. PICK x \in Elements, z \in Elements, w \in Elements, v \in Int, X \in Int :
          BranchOutcome(u, x, z, w, v, X)
  BY BranchFacts
<1>2. PICK A \in Int : A = MontgomeryA
  BY FieldFacts
<1>3. /\ Branches(u).x = x /\ Branches(u).z = z /\ w = (2 * u * u + 1) % Field
      /\ Branches(u).sign \in {0, 1} /\ ~Zero(w)
      /\ Zero(w - (v + 1)) /\ Zero(X - (w * w - (A * A) * v))
      /\ Zero((x * x) * X + (A + 2) * (z * w)) /\ (Zero(z + A * v) \/ Zero(z + A))
  BY <1>1, <1>2, Zenon DEF BranchOutcome
<1>4. x \in Int /\ z \in Int /\ w \in Int
  BY FieldFacts
<1>5. Zero((z * z + w * w + A * (z * w)) - X)
  <2>1. /\ z \in Int /\ w \in Int /\ Zero(w - (v + 1)) /\ Zero(X - (w * w - (A * A) * v))
        /\ Zero(z + A * v) \/ Zero(z + A)
    BY <1>3, <1>4, Zenon
  <2> QED BY <2>1, SameDenominator
<1>6. ~Zero(z + w)
  <2>1. /\ z \in Int /\ w \in Int /\ x \in Int /\ A = MontgomeryA /\ ~Zero(w)
        /\ Zero((z * z + w * w + A * (z * w)) - X) /\ Zero((x * x) * X + (A + 2) * (z * w))
    BY <1>2, <1>3, <1>4, <1>5, Zenon
  <2> QED BY <2>1, SumNotZero
<1>7. PICK s \in Int : s = IF x % 2 # Branches(u).sign THEN Field - x ELSE x
  <2>1. Field - x \in Int
    BY <1>4, FieldFacts
  <2>2. CASE x % 2 # Branches(u).sign
    BY <2>1, <2>2, Zenon
  <2>3. CASE x % 2 = Branches(u).sign
    BY <1>4, <2>3, Zenon
  <2> QED BY <2>2, <2>3
<1>8. PICK m \in Int, d \in Int : m = z + w /\ d = z - w
  BY <1>4
<1>9. PICK zz \in Elements : zz = m % Field /\ zz \in Int /\ Zero(zz - m)
  BY ZeroRemainder
<1>10. PICK yy \in Elements : yy = d % Field /\ yy \in Int /\ Zero(yy - d)
  BY ZeroRemainder
<1>11. PICK xz \in Elements : xz = s * zz % Field /\ xz \in Int /\ Zero(xz - s * m)
  BY <1>9, ZeroSelf, ProductRemainder
<1>12. Projective(bytes) = [x |-> xz, y |-> yy, z |-> zz]
  <2>1. Number(reverse32(bytes)) % Field = u
    BY DEF Scalar
  <2> QED BY <1>3, <1>7, <1>8, <1>9, <1>10, <1>11, <2>1, Zenon DEF Projective
<1>13. ~Zero(m) /\ zz # 0 /\ zz = m % Field
  BY <1>6, <1>8, <1>9 DEF Zero
<1>14. PICK px \in Elements : /\ px = xz * Inv[zz] % Field /\ px \in Int /\ Zero(px * m - xz)
  <2>1. LET q == xz * Inv[m % Field] % Field IN q \in Elements /\ q \in Int /\ Zero(q * m - xz)
    BY <1>10, <1>11, <1>13, QuotientFacts, Zenon
  <2> QED BY <1>13, <2>1, Zenon
<1>15. PICK py \in Elements : /\ py = yy * Inv[zz] % Field /\ py \in Int /\ Zero(py * m - yy)
  <2>1. LET q == yy * Inv[m % Field] % Field IN q \in Elements /\ q \in Int /\ Zero(q * m - yy)
    BY <1>10, <1>11, <1>13, QuotientFacts, Zenon
  <2> QED BY <1>13, <2>1, Zenon
<1>16. Zero(px - s)
  <2>1. PICK k1 \in Int, k2 \in Int : k1 = px * m - xz /\ k2 = xz - s * m /\ Zero(k1) /\ Zero(k2)
    <3>1. px * m - xz \in Int /\ xz - s * m \in Int
      BY <1>11, <1>14
    <3> QED BY <1>11, <1>14, <3>1
  <2>2. m * (px - s) = k1 + k2 /\ px - s \in Int
    BY <1>11, <1>14, <2>1
  <2>3. Zero(k1 + k2)
    BY <2>1, ZeroSum
  <2>4. Zero(m * (px - s))
    BY <2>2, <2>3, Zenon
  <2> QED BY <1>13, <2>2, <2>4, ZeroProduct
<1>17. Zero(px * px - x * x) /\ (px # 0 => px % 2 = Branches(u).sign)
  <2>1. PICK g \in {0, 1} : g = Branches(u).sign
    BY <1>3
  <2>2. s = IF x % 2 # g THEN Field - x ELSE x
    BY <1>7, <2>1
  <2> QED BY <1>16, <2>1, <2>2, SignedRoot
<1>18. Zero(py * m - d)
  <2>1. PICK k1 \in Int, k2 \in Int : k1 = py * m - yy /\ k2 = yy - d /\ Zero(k1) /\ Zero(k2)
    <3>1. py * m - yy \in Int /\ yy - d \in Int
      BY <1>10, <1>15
    <3> QED BY <1>10, <1>15, <3>1
  <2>2. py * m - d = k1 + k2
    BY <1>10, <1>15, <2>1
  <2>3. Zero(k1 + k2)
    BY <2>1, ZeroSum
  <2> QED BY <2>2, <2>3, Zenon
<1>19. Zero((px * px) * X + (A + 2) * (z * w))
  <2>1. PICK P \in Int, Q \in Int, V \in Int : P = px * px /\ Q = x * x /\ V = (A + 2) * (z * w)
    BY <1>4, <1>14
  <2>2. PICK k \in Int, l \in Int : k = P - Q /\ l = Q * X + V /\ Zero(k) /\ Zero(l)
    <3>1. P - Q \in Int /\ Q * X + V \in Int
      OBVIOUS
    <3>2. Zero(P - Q) /\ Zero(Q * X + V)
      BY <1>3, <1>17, <2>1, Zenon
    <3> QED BY <3>1, <3>2
  <2>3. P * X + V = k * X + l /\ k * X \in Int
    BY <2>2
  <2>4. Zero(k * X + l)
    BY <2>2, <2>3, ZeroSum, ZeroTimes
  <2> QED BY <2>1, <2>3, <2>4, Zenon
<1>20. Point(px, py) \in Points
  <2>1. PICK D \in Int : D = EdwardsD /\ Zero(D * (A + 2) + (A - 2))
    BY <1>2, EdwardsForm
  <2>2. ~Zero(A + 2)
    BY <1>2, NonSquares
  <2>3. Zero(py * (z + w) - (z - w))
    BY <1>8, <1>18, Zenon
  <2>4. Zero((py * py - px * px) - (1 + (D * (px * px)) * (py * py)))
    BY <1>4, <1>5, <1>6, <1>14, <1>15, <1>19, <2>1, <2>2, <2>3, OnCurve
  <2> QED BY <2>1, <2>4, PointForm
<1>21. Zero(py * (z + w) - (z - w))
  BY <1>8, <1>18, Zenon
<1>22. /\ Projective(bytes).x = xz /\ Projective(bytes).y = yy /\ Projective(bytes).z = zz
  BY <1>12
<1>23. LET p == Projective(bytes)
       IN  /\ p.z # 0 /\ px = p.x * Inv[p.z] % Field /\ py = p.y * Inv[p.z] % Field
  BY <1>13, <1>14, <1>15, <1>22, Zenon
<1> QED BY <1>1, <1>6, <1>17, <1>20, <1>21, <1>23, Zenon

\* Being a square is a matter of the remainder.
LEMMA SquareRemainder ==
    ASSUME NEW a \in Int, NEW b \in Int, Zero(a - b)
    PROVE  IsSquare(a) <=> IsSquare(b)
<1>1. a % Field = b % Field
  BY ZeroDifference
<1> QED BY <1>1, Zenon DEF IsSquare

\* The other curve at the first candidate t: but for a square it is -A w X.
LEMMA MontgomeryForm ==
    ASSUME NEW A \in Int, NEW t \in Int, NEW w \in Int, NEW v \in Int, NEW X \in Int,
           Zero(t * w + A), Zero(w - (v + 1)), Zero(X - (w * w - (A * A) * v))
    PROVE  Zero(((w * w) * (w * w)) * (t * t * t + A * (t * t) + t) + (A * w) * X)
<1>1. PICK W \in Int, B \in Int, P \in Int, N \in Int, E \in Int :
          /\ W = w * w /\ B = A * A /\ P = t * w /\ N = t * t * t + A * (t * t) + t
          /\ E = (W * W) * N
  OBVIOUS
<1>2. PICK h \in Int, b \in Int, c \in Int :
          /\ h = P + A /\ b = w - (v + 1) /\ c = X - (W - B * v)
          /\ Zero(h) /\ Zero(b) /\ Zero(c)
  <2>1. P + A \in Int /\ w - (v + 1) \in Int /\ X - (W - B * v) \in Int
    OBVIOUS
  <2> QED BY <1>1, <2>1
<1>3. E = (w * P) * (P * P) + (A * W) * (P * P) + (w * W) * P
  <2>1. (W * W) * (t * t * t) = (w * P) * (P * P)
    BY <1>1
  <2>2. (W * W) * (A * (t * t)) = (A * W) * (P * P)
    BY <1>1
  <2>3. (W * W) * t = (w * W) * P
    BY <1>1
  <2>4. PICK a1 \in Int, a2 \in Int, a3 \in Int, S \in Int :
            a1 = t * t * t /\ a2 = A * (t * t) /\ a3 = t /\ S = W * W
    OBVIOUS
  <2>5. S * (a1 + a2 + a3) = S * a1 + S * a2 + S * a3
    OBVIOUS
  <2> QED BY <1>1, <2>1, <2>2, <2>3, <2>4, <2>5, Zenon
<1>4. PICK c1 \in Int, c2 \in Int, c3 \in Int :
          /\ c1 = w * (P * P - P * A + B) + (A * W) * (P - A) + w * W
          /\ c2 = (A * w) * B /\ c3 = A * w
  OBVIOUS
<1>5. E + (A * w) * X = (h * c1 + b * c2) + c * c3
  <2>1. P = h - A
    BY <1>2
  <2>2. E - h * c1 = B * (A * W) - B * (A * w) - A * (w * W)
    <3>1. (w * P) * (P * P) = h * (w * (P * P - P * A + B)) - (A * w) * B
      BY <1>1, <1>2
    <3>2. (A * W) * (P * P) = h * ((A * W) * (P - A)) + (A * W) * B
      BY <1>1, <1>2
    <3>3. (w * W) * P = h * (w * W) - A * (w * W)
      BY <1>2
    <3>4. PICK u1 \in Int, u2 \in Int, u3 \in Int :
              u1 = w * (P * P - P * A + B) /\ u2 = (A * W) * (P - A) /\ u3 = w * W
      OBVIOUS
    <3>5. h * c1 = h * u1 + h * u2 + h * u3
      BY <1>4, <3>4
    <3>6. PICK y1 \in Int, y2 \in Int, y3 \in Int, z1 \in Int, z2 \in Int, z3 \in Int :
              /\ y1 = h * u1 /\ y2 = h * u2 /\ y3 = h * u3
              /\ z1 = (A * w) * B /\ z2 = (A * W) * B /\ z3 = A * (w * W)
      OBVIOUS
    <3>7. E = (y1 - z1) + (y2 + z2) + (y3 - z3)
      BY <1>3, <3>1, <3>2, <3>3, <3>4, <3>6, Zenon
    <3>8. h * c1 = y1 + y2 + y3
      BY <3>5, <3>6, Zenon
    <3>9. z1 = B * (A * w) /\ z2 = B * (A * W)
      BY <3>6
    <3>10. PICK H \in Int, t2 \in Int, t1 \in Int : H = h * c1 /\ t2 = B * (A * W) /\ t1 = B * (A * w)
      OBVIOUS
    <3>11. E - H = t2 - t1 - z3
      BY <3>7, <3>8, <3>9, <3>10
    <3> QED BY <3>6, <3>10, <3>11, Zenon
  <2>3. (A * w) * X = b * c2 + c * c3 - (B * (A * W) - B * (A * w) - A * (w * W))
    <3>1. X = c + W - B * (w - 1 - b)
      BY <1>2
    <3>2. A * (w * W) = (A * w) * W /\ B * (A * W) = (A * w) * (B * w)
      BY <1>1
    <3> QED BY <1>4, <3>1, <3>2
  <2> QED BY <2>2, <2>3
<1>6. Zero((h * c1 + b * c2) + c * c3)
  BY <1>2, ZeroCombined, Zenon
<1>7. Zero(E + (A * w) * X)
  BY <1>5, <1>6, Zenon
<1> QED BY <1>1, <1>7, Zenon

\* The sign of a branch tells whether the first candidate is on the other curve.
LEMMA OddIsSquare ==
    ASSUME NEW A \in Int, NEW N \in Int, NEW w \in Int, NEW X \in Int, NEW z \in Int, NEW x \in Int,
           A = MontgomeryA, ~Zero(w), Zero(((w * w) * (w * w)) * N + (A * w) * X),
           Zero((x * x) * X + (A + 2) * (z * w)), Zero(z + A)
    PROVE  IsSquare(N)
<1>1. PICK i \in Int, j \in Int : j = i * i + 1 /\ Zero(j)
  <2>1. PICK i \in Int : Zero(i * i + 1)
    BY MapConstants
  <2>2. i * i + 1 \in Int
    OBVIOUS
  <2> QED BY <2>1, <2>2
<1>2. PICK c \in Int, n \in Int : n = c * c - (A + 2) /\ Zero(n)
  <2>1. IsSquare(A + 2) /\ A + 2 \in Int
    BY CurveAssumption
  <2>2. PICK c \in Elements : Zero(c * c - (A + 2))
    BY <2>1, SquareForm
  <2> QED BY <2>2, FieldFacts
<1>3. PICK W \in Int, S \in Int, Q \in Int, M \in Int, B \in Int, R \in Int :
          W = w * w /\ S = W * W /\ Q = x * x /\ M = (A * w) * X /\ B = A + 2 /\ R = x * X
  OBVIOUS
<1>4. PICK k \in Int, p \in Int, g \in Int :
          /\ k = S * N + M /\ p = Q * X + B * (z * w) /\ g = z + A
          /\ Zero(k) /\ Zero(p) /\ Zero(g)
  <2>1. S * N + M \in Int /\ Q * X + B * (z * w) \in Int /\ z + A \in Int
    OBVIOUS
  <2> QED BY <1>3, <2>1
\* (x X)^2 is (A + 2) A w X.
<1>5. R * R = p * X - g * ((B * w) * X) + B * M
  <2>1. R * R = (Q * X) * X
    BY <1>3
  <2>2. Q * X = p - B * ((g - A) * w)
    BY <1>4
  <2> QED BY <1>3, <2>1, <2>2
<1>6. PICK r \in Int, s \in Int : r = i * R /\ s = c * W
  OBVIOUS
<1>7. PICK c1 \in Int, c2 \in Int, c3 \in Int, c4 \in Int, c5 \in Int, o \in Int :
          /\ c1 = R * R /\ c2 = -X /\ c3 = (B * w) * X
          /\ c4 = -B /\ c5 = -(N * S) /\ o = 0
  OBVIOUS
<1>8. r * r - N * (s * s) = ((j * c1 + p * c2) + g * c3) + ((k * c4 + n * c5) + n * o)
  <2>0. PICK C \in Int, I \in Int, U \in Int : C = c * c /\ I = i * i /\ U = R * R
    OBVIOUS
  <2>1. r * r = I * U /\ s * s = C * S
    BY <1>3, <1>6, <2>0
  <2>2. I = j - 1 /\ C = n + B
    BY <1>1, <1>2, <1>3, <2>0
  <2>3. I * U = j * c1 - U
    BY <1>7, <2>0, <2>2
  <2>4. N * (C * S) = -(n * c5) + B * (S * N)
    BY <1>7, <2>2
  <2>5. B * (S * N) = -(k * c4) - B * M
    BY <1>4, <1>7
  <2>6. U = g * (-c3) - p * c2 + B * M
    BY <1>5, <1>7, <2>0
  <2>7. n * o = 0
    BY <1>7
  <2> QED BY <2>1, <2>3, <2>4, <2>5, <2>6, <2>7
<1>9. Zero((j * c1 + p * c2) + g * c3) /\ Zero((k * c4 + n * c5) + n * o)
  BY <1>1, <1>2, <1>4, ZeroCombined, Zenon
<1>10. Zero(r * r - N * (s * s))
  <2>1. (j * c1 + p * c2) + g * c3 \in Int /\ (k * c4 + n * c5) + n * o \in Int
    OBVIOUS
  <2>2. Zero(((j * c1 + p * c2) + g * c3) + ((k * c4 + n * c5) + n * o))
    BY <1>9, <2>1, ZeroSum
  <2> QED BY <1>8, <2>2, Zenon
<1>11. ~Zero(s)
  <2>1. ~Zero(c)
    <3> SUFFICES ASSUME Zero(c) PROVE FALSE
      OBVIOUS
    <3>1. A + 2 = c * c - n /\ c * c \in Int
      BY <1>2
    <3>2. Zero(c * c)
      BY ZeroTimes
    <3>3. Zero(c * c - n)
      BY <1>2, <3>1, <3>2, ZeroSum
    <3>4. ~Zero(A + 2)
      BY NonSquares
    <3> QED BY <3>1, <3>3, <3>4, Zenon
  <2>2. ~Zero(W)
    BY <1>3, ZeroProduct
  <2> QED BY <1>6, <2>1, <2>2, ZeroProduct
<1> QED BY <1>10, <1>11, SquareQuotient

\* In the other branches a root of it would make A a square.
LEMMA EvenIsNoSquare ==
    ASSUME NEW A \in Int, NEW N \in Int, NEW w \in Int, NEW X \in Int, NEW r \in Int, NEW f \in Int,
           A = MontgomeryA, ~Zero(w), ~Zero(X), Zero(((w * w) * (w * w)) * N + (A * w) * X),
           f * f = 1, Zero(r * r * X - f * w)
    PROVE  ~IsSquare(N)
<1> SUFFICES ASSUME IsSquare(N) PROVE FALSE
  OBVIOUS
<1>1. PICK n \in Int, l \in Int : l = n * n - N /\ Zero(l)
  <2>1. PICK n \in Elements : Zero(n * n - N)
    BY SquareForm
  <2> QED BY <2>1, FieldFacts
<1>2. PICK W \in Int, S \in Int, M \in Int, R \in Int :
          W = w * w /\ S = W * W /\ M = (A * w) * X /\ R = r * X
  OBVIOUS
<1>3. PICK k \in Int, p \in Int :
          /\ k = S * N + M /\ p = r * r * X - f * w /\ Zero(k) /\ Zero(p)
  <2>1. S * N + M \in Int /\ r * r * X - f * w \in Int
    OBVIOUS
  <2> QED BY <1>2, <2>1
\* A root of -f: i or 1.
<1>4. PICK d \in Int, j \in Int : j = d * d + f /\ Zero(j)
  <2>1. f = 1 \/ f = -1
    <3>1. (f - 1) * (f + 1) = 0
      OBVIOUS
    <3> QED BY <3>1
  <2>2. CASE f = 1
    <3>1. PICK i \in Int : Zero(i * i + 1)
      BY MapConstants
    <3>2. i * i + 1 \in Int
      OBVIOUS
    <3> QED BY <2>2, <3>1, <3>2
  <2>3. CASE f = -1
    <3>1. 1 * 1 + f = 0 /\ 1 \in Int /\ 0 \in Int
      BY <2>3
    <3> QED BY <3>1, OneNotZero
  <2> QED BY <2>1, <2>2, <2>3
<1>5. PICK s \in Int, c1 \in Int, c2 \in Int, c3 \in Int, c4 \in Int, o \in Int :
          /\ s = d * (W * n) /\ c1 = S * (n * n) /\ c2 = -f * S /\ c3 = -f /\ c4 = -(A * X) /\ o = 0
  OBVIOUS
<1>6. s * s - A * (R * R) = ((j * c1 + l * c2) + k * c3) + ((p * c4 + p * o) + p * o)
  <2>0. PICK D \in Int, V \in Int, U \in Int : D = d * d /\ V = n * n /\ U = r * r * X
    OBVIOUS
  <2>1. s * s = D * (S * V)
    BY <1>2, <1>5, <2>0
  <2>2. D = j - f /\ V = l + N /\ U = p + f * w
    BY <1>1, <1>3, <1>4, <2>0
  <2>3. A * (R * R) = A * (U * X)
    BY <1>2, <2>0
  <2>4. A * (U * X) = -(p * c4) + f * M
    BY <1>2, <1>5, <2>2
  <2>5. D * (S * V) = j * c1 - f * (S * V)
    BY <1>5, <2>0, <2>2
  <2>6. f * (S * V) = -(l * c2) + f * (S * N)
    BY <1>5, <2>2
  <2>7. f * (S * N) = -(k * c3) - f * M
    BY <1>3, <1>5
  <2>8. p * o = 0
    BY <1>5
  <2> QED BY <2>1, <2>3, <2>4, <2>5, <2>6, <2>7, <2>8
<1>7. Zero((j * c1 + l * c2) + k * c3) /\ Zero((p * c4 + p * o) + p * o)
  BY <1>1, <1>3, <1>4, ZeroCombined, Zenon
<1>8. Zero(s * s - A * (R * R))
  <2>1. (j * c1 + l * c2) + k * c3 \in Int /\ (p * c4 + p * o) + p * o \in Int
    OBVIOUS
  <2>2. Zero(((j * c1 + l * c2) + k * c3) + ((p * c4 + p * o) + p * o))
    BY <1>7, <2>1, ZeroSum
  <2> QED BY <1>6, <2>2, Zenon
<1>9. ~Zero(R)
  <2>1. ~Zero(r)
    <3> SUFFICES ASSUME Zero(r) PROVE FALSE
      OBVIOUS
    <3>1. w = (r * (r * X)) * f - p * f /\ r * (r * X) \in Int /\ (r * (r * X)) * f \in Int /\ p * f \in Int
      <4>1. p * f = (r * (r * X)) * f - (f * f) * w
        BY <1>3
      <4> QED BY <4>1
    <3>2. Zero((r * (r * X)) * f)
      <4>1. Zero(r * (r * X))
        <5>1. r * X \in Int
          OBVIOUS
        <5> QED BY <5>1, ZeroTimes
      <4> QED BY <3>1, <4>1, ZeroTimes
    <3>3. Zero((r * (r * X)) * f - p * f)
      BY <1>3, <3>1, <3>2, ZeroSum, ZeroTimes
    <3> QED BY <3>1, <3>3, Zenon
  <2> QED BY <1>2, <2>1, ZeroProduct
<1>10. ~IsSquare(A)
  BY NonSquares
<1> QED BY <1>8, <1>9, <1>10, SquareQuotient

\* A y and a parity leave one point, and so does an x of zero.
LEMMA PointUnique ==
    ASSUME NEW p \in Points, NEW q \in Points, NEW sign, p.y = q.y,
           p.x # 0 => p.x % 2 = sign, q.x # 0 => q.x % 2 = sign
    PROVE  p = q
<1>1. ASSUME NEW r \in Points PROVE r.x \in 0..(Field - 1) /\ r.x % 2 \in {0, 1}
  <2>1. r.x \in 0..(Field - 1)
    BY DEF Points, Elements
  <2> QED BY <2>1, FieldFacts
<1>2. \A a, b \in Points : a.y = b.y /\ a.x % 2 = b.x % 2 => a = b
  BY PointOfString
<1>3. ASSUME NEW a \in Points, NEW b \in Points, a.y = b.y, a.x = 0, b.x # 0 PROVE a = b
  <2> SUFFICES ASSUME b.x % 2 = 1 PROVE FALSE
    BY <1>1, <1>2, <1>3
  <2>1. PICK k \in Nat : Field = 8 * k + 5
    BY ExponentFacts
  <2>2. PICK x \in 1..(Field - 1) : x = b.x
    BY <1>1, <1>3
  <2>3. (Field - x) % Field = Field - x /\ Field - x # 0 /\ (Field - x) % 2 = 0
    <3>1. Field - x \in 1..(Field - 1) /\ Field \in Nat
      BY FieldFacts
    <3>2. (Field - x) % Field = Field - x
      BY <3>1
    <3>3. (Field - x) % 2 = 0
      BY <2>1, <2>2
    <3> QED BY <3>1, <3>2, <3>3
  <2>4. PICK m \in Points : m.x = Field - x /\ m.y = b.y
    <3>1. Point((Field - b.x) % Field, b.y) \in Points
      BY MinusFacts
    <3>2. PICK m \in Points : m = Point(Field - x, b.y)
      BY <2>2, <2>3, <3>1
    <3>3. m.x = Field - x /\ m.y = b.y
      BY <3>2 DEF Point
    <3> QED BY <3>3
  <2>5. a.x % 2 = m.x % 2
    BY <1>3, <2>3, <2>4
  <2>6. a = m
    BY <1>2, <1>3, <2>4, <2>5
  <2> QED BY <1>3, <2>3, <2>4, <2>6
<1> QED BY <1>2, <1>3

\* The point of a digest is the one of the map's definition.
LEMMA ElligatorFacts ==
    ASSUME NEW bytes \in Bytes32, NEW u \in Elements, u = Scalar(bytes) % Field
    PROVE  /\ ElligatorPoint(u) \in Points
           /\ ge_fromfe_frombytes(bytes) = Compress(ElligatorPoint(u))
<1>1. PICK x \in Elements, z \in Elements, w \in Elements, v \in Int, X \in Int,
           px \in Elements, py \in Elements :
          /\ BranchOutcome(u, x, z, w, v, X)
          /\ LET p == Projective(bytes)
             IN  p.z # 0 /\ px = p.x * Inv[p.z] % Field /\ py = p.y * Inv[p.z] % Field
          /\ Point(px, py) \in Points
          /\ ~Zero(z + w) /\ Zero(py * (z + w) - (z - w))
          /\ px # 0 => px % 2 = Branches(u).sign
  BY ProjectiveFacts
<1>2. PICK A \in Int, ma \in Elements : A = MontgomeryA /\ ma = fe_ma /\ ma \in Int /\ Zero(ma + A)
  BY MapConstants
<1>3. PICK sign : sign = Branches(u).sign
  OBVIOUS
<1>4. /\ w = (2 * u * u + 1) % Field /\ ~Zero(w) /\ ~Zero(X)
      /\ Zero(w - (v + 1)) /\ Zero(X - (w * w - (A * A) * v))
      /\ Zero((x * x) * X + (A + 2) * (z * w))
      /\ \/ sign = 1 /\ Zero(z + A)
         \/ /\ sign = 0 /\ Zero(z + A * v)
            /\ \E r \in Int, f \in Int : f * f = 1 /\ Zero(r * r * X - f * w)
  BY <1>1, <1>2, <1>3, Zenon DEF BranchOutcome
<1>5. x \in Int /\ z \in Int /\ w \in Int /\ u \in Int /\ px \in Int /\ py \in Int
  BY FieldFacts
<1>6. PICK n \in Int : n = 1 + 2 * u * u
  BY <1>5
<1>7. w = n % Field /\ Zero(w - n) /\ w - n \in Int
  <2>1. n = 2 * u * u + 1
    BY <1>5, <1>6
  <2>2. w = n % Field
    BY <1>4, <2>1, Zenon
  <2> QED BY <1>5, <2>2, ZeroRemainder
<1>8. ~Zero(n)
  <2>1. w = n + (w - n)
    BY <1>5
  <2> QED BY <1>4, <1>7, <2>1, ZeroSum
\* The first candidate.
<1>9. PICK t \in Elements : /\ t = fe_ma * Inv[(1 + 2 * u * u) % Field] % Field /\ t \in Int
                            /\ Zero(t * w + A)
  <2>1. PICK t \in Elements : t = ma * Inv[n % Field] % Field /\ t \in Int /\ Zero(t * n - ma)
    BY <1>2, <1>8, QuotientFacts
  <2>2. PICK a \in Int, b \in Int, c \in Int, o \in Int :
            /\ a = w - n /\ b = t * n - ma /\ c = ma + A /\ o = 1 /\ Zero(a) /\ Zero(b) /\ Zero(c)
    <3>1. t * n - ma \in Int /\ ma + A \in Int /\ 1 \in Int
      BY <1>2, <2>1
    <3> QED BY <1>2, <1>7, <2>1, <3>1
  <2>3. t * w + A = (a * t + b * o) + c * o
    BY <1>2, <1>5, <2>1, <2>2
  <2>4. Zero((a * t + b * o) + c * o)
    BY <2>1, <2>2, ZeroCombined, Zenon
  <2>5. Zero(t * w + A)
    BY <2>3, <2>4, Zenon
  <2> QED BY <1>2, <1>6, <2>1, <2>5, Zenon
<1> DEFINE On(c) == IsSquare((c * c % Field) * c + (MontgomeryA * c % Field) * c + c)
<1>10. On(t) <=> sign = 1
  <2>1. PICK N \in Int : N = t * t * t + A * (t * t) + t
    BY <1>9
  <2>2. PICK q \in Int : q = t * t % Field /\ Zero(q - t * t)
    BY <1>9, ZeroSelf, ProductRemainder
  <2>3. PICK h \in Int : h = MontgomeryA * t % Field /\ Zero(h - A * t)
    BY <1>2, <1>9, ZeroSelf, ProductRemainder
  <2>4. PICK a \in Int : a = q * t + h * t + t
    BY <1>9
  <2>5. IsSquare(a) <=> IsSquare(N)
    <3>1. PICK k \in Int, l \in Int : k = q - t * t /\ l = h - A * t /\ Zero(k) /\ Zero(l)
      <4>1. q - t * t \in Int /\ h - A * t \in Int
        BY <1>9
      <4> QED BY <2>2, <2>3, <4>1
    <3>2. a - N = k * t + l * t /\ k * t \in Int /\ l * t \in Int
      BY <1>9, <2>1, <2>4, <3>1
    <3>3. Zero(k * t + l * t)
      BY <1>9, <3>1, <3>2, ZeroSum, ZeroTimes
    <3>4. Zero(a - N)
      BY <3>2, <3>3, Zenon
    <3> QED BY <3>4, SquareRemainder
  <2>6. Zero(((w * w) * (w * w)) * N + (A * w) * X)
    <3>1. Zero(((w * w) * (w * w)) * (t * t * t + A * (t * t) + t) + (A * w) * X)
      <4>1. /\ t \in Int /\ w \in Int /\ Zero(t * w + A) /\ Zero(w - (v + 1))
            /\ Zero(X - (w * w - (A * A) * v))
        BY <1>4, <1>5, <1>9, Zenon
      <4> QED BY <4>1, MontgomeryForm
    <3> QED BY <2>1, <3>1, Zenon
  <2>7. CASE sign = 1
    <3>1. Zero(z + A)
      BY <1>4, <2>7
    <3>2. /\ w \in Int /\ z \in Int /\ x \in Int /\ A = MontgomeryA /\ ~Zero(w)
          /\ Zero((x * x) * X + (A + 2) * (z * w))
      BY <1>2, <1>4, <1>5, Zenon
    <3>3. IsSquare(N)
      BY <2>6, <3>1, <3>2, OddIsSquare, Zenon
    <3> QED BY <2>2, <2>3, <2>4, <2>5, <2>7, <3>3, Zenon
  <2>8. CASE sign # 1
    <3>1. PICK r \in Int, f \in Int : f * f = 1 /\ Zero(r * r * X - f * w)
      BY <1>4, <2>8, Zenon
    <3>2. w \in Int /\ A = MontgomeryA /\ ~Zero(w) /\ ~Zero(X)
      BY <1>2, <1>4, <1>5, Zenon
    <3>3. ~IsSquare(N)
      BY <2>6, <3>1, <3>2, EvenIsNoSquare, Zenon
    <3> QED BY <2>2, <2>3, <2>4, <2>5, <2>8, <3>3, Zenon
  <2> QED BY <2>7, <2>8
<1> HIDE DEF On
\* The one it takes, z / w.
<1>11. PICK c \in Elements : /\ c = IF On(t) THEN t ELSE (-t - MontgomeryA) % Field
                             /\ c \in Int /\ Zero(c * w - z)
  <2>1. PICK k \in Int : k = t * w + A /\ Zero(k)
    <3>1. t * w + A \in Int
      BY <1>5, <1>9
    <3> QED BY <1>9, <3>1
  <2>2. CASE sign = 1
    <3>1. Zero(z + A) /\ z + A \in Int
      BY <1>4, <1>5, <2>2
    <3>2. t * w - z = k - (z + A)
      BY <1>5, <1>9, <2>1
    <3>3. Zero(t * w - z)
      BY <2>1, <3>1, <3>2, ZeroSum
    <3> QED BY <1>9, <1>10, <2>2, <3>3
  <2>3. CASE sign # 1
    <3>1. Zero(z + A * v)
      BY <1>4, <2>3, Zenon
    <3>2. PICK d \in Int : d = -t - A
      BY <1>9
    <3>3. PICK c \in Elements : c = d % Field /\ c \in Int /\ Zero(c - d)
      BY ZeroRemainder
    <3>4. PICK a \in Int, b \in Int, e \in Int, o \in Int, m \in Int :
              /\ a = c - d /\ b = z + A * v /\ e = w - (v + 1) /\ o = -1 /\ m = -A
              /\ Zero(a) /\ Zero(b) /\ Zero(e)
      <4>1. c - d \in Int /\ z + A * v \in Int /\ w - (v + 1) \in Int /\ -1 \in Int /\ -A \in Int
        BY <1>5, <3>3
      <4> QED BY <1>4, <3>1, <3>3, <4>1
    <3>5. c * w - z = ((a * w + b * o) + e * m) - k
      <4>1. c \in Int /\ t \in Int
        BY <1>9, <3>3
      <4> QED BY <1>5, <2>1, <3>2, <3>4, <4>1
    <3>6. Zero((a * w + b * o) + e * m) /\ (a * w + b * o) + e * m \in Int
      <4>1. (a * w + b * o) + e * m \in Int
        BY <1>5
      <4> QED BY <1>5, <3>4, <4>1, ZeroCombined, Zenon
    <3>7. Zero(((a * w + b * o) + e * m) - k)
      BY <2>1, <3>6, ZeroSum
    <3>8. Zero(c * w - z)
      BY <3>5, <3>7, Zenon
    <3> QED BY <1>2, <1>10, <2>3, <3>2, <3>3, <3>8
  <2> QED BY <2>2, <2>3
<1>12. c \in Int /\ t \in Int
  BY <1>9, <1>11
<1>13. PICK e \in Int : e = c * w - z /\ Zero(e)
  <2>1. c * w - z \in Int
    BY <1>5, <1>11
  <2> QED BY <1>11, <2>1
<1>14. PICK b \in Int : b = c + 1 /\ ~Zero(b)
  <2>1. PICK b \in Int : b = c + 1
    BY <1>11
  <2>2. z + w = b * w - e /\ b * w \in Int
    BY <1>5, <1>13, <1>12, <2>1
  <2>3. Zero(b) => Zero(b * w - e)
    BY <1>5, <1>13, <2>2, ZeroSum, ZeroTimes
  <2>4. ~Zero(b)
    BY <1>1, <2>2, <2>3, Zenon
  <2> QED BY <2>1, <2>4
<1>15. PICK y \in Elements : /\ y = (c - 1) * Inv[(c + 1) % Field] % Field
                             /\ y \in Int /\ Zero(y * b - (c - 1))
  <2>1. PICK a \in Int : a = c - 1
    BY <1>11
  <2>2. LET q == a * Inv[b % Field] % Field IN q \in Elements /\ q \in Int /\ Zero(q * b - a)
    BY <1>14, QuotientFacts, Zenon
  <2> QED BY <1>14, <2>1, <2>2, Zenon
<1>16. y = py
  <2>1. PICK k \in Int, l \in Int, s \in Int, d \in Int :
            /\ k = y * b - (c - 1) /\ l = py * s - d /\ s = z + w /\ d = z - w /\ Zero(k) /\ Zero(l)
    <3>1. PICK s \in Int, d \in Int : s = z + w /\ d = z - w
      BY <1>5
    <3>2. y * b - (c - 1) \in Int /\ py * s - d \in Int
      BY <1>5, <1>11, <1>15
    <3>3. Zero(py * s - d)
      BY <1>1, <3>1, Zenon
    <3> QED BY <1>15, <3>1, <3>2, <3>3
  <2>2. y * s - d = k * w - e * (y - 1)
    <3>0. y \in Int
      BY <1>15
    <3>1. c * w = z + e
      BY <1>5, <1>13, <1>12
    <3>2. k * w = y * (c * w) + y * w - c * w + w
      BY <1>5, <1>14, <1>12, <2>1, <3>0
    <3>3. k * w = y * (z + e) + y * w - (z + e) + w
      BY <3>1, <3>2, Zenon
    <3> QED BY <1>5, <2>1, <3>0, <3>3
  <2>3. PICK g \in Int, m \in Int, o \in Int : g = y - py /\ m = -(y - 1) /\ o = -1
    BY <1>5, <1>15
  <2>4. s * g = (k * w + e * m) + l * o
    BY <1>5, <1>15, <2>1, <2>2, <2>3
  <2>5. Zero((k * w + e * m) + l * o)
    BY <1>5, <1>13, <2>1, ZeroCombined, Zenon
  <2>6. Zero(s * g) /\ ~Zero(s)
    BY <1>1, <2>1, <2>4, <2>5, Zenon
  <2>7. Zero(g)
    BY <2>6, ZeroProduct
  <2> QED BY <2>3, <2>7, ZeroOfElement
<1>17. (IF On(t) THEN 1 ELSE 0) = sign
  BY <1>4, <1>10
<1> DEFINE Is(p) == p.y = py /\ (p.x # 0 => p.x % 2 = sign)
<1>18. ElligatorPoint(u) = CHOOSE p \in Points : Is(p)
  BY <1>9, <1>11, <1>15, <1>16, <1>17, Zenon DEF ElligatorPoint, On
<1>19. Is(Point(px, py))
  BY <1>1, <1>3 DEF Point
<1>20. ElligatorPoint(u) = Point(px, py)
  <2>1. PICK p \in Points : p = (CHOOSE q \in Points : Is(q)) /\ Is(p)
    <3>1. \E q \in Points : Is(q)
      BY <1>1, <1>19
    <3> HIDE DEF Is
    <3> QED BY <3>1, Zenon
  <2>2. PICK q \in Points : q = Point(px, py) /\ Is(q)
    BY <1>1, <1>19
  <2>3. p = q
    BY <2>1, <2>2, PointUnique
  <2> QED BY <1>18, <2>1, <2>2, <2>3
<1>21. ge_fromfe_frombytes(bytes) = Compress(Point(px, py))
  BY <1>1, Zenon DEF ge_fromfe_frombytes
<1> QED BY <1>1, <1>20, <1>21

-----------------------------------------------------------------------------
(* The invariant. *)

\* What the hash has to be: any function to strings.
HashHolds == \A s \in 0..(Salts - 1) : \A bytes \in Seq(Nat) : Hash(s, bytes) \in Bytes32

LEMMA KeccakType ==
    ASSUME HashHolds, salt \in 0..(Salts - 1), NEW bytes \in Seq(Nat)
    PROVE  /\ Keccak(bytes) \in Bytes32 /\ reduce(Keccak(bytes)) \in Bytes32
           /\ Scalar(reduce(Keccak(bytes))) < Order
<1>1. Keccak(bytes) \in Bytes32
  BY DEF HashHolds, Keccak
<1>2. Order \in Nat
  BY Constants
<1> QED BY <1>1, <1>2, reduceFacts

\* Keys are strings, and the view key is the hash of the spend key.
KeyInv ==
    /\ salt \in 0..(Salts - 1) /\ key \in Bytes32
    /\ viewKey = IF stage = "locked" THEN BigEndian(0) ELSE reduce(Keccak(key))

\* The address is exported as of the loaded key.
AddressInv ==
    address = IF stage \in {"locked", "loaded"} THEN Nothing
              ELSE [spend |-> ecmul_G(key), view |-> ecmul_G(viewKey),
                    ota |-> ecmul_G(gen_private_ota_key(key))]

\* The two kinds of coins, as a sender makes them.
OtaCoin(r, i) == Coin("ota", r, i, Compress(Times(r, Decompress[address.ota])) \o <<i>>)
ViewCoin(r, i) ==
    Coin("view", r, i, Compress(Times(8 * r, Decompress[address.view])) \o encode_varint(i))

\* A coin is one that some sender made for the address.
CoinInv ==
    stage \in {"paid", "imaged", "derived"} =>
        \E r \in Randoms, i \in Indices : \/ coin = OtaCoin(r, i) /\ stage # "derived"
                                          \/ coin = ViewCoin(r, i) /\ stage # "imaged"

\* The secret and the result are what the device computes for that coin.
Derivation == generate_key_derivation(coin.random, viewKey)
SecretInv ==
    /\ stage = "imaged" =>
        secret = addm(kOTA, key) /\ result = [image |-> generate_key_image(coin.pub, secret)]
    /\ stage = "derived" =>
        /\ secret = derive_secret_key(Derivation, coin.index, key)
        /\ result = [pub |-> derive_public_key(Derivation, coin.index, address.spend),
                     spend |-> derive_subaddress_public_key(coin.pub, Derivation, coin.index)]
    /\ stage \notin {"imaged", "derived"} => secret = BigEndian(0)

IInv == KeyInv /\ AddressInv /\ CoinInv /\ SecretInv

LEMMA Initially == CoinInit => IInv
BY BigEndianFacts DEF CoinInit, IInv, KeyInv, AddressInv, CoinInv, SecretInv

LEMMA InvLoadKey == IInv /\ LoadKey => IInv'
<1> SUFFICES ASSUME IInv, LoadKey PROVE IInv'
  OBVIOUS
<1>1. key' \in Bytes32
  <2>1. PICK k \in KeyStrings : key' \in {k, reduce(k)}
    BY DEF LoadKey
  <2>2. k \in Bytes32
    BY CoinKeysAssumption
  <2> QED BY <2>1, <2>2, reduceFacts
<1>2. KeyInv'
  BY <1>1 DEF IInv, KeyInv, LoadKey, Keccak
<1>3. AddressInv' /\ CoinInv' /\ SecretInv'
  BY DEF IInv, AddressInv, SecretInv, CoinInv, LoadKey
<1> QED BY <1>2, <1>3 DEF IInv

LEMMA InvExportAddress == IInv /\ ExportAddress => IInv'
<1> SUFFICES ASSUME IInv, ExportAddress PROVE IInv'
  OBVIOUS
<1>1. KeyInv'
  BY DEF IInv, KeyInv, ExportAddress, Keccak
<1>2. AddressInv'
  BY DEF IInv, ExportAddress, AddressInv, gen_private_ota_key, hash_to_scalar, Keccak
<1>3. CoinInv' /\ SecretInv'
  BY DEF IInv, SecretInv, CoinInv, ExportAddress
<1> QED BY <1>1, <1>2, <1>3 DEF IInv

LEMMA InvPay == IInv /\ Pay => IInv'
<1> SUFFICES ASSUME IInv, Pay PROVE IInv'
  OBVIOUS
<1>1. KeyInv'
  BY DEF IInv, KeyInv, Pay, Keccak
<1>2. AddressInv'
  BY DEF IInv, Pay, AddressInv, gen_private_ota_key, hash_to_scalar, Keccak
<1>3. CoinInv'
  BY DEF Pay, CoinInv, OtaCoin, ViewCoin, Coin, Keccak
<1>4. SecretInv'
  BY DEF IInv, SecretInv, Pay
<1> QED BY <1>1, <1>2, <1>3, <1>4 DEF IInv

LEMMA InvGenKeyImage == IInv /\ GenKeyImage => IInv'
<1> SUFFICES ASSUME IInv, GenKeyImage PROVE IInv'
  OBVIOUS
<1>1. KeyInv'
  BY DEF IInv, KeyInv, GenKeyImage, Keccak
<1>2. AddressInv'
  BY DEF IInv, GenKeyImage, AddressInv, gen_private_ota_key, hash_to_scalar, Keccak
<1>3. CoinInv'
  <2>1. PICK r \in Randoms, i \in Indices : coin = OtaCoin(r, i) \/ coin = ViewCoin(r, i)
    BY DEF IInv, CoinInv, GenKeyImage
  <2>2. coin = OtaCoin(r, i)
    BY <2>1 DEF GenKeyImage, ViewCoin, Coin
  <2>3. coin' = OtaCoin(r, i)' /\ stage' # "derived"
    BY <2>2 DEF GenKeyImage, OtaCoin, Coin, Keccak
  <2> QED BY <2>3 DEF CoinInv
<1>4. SecretInv'
  BY DEF SecretInv, GenKeyImage, kOTA, gen_private_ota_key, hash_to_scalar, generate_key_image,
         hash_to_point, hash_to_ec, Keccak
<1> QED BY <1>1, <1>2, <1>3, <1>4 DEF IInv

LEMMA InvDeriveKeys == IInv /\ DeriveKeys => IInv'
<1> SUFFICES ASSUME IInv, DeriveKeys PROVE IInv'
  OBVIOUS
<1>1. KeyInv'
  BY DEF IInv, KeyInv, DeriveKeys, Keccak
<1>2. AddressInv'
  BY DEF IInv, DeriveKeys, AddressInv, gen_private_ota_key, hash_to_scalar, Keccak
<1>3. CoinInv'
  <2>1. PICK r \in Randoms, i \in Indices : coin = OtaCoin(r, i) \/ coin = ViewCoin(r, i)
    BY DEF IInv, CoinInv, DeriveKeys
  <2>2. coin = ViewCoin(r, i)
    BY <2>1 DEF DeriveKeys, OtaCoin, Coin
  <2>3. coin' = ViewCoin(r, i)' /\ stage' # "imaged"
    BY <2>2 DEF DeriveKeys, ViewCoin, Coin, Keccak
  <2> QED BY <2>3 DEF CoinInv
<1>4. SecretInv'
  BY DEF SecretInv, DeriveKeys, Derivation, derive_secret_key, derive_public_key,
         derive_subaddress_public_key, derivation_to_scalar, Keccak
<1> QED BY <1>1, <1>2, <1>3, <1>4 DEF IInv

LEMMA InvStuttering == IInv /\ UNCHANGED coinVars => IInv'
BY DEF IInv, coinVars, KeyInv, AddressInv, CoinInv, SecretInv, OtaCoin, ViewCoin, Coin, Derivation,
       kOTA, gen_private_ota_key, hash_to_scalar, derive_secret_key, derive_public_key,
       derive_subaddress_public_key, derivation_to_scalar, generate_key_image, hash_to_point,
       hash_to_ec, Keccak

\* Between any two commands the keys, the address, the coin and what was computed
\* for it are those functions of each other: no step leaves one of them stale.
THEOREM KeysSafety == CoinSpec => []IInv
<1>1. CoinInit => IInv
  BY Initially
<1>2. IInv /\ [CoinNext]_coinVars => IInv'
  BY InvLoadKey, InvExportAddress, InvPay, InvGenKeyImage, InvDeriveKeys, InvStuttering
     DEF CoinNext
<1> QED BY <1>1, <1>2, PTL DEF CoinSpec

-----------------------------------------------------------------------------
(* What the invariant says of the keys. *)

\* The keys of the device and what it exported, as numbers and points.
LEMMA DeviceFacts ==
    ASSUME HashHolds, IInv, stage # "locked"
    PROVE  /\ viewKey \in Bytes32 /\ Scalar(viewKey) < Order
           /\ gen_private_ota_key(key) \in Bytes32
<1>1. salt \in 0..(Salts - 1) /\ key \in Bytes32 /\ viewKey = reduce(Keccak(key))
  BY DEF IInv, KeyInv
<1>2. key \in Seq(Nat) /\ key \o OneTimeAddress \in Seq(Nat)
  <2>1. OneTimeAddress \in Seq(Nat)
    BY DEF OneTimeAddress
  <2> QED BY <1>1, <2>1, BytesFacts, Joined
<1> QED BY <1>1, <1>2, KeccakType DEF gen_private_ota_key, hash_to_scalar

LEMMA AddressFacts ==
    ASSUME HashHolds, IInv, stage \notin {"locked", "loaded"}
    PROVE  /\ address.spend = ecmul_G(key) /\ address.view = ecmul_G(viewKey)
           /\ address.ota = ecmul_G(gen_private_ota_key(key))
           /\ Decompress[address.spend] = Times(Scalar(key), Generator)
           /\ Decompress[address.view] = Times(Scalar(viewKey), Generator)
           /\ Decompress[address.ota] = Times(Scalar(gen_private_ota_key(key)), Generator)
<1>1. /\ address.spend = ecmul_G(key) /\ address.view = ecmul_G(viewKey)
      /\ address.ota = ecmul_G(gen_private_ota_key(key))
  BY DEF IInv, AddressInv
<1>2. key \in Bytes32 /\ viewKey \in Bytes32 /\ gen_private_ota_key(key) \in Bytes32
  BY DeviceFacts DEF IInv, KeyInv
<1> QED BY <1>1, <1>2, ecmul_GFacts

LEMMA ScalarsOfSender ==
    ASSUME NEW r \in Randoms, NEW i \in Indices
    PROVE  r \in Nat /\ i \in Nat /\ 8 * r \in Nat
BY CoinKeysAssumption, Constants

\* Both sides hash the same secret: r times the key of the address is the key
\* times the point of r.
LEMMA OtaCoinFacts ==
    ASSUME HashHolds, IInv, stage \notin {"locked", "loaded"},
           NEW r \in Randoms, NEW i \in Indices, coin = OtaCoin(r, i)
    PROVE  /\ kOTA \in Bytes32
           /\ coin.pub = Compress(Plus(Times(Scalar(kOTA), Generator), Decompress[address.spend]))
<1> DEFINE O == Scalar(gen_private_ota_key(key))
           R == Times(r, Generator)
           shared == Compress(Times(r, Decompress[address.ota])) \o <<i>>
<1>1. r \in Nat /\ i \in Nat
  BY ScalarsOfSender
<1>2. O \in Nat
  BY DeviceFacts, BytesFacts
<1>3. R \in Points /\ Decompress[Compress(R)] = R
  BY <1>1, OrderOfMultiple, CompressFacts
<1>4. /\ coin.random = Compress(R) /\ coin.index = i
      /\ coin.pub = Compress(Plus(Times(Scalar(reduce(Keccak(shared))), Generator),
                                  Decompress[address.spend]))
  BY DEF OtaCoin, Coin
<1>5. Times(r, Decompress[address.ota]) = Times(O, R) /\ Times(O, R) \in Points
  <2>1. Decompress[address.ota] = Times(O, Generator)
    BY AddressFacts
  <2>2. Times(r, Times(O, Generator)) = Times(O, R)
    BY <1>1, <1>2, GeneratorFacts, TimesCommute
  <2>3. Times(O, R) \in Points
    BY <1>2, <1>3, TimesType
  <2> QED BY <2>1, <2>2, <2>3
<1>6. shared = Compress(Times(O, Decompress[coin.random])) \o <<coin.index>>
  BY <1>3, <1>4, <1>5
<1>7. kOTA = reduce(Keccak(shared))
  BY <1>6, Zenon DEF kOTA
<1>8. shared \in Seq(Nat)
  <2>1. Compress(Times(O, R)) \in Seq(Nat)
    BY <1>5, CompressFacts, BytesFacts
  <2>2. <<i>> \in Seq(Nat)
    BY <1>1
  <2> QED BY <1>5, <2>1, <2>2, Joined
<1> HIDE DEF shared
<1>9. reduce(Keccak(shared)) \in Bytes32
  BY <1>8, KeccakType DEF IInv, KeyInv
<1> QED BY <1>4, <1>7, <1>9, Zenon

LEMMA ViewCoinFacts ==
    ASSUME HashHolds, IInv, stage \notin {"locked", "loaded"},
           NEW r \in Randoms, NEW i \in Indices, coin = ViewCoin(r, i)
    PROVE  /\ derivation_to_scalar(Derivation, coin.index) \in Bytes32
           /\ coin.pub = Compress(Plus(
                  Times(Scalar(derivation_to_scalar(Derivation, coin.index)), Generator),
                  Decompress[address.spend]))
<1> DEFINE R == Times(r, Generator)
           drv == Compress(Times(8 * r, Decompress[address.view]))
           shared == drv \o encode_varint(i)
<1>1. r \in Nat /\ i \in Nat /\ 8 * r \in Nat
  BY ScalarsOfSender
<1>2. viewKey \in Bytes32 /\ Scalar(viewKey) \in Nat
  BY DeviceFacts, BytesFacts
<1>3. /\ coin.random = Compress(R) /\ coin.index = i
      /\ coin.pub = Compress(Plus(Times(Scalar(reduce(Keccak(shared))), Generator),
                                  Decompress[address.spend]))
  BY DEF ViewCoin, Coin
<1>4. Decompress[address.view] = Times(Scalar(viewKey), Generator)
  BY AddressFacts
<1>5. Derivation = drv
  <2>1. ecmul_8k(Compress(R), viewKey) = Compress(Times(8 * r, Times(Scalar(viewKey), Generator)))
    BY <1>1, <1>2, ecmul_8kFacts
  <2> QED BY <1>3, <1>4, <2>1 DEF Derivation, generate_key_derivation
<1>6. derivation_to_scalar(Derivation, coin.index) = reduce(Keccak(shared))
  BY <1>3, <1>5, Zenon DEF derivation_to_scalar
<1>7. shared \in Seq(Nat)
  <2>1. Times(Scalar(viewKey), Generator) \in Points
    BY <1>2, GeneratorFacts, TimesType
  <2>2. Times(8 * r, Times(Scalar(viewKey), Generator)) \in Points
    BY <1>1, <2>1, TimesType
  <2>3. drv \in Seq(Nat)
    BY <1>4, <2>2, CompressFacts, BytesFacts
  <2> QED BY <1>1, <2>3, encode_varintType, Joined
<1> HIDE DEF shared
<1>8. reduce(Keccak(shared)) \in Bytes32
  BY <1>7, KeccakType DEF IInv, KeyInv
<1> QED BY <1>3, <1>6, <1>8, Zenon

\* The key of a sum opens the sum.
LEMMA SumOpens ==
    ASSUME NEW h \in Bytes32, NEW k \in Bytes32, NEW S \in Points,
           S = Times(Scalar(k), Generator)
    PROVE  /\ Plus(Times(Scalar(h), Generator), S) \in Points
           /\ Times(Scalar(addm(h, k)), Generator)
                  = Decompress[Compress(Plus(Times(Scalar(h), Generator), S))]
<1>1. Times(Scalar(h), Generator) \in Points
  BY ecmul_GFacts
<1>2. Plus(Times(Scalar(h), Generator), S) \in Points
  BY <1>1, GroupFacts
<1> QED BY <1>2, addmTimes, CompressFacts

-----------------------------------------------------------------------------
(* The theorems.                                                           *)

\* SecretOpensCoin: the private key the device computes for a coin, from the key
\* the host sends or from its own derivation, opens the coin's public key, for
\* every key, reduced or not, every coin and every hash.
THEOREM SecretIsRight == ASSUME HashHolds PROVE CoinSpec => []SecretOpensCoin
<1>1. IInv => SecretOpensCoin
  <2> SUFFICES ASSUME IInv, stage \in {"imaged", "derived"}
               PROVE  Times(Scalar(secret), Generator) = Decompress[coin.pub]
    BY DEF SecretOpensCoin
  <2>1. key \in Bytes32 /\ Times(Scalar(key), Generator) \in Points
    BY ecmul_GFacts DEF IInv, KeyInv
  <2>2. Decompress[address.spend] = Times(Scalar(key), Generator)
    BY AddressFacts
  <2>3. PICK r \in Randoms, i \in Indices : \/ coin = OtaCoin(r, i) /\ stage = "imaged"
                                            \/ coin = ViewCoin(r, i) /\ stage = "derived"
    BY DEF IInv, CoinInv
  <2>4. CASE coin = OtaCoin(r, i) /\ stage = "imaged"
    <3>1. secret = addm(kOTA, key)
      BY <2>4 DEF IInv, SecretInv
    <3>2. kOTA \in Bytes32
          /\ coin.pub = Compress(Plus(Times(Scalar(kOTA), Generator), Decompress[address.spend]))
      BY <2>4, OtaCoinFacts
    <3> QED BY <2>1, <2>2, <3>1, <3>2, SumOpens
  <2>5. CASE coin = ViewCoin(r, i) /\ stage = "derived"
    <3> DEFINE h == derivation_to_scalar(Derivation, coin.index)
    <3>1. secret = addm(h, key)
      BY <2>5 DEF IInv, SecretInv, derive_secret_key
    <3>2. h \in Bytes32
          /\ coin.pub = Compress(Plus(Times(Scalar(h), Generator), Decompress[address.spend]))
      BY <2>5, ViewCoinFacts
    <3> HIDE DEF h
    <3> QED BY <2>1, <2>2, <3>1, <3>2, SumOpens
  <2> QED BY <2>3, <2>4, <2>5
<1> QED BY <1>1, KeysSafety, PTL

\* DerivedKeysMatch: incognito_derive_public_key gives the coin's public key, and
\* incognito_derive_subaddress_public_key gives back the spend key.
THEOREM DerivedKeysAreRight == ASSUME HashHolds PROVE CoinSpec => []DerivedKeysMatch
<1>1. IInv => DerivedKeysMatch
  <2> SUFFICES ASSUME IInv, stage = "derived"
               PROVE  result.pub = coin.pub /\ result.spend = address.spend
    BY DEF DerivedKeysMatch
  <2> DEFINE h == derivation_to_scalar(Derivation, coin.index)
             H == Times(Scalar(h), Generator)
             S == Times(Scalar(key), Generator)
  <2>1. key \in Bytes32 /\ S \in Points
    BY ecmul_GFacts DEF IInv, KeyInv
  <2>2. Decompress[address.spend] = S /\ address.spend = Compress(S)
    BY <2>1, AddressFacts, ecmul_GFacts
  <2>3. PICK r \in Randoms, i \in Indices : coin = ViewCoin(r, i)
    BY DEF IInv, CoinInv
  <2>4. h \in Bytes32 /\ coin.pub = Compress(Plus(H, S))
    BY <2>2, <2>3, ViewCoinFacts
  <2>5. H \in Points /\ Decompress[ecmul_G(h)] = H
    BY <2>4, ecmul_GFacts
  <2>6. Plus(H, S) \in Points /\ Decompress[coin.pub] = Plus(H, S)
    <3> HIDE DEF h, H, S
    <3>1. Plus(H, S) \in Points
      BY <2>1, <2>5, GroupFacts
    <3>2. Decompress[Compress(Plus(H, S))] = Plus(H, S)
      BY <3>1, CompressFacts
    <3> QED BY <2>4, <3>1, <3>2, Zenon
  <2>7. /\ result.pub = ecadd(ecmul_G(h), address.spend)
        /\ result.spend = ecsub(coin.pub, ecmul_G(h))
    BY DEF IInv, SecretInv, derive_public_key, derive_subaddress_public_key
  <2> HIDE DEF h, H, S
  <2>8. result.pub = coin.pub
    BY <2>2, <2>4, <2>5, <2>7, Zenon DEF ecadd
  <2>9. result.spend = Compress(Plus(Plus(H, S), Point((Field - H.x) % Field, H.y)))
    BY <2>5, <2>6, <2>7, Zenon DEF ecsub
  <2>10. Plus(Plus(H, S), Point((Field - H.x) % Field, H.y)) = S
    BY <2>1, <2>5, PlusMinus
  <2> QED BY <2>2, <2>8, <2>9, <2>10, Zenon
<1> QED BY <1>1, KeysSafety, PTL

\* CoinTypeOK: strings have their width, the reduced scalars are below the order,
\* and what is exported has the order of the generator.
THEOREM TypeCorrect == ASSUME HashHolds PROVE CoinSpec => []CoinTypeOK
<1>1. IInv => CoinTypeOK
  <2> SUFFICES ASSUME IInv PROVE CoinTypeOK
    OBVIOUS
  <2>1. key \in Bytes32
    BY DEF IInv, KeyInv
  <2>2. Scalar(BigEndian(0)) < Order
    <3>1. BigEndian(0) \in Bytes32 /\ Number(BigEndian(0)) = 0
      BY BigEndianFacts, StringsPositive
    <3>2. reverse32(BigEndian(0)) = BigEndian(0)
      <4>1. \A k \in 0..Width : 0 \div Place[k] = 0
        <5>1. \A d \in Nat \ {0} : 0 \div d = 0
          BY Division
        <5> QED BY <5>1, PlaceFacts
      <4>2. Width \in Nat /\ ByteValues \in Nat \ {0} /\ 0 % ByteValues = 0
        BY Constants
      <4>3. \A i \in 1..Width : Width - i \in 0..Width
        BY <4>2
      <4>4. BigEndian(0) = [i \in 1..Width |-> 0]
        BY <4>1, <4>2, <4>3 DEF BigEndian
      <4>5. \A i \in 1..Width : Width - i + 1 \in 1..Width
        BY <4>2
      <4> QED BY <4>2, <4>4, <4>5 DEF reverse32, Reverse
    <3>3. Order \in Nat \ {0}
      BY Constants
    <3> QED BY <3>1, <3>2, <3>3 DEF Scalar
  <2>3. Scalar(viewKey) < Order
    <3>1. CASE stage = "locked"
      BY <2>2, <3>1 DEF IInv, KeyInv
    <3>2. CASE stage # "locked"
      BY <3>2, DeviceFacts
    <3> QED BY <3>1, <3>2
  <2>4. Scalar(secret) < Order
    <3>1. CASE stage \notin {"imaged", "derived"}
      BY <2>2, <3>1 DEF IInv, SecretInv
    <3>2. CASE stage \in {"imaged", "derived"}
      <4>1. PICK r \in Randoms, i \in Indices : \/ coin = OtaCoin(r, i) /\ stage = "imaged"
                                                \/ coin = ViewCoin(r, i) /\ stage = "derived"
        BY <3>2 DEF IInv, CoinInv
      <4>2. CASE coin = OtaCoin(r, i) /\ stage = "imaged"
        <5>1. secret = addm(kOTA, key) /\ kOTA \in Bytes32
          BY <4>2, OtaCoinFacts DEF IInv, SecretInv
        <5> QED BY <2>1, <5>1, addmFacts
      <4>3. CASE coin = ViewCoin(r, i) /\ stage = "derived"
        <5> DEFINE h == derivation_to_scalar(Derivation, coin.index)
        <5>1. secret = addm(h, key) /\ h \in Bytes32
          BY <4>3, ViewCoinFacts DEF IInv, SecretInv, derive_secret_key
        <5> QED BY <2>1, <5>1, addmFacts
      <4> QED BY <4>1, <4>2, <4>3
    <3> QED BY <3>1, <3>2
  <2>5. ASSUME address # Nothing, NEW s \in {address.spend, address.view, address.ota}
        PROVE  Times(Order, Decompress[s]) = Neutral
    <3>1. stage \notin {"locked", "loaded"}
      BY <2>5 DEF IInv, AddressInv
    <3>2. viewKey \in Bytes32 /\ gen_private_ota_key(key) \in Bytes32
      BY <3>1, DeviceFacts
    <3>3. \A k \in Bytes32 : Times(Order, Times(Scalar(k), Generator)) = Neutral
      BY BytesFacts, OrderOfMultiple
    <3> QED BY <2>1, <2>5, <3>1, <3>2, <3>3, AddressFacts
  <2> QED BY <2>1, <2>3, <2>4, <2>5 DEF CoinTypeOK
<1> QED BY <1>1, KeysSafety, PTL

\* What an image is computed from.
LEMMA ImagedFacts ==
    ASSUME HashHolds, IInv, stage = "imaged"
    PROVE  /\ secret \in Bytes32 /\ result.image = generate_key_image(coin.pub, secret)
           /\ Keccak(Keccak(coin.pub)) \in Bytes32
<1>1. secret = addm(kOTA, key) /\ result.image = generate_key_image(coin.pub, secret)
  BY DEF IInv, SecretInv
<1>2. PICK r \in Randoms, i \in Indices : coin = OtaCoin(r, i)
  BY DEF IInv, CoinInv
<1>3. kOTA \in Bytes32
      /\ coin.pub = Compress(Plus(Times(Scalar(kOTA), Generator), Decompress[address.spend]))
  BY <1>2, OtaCoinFacts
<1>4. key \in Bytes32 /\ salt \in 0..(Salts - 1)
  BY DEF IInv, KeyInv
<1>5. coin.pub \in Bytes32
  <2>1. Times(Scalar(kOTA), Generator) \in Points /\ Times(Scalar(key), Generator) \in Points
    BY <1>3, <1>4, ecmul_GFacts
  <2>2. Decompress[address.spend] = Times(Scalar(key), Generator)
    BY AddressFacts
  <2>3. Plus(Times(Scalar(kOTA), Generator), Decompress[address.spend]) \in Points
    BY <2>1, <2>2, GroupFacts
  <2> QED BY <1>3, <2>3, CompressFacts
<1>6. Keccak(coin.pub) \in Bytes32
  BY <1>4, <1>5, BytesFacts, KeccakType
<1>7. Keccak(Keccak(coin.pub)) \in Bytes32
  BY <1>4, <1>6, BytesFacts, KeccakType
<1> QED BY <1>1, <1>3, <1>4, <1>7, addmFacts

\* DigestHasPoint: incognito_ge_fromfe_frombytes divides by zero for no digest and
\* ends on the curve, whichever of its four roots it takes.
THEOREM MapReachesCurve == ASSUME HashHolds PROVE CoinSpec => []DigestHasPoint
<1>1. IInv => DigestHasPoint
  <2> SUFFICES ASSUME IInv, stage = "imaged" PROVE DigestHasPoint
    BY DEF DigestHasPoint
  <2>1. PICK bytes \in Bytes32 : bytes = Keccak(Keccak(coin.pub))
    BY ImagedFacts
  <2>2. PICK u \in Elements : u = Scalar(bytes) % Field
    <3>1. Scalar(bytes) \in Nat
      BY BytesFacts
    <3> QED BY <3>1, FieldFacts
  <2>3. LET p == Projective(bytes)
        IN  /\ p.z # 0
            /\ Point(p.x * Inv[p.z] % Field, p.y * Inv[p.z] % Field) \in Points
    BY <2>2, ProjectiveFacts, Zenon
  <2> QED BY <2>1, <2>3, Zenon DEF DigestHasPoint
<1> QED BY <1>1, KeysSafety, PTL

\* ImageOfCoin: the key image is the coin's private key times eight times the point
\* that the map's definition gives the digest, and has the order of the generator:
\* the branches of the code, the signs they take and the doublings are right for
\* every digest.
THEOREM ImageIsRight == ASSUME HashHolds PROVE CoinSpec => []ImageOfCoin
<1>1. IInv => ImageOfCoin
  <2> SUFFICES ASSUME IInv, stage = "imaged" PROVE ImageOfCoin
    BY DEF ImageOfCoin
  <2>1. PICK bytes \in Bytes32 : bytes = Keccak(Keccak(coin.pub))
    BY ImagedFacts
  <2>2. PICK u \in Elements : u = Scalar(bytes) % Field
    <3>1. Scalar(bytes) \in Nat
      BY BytesFacts
    <3> QED BY <3>1, FieldFacts
  <2>3. PICK p \in Points : p = ElligatorPoint(u) /\ ge_fromfe_frombytes(bytes) = Compress(p)
    BY <2>2, ElligatorFacts
  <2>4. secret \in Bytes32 /\ result.image = generate_key_image(coin.pub, secret)
    BY ImagedFacts
  <2>5. PICK s \in Nat : s = Scalar(secret)
    BY <2>4, BytesFacts
  <2>6. PICK q \in Points : q = Times(8, p)
    BY TimesType
  <2>7. hash_to_point(coin.pub) = Compress(q)
    <3>1. ecmul_8(Compress(p)) = Compress(q)
      BY <2>6, ecmul_8Facts
    <3> QED BY <2>1, <2>3, <3>1, Zenon DEF hash_to_point, hash_to_ec
  <2>8. result.image = Compress(Times(s, q))
    <3>1. Decompress[Compress(q)] = q
      BY CompressFacts
    <3>2. result.image = Compress(Times(Number(reverse32(secret)), Decompress[hash_to_point(coin.pub)]))
      BY <2>4, Zenon DEF generate_key_image, ecmul_k
    <3> QED BY <2>5, <2>7, <3>1, <3>2, Zenon DEF Scalar
  <2>9. Times(s, q) = Times(8 * s, p)
    <3>1. Times(s, Times(8, p)) = Times(s * 8, p)
      BY TimesTimes
    <3>2. s * 8 = 8 * s
      OBVIOUS
    <3> QED BY <2>6, <3>1, <3>2
  <2>10. Times(Order, Times(8 * s, p)) = Neutral
    <3>1. Order \in Nat /\ 8 * Order \in Nat
      BY Constants
    <3>2. PICK o \in Nat : o = 8 * Order /\ Times(o, p) = Neutral
      BY <3>1, GroupAssumption
    <3>3. 8 * s \in Nat /\ Order * (8 * s) = s * o
      BY <3>1, <3>2
    <3>4. Times(Order, Times(8 * s, p)) = Times(Order * (8 * s), p)
      BY <3>1, <3>3, TimesTimes
    <3>5. Times(s, Times(o, p)) = Times(s * o, p)
      BY TimesTimes
    <3>6. Times(s, Neutral) = Neutral
      BY TimesNeutral
    <3> QED BY <3>2, <3>3, <3>4, <3>5, <3>6, Zenon
  <2> QED BY <2>1, <2>2, <2>3, <2>5, <2>8, <2>9, <2>10, Zenon DEF ImageOfCoin
<1> QED BY <1>1, KeysSafety, PTL
=============================================================================
