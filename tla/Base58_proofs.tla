--------------------------- MODULE Base58_proofs ---------------------------
(***************************************************************************)
(* Proofs about Base58, for any base, radix, buffer and arguments: types,  *)
(* that the passes keep the number, and that the text stands for the       *)
(* argument, whatever its length. One that does not fit the buffer, or     *)
(* whose digits have no index, ends in "undefined" and has no text.        *)
(*                                                                         *)
(* What a recursive function computes follows by induction, which is used  *)
(* here on sets of numbers (Induction), not on predicates.                 *)
(***************************************************************************)
EXTENDS Base58, WellFoundedInduction, TLAPS

-----------------------------------------------------------------------------
(* Induction, and functions defined by recursion on the index.             *)

LEMMA Induction ==
    ASSUME NEW T \in SUBSET Nat, 0 \in T, \A n \in T : n + 1 \in T
    PROVE  \A n \in Nat : n \in T
<1> DEFINE R == OpToRel(<, Nat)
<1> SUFFICES ASSUME Nat \ T # {} PROVE FALSE
  OBVIOUS
<1>1. IsWellFoundedOn(R, Nat)
  BY NatLessThanWellFounded
<1> HIDE DEF R
<1>2. PICK x \in Nat \ T : \A y \in Nat \ T : ~(<<y, x>> \in R)
  BY <1>1, WFMin
<1>3. x # 0 /\ x - 1 \in Nat /\ x - 1 + 1 = x /\ x - 1 < x
  OBVIOUS
<1>4. x - 1 \notin T
  BY <1>3
<1>5. <<x - 1, x>> \in R
  BY <1>3 DEF R, OpToRel
<1> QED BY <1>2, <1>3, <1>4, <1>5

\* There are values f[0], f[1], ..., f[n], each computed from the one before it.
HasValues(n, S, z, step) ==
    \E f \in [0..n -> S] : f[0] = z /\ \A i \in 1..n : f[i] = step[i][f[i - 1]]

LEMMA RecursionExists ==
    ASSUME NEW n \in Nat, NEW S, NEW z \in S, NEW step \in [1..n -> [S -> S]]
    PROVE  HasValues(n, S, z, step)
<1> DEFINE Up(k, f) == f[0] = z /\ \A i \in 1..k : f[i] = step[i][f[i - 1]]
           T == {k \in Nat : k <= n => \E f \in [0..k -> S] : Up(k, f)}
<1>1. 0 \in T
  <2> DEFINE f == [i \in 0..0 |-> z]
  <2>1. f \in [0..0 -> S] /\ f[0] = z
    OBVIOUS
  <2>2. Up(0, f)
    BY <2>1
  <2> QED BY <2>1, <2>2
<1>2. ASSUME NEW k \in T, k + 1 <= n
      PROVE  \E f \in [0..(k + 1) -> S] : Up(k + 1, f)
  <2>1. PICK f \in [0..k -> S] : Up(k, f)
    BY <1>2
  <2>2. step[k + 1] \in [S -> S] /\ f[k] \in S
    BY <1>2
  <2>3. step[k + 1][f[k]] \in S
    BY <2>2
  <2> DEFINE g == [i \in 0..(k + 1) |-> IF i <= k THEN f[i] ELSE step[k + 1][f[k]]]
  <2>4. g \in [0..(k + 1) -> S]
    BY <2>3
  <2>5. g[0] = z
    BY <2>1
  <2>6. ASSUME NEW i \in 1..(k + 1) PROVE g[i] = step[i][g[i - 1]]
    <3>1. i - 1 \in 0..k /\ g[i - 1] = f[i - 1]
      BY <2>6
    <3>2. CASE i <= k
      <4>1. i \in 1..k /\ g[i] = f[i]
        BY <3>2
      <4> QED BY <2>1, <3>1, <4>1
    <3>3. CASE i = k + 1
      <4>1. g[i] = step[k + 1][f[k]] /\ i - 1 = k
        BY <3>3
      <4> QED BY <3>1, <3>3, <4>1
    <3> QED BY <2>6, <3>2, <3>3
  <2> QED BY <2>4, <2>5, <2>6
<1>3. ASSUME NEW k \in T PROVE k + 1 \in T
  <2>1. k \in Nat /\ k + 1 \in Nat
    OBVIOUS
  <2>2. k + 1 <= n => \E f \in [0..(k + 1) -> S] : Up(k + 1, f)
    BY <1>2
  <2> QED BY <2>1, <2>2
<1> HIDE DEF T
<1>4. n \in T
  <2>1. T \in SUBSET Nat
    BY DEF T
  <2> QED BY <1>1, <1>3, <2>1, Induction
<1> QED BY <1>4 DEF T, HasValues

LEMMA NatRecursion ==
    ASSUME NEW n \in Nat, NEW z \in Nat, NEW step \in [1..n -> [Nat -> Nat]]
    PROVE  \E f \in [0..n -> Nat] : f[0] = z /\ \A i \in 1..n : f[i] = step[i][f[i - 1]]
<1>1. \A S : \A y \in S, g \in [1..n -> [S -> S]] : HasValues(n, S, y, g)
  BY RecursionExists, Zenon
<1>2. HasValues(n, Nat, z, step)
  BY <1>1, Zenon
<1> QED BY <1>2, Zenon DEF HasValues

\* The numbers of the beginnings of a sequence of digits.
LEMMA PrefixesFacts ==
    ASSUME NEW x \in Nat, NEW s \in Seq(Nat), NEW base \in Nat
    PROVE  /\ Len(s) \in Nat /\ Prefixes(x, s, base) \in [0..Len(s) -> Nat]
           /\ Prefixes(x, s, base)[0] = x
           /\ \A i \in 1..Len(s) :
                 Prefixes(x, s, base)[i] = Prefixes(x, s, base)[i - 1] * base + s[i]
<1> DEFINE F(v) == [i \in 0..Len(s) |-> IF i = 0 THEN x ELSE v[i - 1] * base + s[i]]
           step == [i \in 1..Len(s) |-> [y \in Nat |-> y * base + s[i]]]
<1>0. Len(s) \in Nat
  OBVIOUS
<1>1. step \in [1..Len(s) -> [Nat -> Nat]]
  <2>1. \A i \in 1..Len(s), y \in Nat : y * base + s[i] \in Nat
    OBVIOUS
  <2> QED BY <2>1
<1>2. \A i \in 1..Len(s), y \in Nat : step[i][y] = y * base + s[i]
  OBVIOUS
<1> HIDE DEF step
<1>3. PICK f \in [0..Len(s) -> Nat] :
          f[0] = x /\ \A i \in 1..Len(s) : f[i] = step[i][f[i - 1]]
  BY <1>0, <1>1, NatRecursion, Zenon
<1>4. \A i \in 1..Len(s) : f[i] = f[i - 1] * base + s[i]
  <2>1. \A i \in 1..Len(s) : f[i - 1] \in Nat
    BY <1>0
  <2> QED BY <1>2, <1>3, <2>1
<1>5. f = F(f)
  BY <1>3, <1>4
<1>6. Prefixes(x, s, base) = F(Prefixes(x, s, base))
  BY <1>5, Zenon DEF Prefixes
<1> DEFINE P == Prefixes(x, s, base)
<1> HIDE DEF P
<1>7. P = [i \in 0..Len(s) |-> IF i = 0 THEN x ELSE P[i - 1] * base + s[i]]
  BY <1>6 DEF P
<1>8. P[0] = x /\ \A i \in 1..Len(s) : P[i] = P[i - 1] * base + s[i]
  <2>1. 0 \in 0..Len(s) /\ \A i \in 1..Len(s) : i \in 0..Len(s) /\ i # 0
    BY <1>0
  <2>2. \A i \in 0..Len(s) : P[i] = IF i = 0 THEN x ELSE P[i - 1] * base + s[i]
    BY <1>7, Zenon
  <2> QED BY <2>1, <2>2
<1> DEFINE T == {i \in Nat : i <= Len(s) => P[i] \in Nat}
<1>9. 0 \in T /\ \A i \in T : i + 1 \in T
  <2>1. 0 \in T
    BY <1>8
  <2>2. ASSUME NEW i \in T, i + 1 <= Len(s) PROVE P[i + 1] \in Nat
    <3>1. P[i] \in Nat /\ s[i + 1] \in Nat /\ i + 1 \in 1..Len(s) /\ i + 1 - 1 = i
      BY <2>2
    <3>2. P[i + 1] = P[i] * base + s[i + 1]
      BY <1>8, <3>1
    <3> QED BY <3>1, <3>2
  <2> QED BY <2>1, <2>2
<1> HIDE DEF T
<1>10. \A i \in Nat : i \in T
  <2>1. T \in SUBSET Nat
    BY DEF T
  <2> QED BY <1>9, <2>1, Induction
<1>11. \A i \in 0..Len(s) : P[i] \in Nat
  BY <1>10 DEF T
<1>12. P \in [0..Len(s) -> Nat]
  BY <1>7, <1>11
<1> QED BY <1>8, <1>12 DEF P

LEMMA SeqFacts ==
    ASSUME NEW S, NEW s \in Seq(S)
    PROVE  Len(s) \in Nat /\ DOMAIN s = 1..Len(s) /\ \A i \in 1..Len(s) : s[i] \in S
OBVIOUS

LEMMA BaseFacts ==
    /\ Base \in Nat /\ Radix \in Nat \ {0, 1} /\ Radix < Base /\ Base <= Radix * Radix
    /\ Digits = 0..(Radix - 1) /\ 0 \in Digits /\ Digits \subseteq Nat
    /\ 0..(Base - 1) \subseteq Nat /\ 0 \in 0..(Base - 1)
    /\ \A t \in Nat : t % Radix \in Digits /\ t \div Radix \in Nat
                      /\ t = (t \div Radix) * Radix + (t % Radix)
BY ConstantsAssumption DEF Digits

\* What is carried from byte to byte.
LEMMA RemaindersFacts ==
    ASSUME NEW s \in Seq(0..(Base - 1)), NEW start \in Nat
    PROVE  /\ Len(s) \in Nat /\ \A i \in 0..Len(s) : Remainders(s, start)[i] \in Digits
           /\ \A i \in 0..Len(s) : i <= start => Remainders(s, start)[i] = 0
           /\ \A i \in 1..Len(s) : i > start =>
                 Remainders(s, start)[i] = (Remainders(s, start)[i - 1] * Base + s[i]) % Radix
<1> DEFINE F(v) == [i \in 0..Len(s) |->
                       IF i <= start THEN 0 ELSE (v[i - 1] * Base + s[i]) % Radix]
           step == [i \in 1..Len(s) |-> [y \in Nat |->
                       IF i <= start THEN 0 ELSE (y * Base + s[i]) % Radix]]
<1>0. Len(s) \in Nat /\ \A i \in 1..Len(s) : s[i] \in 0..(Base - 1) /\ s[i] \in Nat
  <2>1. Len(s) \in Nat /\ \A i \in 1..Len(s) : s[i] \in 0..(Base - 1)
    BY SeqFacts, Zenon
  <2> QED BY <2>1, BaseFacts
<1>1. \A i \in 1..Len(s), y \in Nat :
          y * Base + s[i] \in Nat /\ (y * Base + s[i]) % Radix \in Digits
  <2>1. \A y, b, d \in Nat : y * b + d \in Nat
    OBVIOUS
  <2> QED BY <1>0, <2>1, BaseFacts
<1>2. step \in [1..Len(s) -> [Nat -> Nat]]
  BY <1>1, BaseFacts
<1>3. \A i \in 1..Len(s), y \in Nat :
          step[i][y] = IF i <= start THEN 0 ELSE (y * Base + s[i]) % Radix
  OBVIOUS
<1> HIDE DEF step
<1>4. PICK f \in [0..Len(s) -> Nat] : f[0] = 0 /\ \A i \in 1..Len(s) : f[i] = step[i][f[i - 1]]
  <2>1. 0 \in Nat
    OBVIOUS
  <2> QED BY <1>0, <1>2, <2>1, NatRecursion, Zenon
<1>5. \A i \in 1..Len(s) : f[i] = IF i <= start THEN 0 ELSE (f[i - 1] * Base + s[i]) % Radix
  <2>1. \A i \in 1..Len(s) : i - 1 \in 0..Len(s)
    BY <1>0
  <2>2. \A i \in 1..Len(s) : f[i - 1] \in Nat
    BY <2>1
  <2> QED BY <1>3, <1>4, <2>2
<1>6. f = F(f)
  BY <1>4, <1>5
<1>7. Remainders(s, start) = F(Remainders(s, start))
  BY <1>6, Zenon DEF Remainders
<1> DEFINE r == Remainders(s, start)
<1> HIDE DEF r
<1>8. \A i \in 0..Len(s) : r[i] = IF i <= start THEN 0 ELSE (r[i - 1] * Base + s[i]) % Radix
  <2>1. r = [i \in 0..Len(s) |-> IF i <= start THEN 0 ELSE (r[i - 1] * Base + s[i]) % Radix]
    BY <1>7 DEF r
  <2> QED BY <2>1, Zenon
<1> DEFINE T == {i \in Nat : i <= Len(s) => r[i] \in Digits}
<1>9. 0 \in T
  <2>1. 0 \in 0..Len(s) /\ 0 <= start
    BY <1>0
  <2>2. r[0] = 0
    BY <1>8, <2>1
  <2> QED BY <2>2, BaseFacts
<1>10. ASSUME NEW i \in T PROVE i + 1 \in T
  <2>1. SUFFICES ASSUME i + 1 <= Len(s) PROVE r[i + 1] \in Digits
    OBVIOUS
  <2>2. r[i] \in Digits /\ i + 1 \in 1..Len(s) /\ i + 1 - 1 = i /\ i + 1 \in 0..Len(s)
    BY <2>1, <1>0
  <2>3. r[i + 1] = IF i + 1 <= start THEN 0 ELSE (r[i] * Base + s[i + 1]) % Radix
    BY <1>8, <2>2
  <2>4. r[i] \in Nat /\ (r[i] * Base + s[i + 1]) % Radix \in Digits
    BY <1>1, <2>2, BaseFacts
  <2> QED BY <2>3, <2>4, BaseFacts
<1> HIDE DEF T
<1>11. \A i \in Nat : i \in T
  <2>1. T \in SUBSET Nat
    BY DEF T
  <2> QED BY <1>9, <1>10, <2>1, Induction
<1>12. \A i \in 0..Len(s) : r[i] \in Digits
  BY <1>11, <1>0 DEF T
<1>13. \A i \in 0..Len(s) : i <= start => r[i] = 0
  BY <1>8
<1>14. \A i \in 1..Len(s) : i > start => r[i] = (r[i - 1] * Base + s[i]) % Radix
  BY <1>0, <1>8
<1> QED BY <1>0, <1>12, <1>13, <1>14 DEF r

-----------------------------------------------------------------------------
(* Numbers and their digits. *)

\* Zeros in front count for nothing.
LEMMA ZeroPrefix ==
    ASSUME NEW s \in Seq(Nat), NEW base \in Nat, NEW k \in 0..Len(s), \A i \in 1..k : s[i] = 0
    PROVE  Prefixes(0, s, base)[k] = 0
<1> DEFINE P == Prefixes(0, s, base)
           T == {i \in Nat : i <= k => P[i] = 0}
<1>0. /\ Len(s) \in Nat /\ k \in Nat /\ k <= Len(s) /\ P[0] = 0
      /\ \A i \in 1..Len(s) : P[i] = P[i - 1] * base + s[i]
  BY PrefixesFacts
<1> HIDE DEF P
<1>1. 0 \in T
  BY <1>0
<1>2. ASSUME NEW i \in T PROVE i + 1 \in T
  <2>1. SUFFICES ASSUME i + 1 <= k PROVE P[i + 1] = 0
    OBVIOUS
  <2>2. i + 1 \in 1..Len(s) /\ i + 1 \in 1..k /\ i + 1 - 1 = i /\ P[i] = 0 /\ s[i + 1] = 0
    BY <1>0, <2>1
  <2>3. P[i + 1] = 0 * base + 0
    BY <1>0, <2>2
  <2> QED BY <2>3
<1> HIDE DEF T
<1>3. k \in T
  <2>1. T \in SUBSET Nat
    BY DEF T
  <2> QED BY <1>0, <1>1, <1>2, <2>1, Induction
<1> QED BY <1>0, <1>3 DEF T, P

\* The digits s follow the first k digits of t, which make the number x to y.
Follows(s, t, k, x, y, base) ==
    /\ Len(t) = k + Len(s) /\ \A i \in 1..Len(s) : t[k + i] = s[i]
    /\ Prefixes(x, t, base)[k] = y

\* The first digits of a number may be read before the others.
LEMMA Suffix ==
    ASSUME NEW s \in Seq(Nat), NEW t \in Seq(Nat), NEW k \in Nat,
           NEW x \in Nat, NEW y \in Nat, NEW base \in Nat
    PROVE  Follows(s, t, k, x, y, base) => Behind(x, t, base) = Behind(y, s, base)
<1> DEFINE P == Prefixes(x, t, base)
           Q == Prefixes(y, s, base)
           T == {i \in Nat : i <= Len(s) => P[k + i] = Q[i]}
<1>a. Len(s) \in Nat /\ Q[0] = y /\ \A i \in 1..Len(s) : Q[i] = Q[i - 1] * base + s[i]
  BY PrefixesFacts
<1>b. Len(t) \in Nat /\ \A i \in 1..Len(t) : P[i] = P[i - 1] * base + t[i]
  BY PrefixesFacts
<1> SUFFICES ASSUME Len(t) = k + Len(s), P[k] = y, \A i \in 1..Len(s) : t[k + i] = s[i]
             PROVE  P[Len(t)] = Q[Len(s)]
  BY DEF Behind, Follows
<1> HIDE DEF P, Q
<1>1. 0 \in T
  BY <1>a
<1>2. ASSUME NEW i \in T PROVE i + 1 \in T
  <2>1. SUFFICES ASSUME i + 1 <= Len(s) PROVE P[k + (i + 1)] = Q[i + 1]
    OBVIOUS
  <2>2. /\ i + 1 \in 1..Len(s) /\ k + (i + 1) \in 1..Len(t) /\ i + 1 - 1 = i
        /\ k + (i + 1) - 1 = k + i /\ P[k + i] = Q[i] /\ t[k + (i + 1)] = s[i + 1]
    BY <1>a, <2>1
  <2>3. Q[i + 1] = Q[i] * base + s[i + 1]
    BY <1>a, <2>2
  <2>4. \A m \in 1..Len(t) : m - 1 = k + i => P[m] = P[k + i] * base + t[m]
    BY <1>b
  <2>5. P[k + (i + 1)] = P[k + i] * base + t[k + (i + 1)]
    BY <2>2, <2>4
  <2> QED BY <2>2, <2>3, <2>5
<1> HIDE DEF T
<1>3. Len(s) \in T
  <2>1. T \in SUBSET Nat
    BY DEF T
  <2> QED BY <1>a, <1>1, <1>2, <2>1, Induction
<1> QED BY <1>a, <1>3 DEF T

-----------------------------------------------------------------------------
(* One pass. *)

LEMMA Products ==
    /\ \A a, b \in Nat : a * b \in Nat
    /\ \A a, b, c \in Nat : a <= b => a * c <= b * c
    /\ \A a, b \in Nat : (a + 1) * b = a * b + b
OBVIOUS

\* Bytes and digits are numbers.
LEMMA NumberSeq ==
    ASSUME NEW S \in SUBSET Nat, NEW s \in Seq(S)
    PROVE  s \in Seq(Nat) /\ Len(s) \in Nat /\ \A i \in 1..Len(s) : s[i] \in S /\ s[i] \in Nat
<1>1. Len(s) \in Nat /\ DOMAIN s = 1..Len(s) /\ \A i \in 1..Len(s) : s[i] \in S
  BY SeqFacts, Zenon
<1>2. \A i \in 1..Len(s) : s[i] \in Nat
  BY <1>1, Zenon
<1>3. s \in [1..Len(s) -> Nat]
  <2>1. s = [i \in 1..Len(s) |-> s[i]]
    BY <1>1
  <2> QED BY <1>2, <2>1, Zenon
<1>4. \A n \in Nat : \A f \in [1..n -> Nat] : f \in Seq(Nat)
  OBVIOUS
<1> QED BY <1>1, <1>2, <1>3, <1>4, Zenon

\* The quotient of a byte is a byte: the assignment cuts nothing off.
LEMMA QuotientIsByte ==
    ASSUME NEW y \in Digits, NEW d \in 0..(Base - 1)
    PROVE  /\ y * Base + d \in Nat
           /\ (y * Base + d) \div Radix \in 0..(Base - 1)
           /\ Byte((y * Base + d) \div Radix) = (y * Base + d) \div Radix
<1> DEFINE t == y * Base + d
           q == t \div Radix
<1>1. y \in Nat /\ y + 1 <= Radix /\ d \in Nat /\ d < Base /\ Base \in Nat /\ Radix \in Nat
  BY BaseFacts
<1>2. y * Base \in Nat /\ (y + 1) * Base <= Radix * Base /\ (y + 1) * Base = y * Base + Base
  BY <1>1, Products
<1>3. t \in Nat /\ t < Radix * Base
  BY <1>1, <1>2
<1> HIDE DEF t
<1>4. q \in Nat /\ t % Radix \in Nat /\ t = q * Radix + (t % Radix)
  BY <1>3, BaseFacts
<1> HIDE DEF q
<1>5. Base <= q => Base * Radix <= q * Radix
  BY <1>1, <1>4, Products
<1>6. Base * Radix = Radix * Base /\ q * Radix \in Nat
  BY <1>1, <1>4, Products
<1>7. ~(Base <= q)
  <2>1. q * Radix <= t
    BY <1>4, <1>6
  <2>2. q * Radix < Base * Radix /\ Base * Radix \in Nat
    BY <1>1, <1>3, <1>4, <1>6, <2>1, Products
  <2> QED BY <1>5, <1>6, <2>2
<1>8. q \in 0..(Base - 1) /\ q % Base = q
  BY <1>1, <1>4, <1>7
<1> QED BY <1>3, <1>8 DEF Byte, q, t

\* The step of the division by hand.
LEMMA DivisionStep ==
    \A v, y, d, q, m \in Nat :
        y * Base + d = q * Radix + m
            => (v * Radix + y) * Base + d = (v * Base + q) * Radix + m
<1> SUFFICES ASSUME NEW v \in Nat, NEW y \in Nat, NEW d \in Nat, NEW q \in Nat, NEW m \in Nat,
                    y * Base + d = q * Radix + m
             PROVE  (v * Radix + y) * Base + d = (v * Base + q) * Radix + m
  OBVIOUS
<1>1. Base \in Nat /\ Radix \in Nat
  BY BaseFacts
<1>2. (v * Radix + y) * Base = (v * Radix) * Base + y * Base
  BY <1>1
<1>3. (v * Base + q) * Radix = (v * Base) * Radix + q * Radix
  BY <1>1
<1>4. (v * Radix) * Base = (v * Base) * Radix
  BY <1>1
<1>5. /\ (v * Radix) * Base \in Nat /\ y * Base \in Nat /\ q * Radix \in Nat
      /\ (v * Base) * Radix \in Nat
  BY <1>1, Products
<1> QED BY <1>2, <1>3, <1>4, <1>5

LEMMA DivisionFacts ==
    ASSUME NEW s \in Seq(0..(Base - 1)), NEW start \in Nat, start < Len(s),
           \A i \in 1..start : s[i] = 0
    PROVE  LET q == Division(s, start).quotient
               m == Division(s, start).remainder
           IN  /\ q \in Seq(0..(Base - 1)) /\ Len(q) = Len(s) /\ m \in Digits
               /\ \A i \in 1..start : q[i] = 0
               /\ q[start + 1] = s[start + 1] \div Radix
               /\ Value(s, Base) = Value(q, Base) * Radix + m
<1> DEFINE n == Len(s)
           r == Remainders(s, start)
           t(i) == r[i - 1] * Base + s[i]
           q == [i \in 1..n |-> IF i <= start THEN s[i] ELSE Byte(t(i) \div Radix)]
           m == r[n]
           P == Prefixes(0, s, Base)
           Q == Prefixes(0, q, Base)
<1>1. Division(s, start).quotient = q /\ Division(s, start).remainder = m
  BY DEF Division
<1>2. /\ s \in Seq(Nat) /\ n \in Nat
      /\ \A i \in 1..n : s[i] \in 0..(Base - 1) /\ s[i] \in Nat
  BY NumberSeq, BaseFacts
<1>3. \A i \in 0..n : r[i] \in Digits /\ r[i] \in Nat /\ (i <= start => r[i] = 0)
  BY RemaindersFacts, BaseFacts
<1>4. \A i \in 1..n : i > start => r[i] = t(i) % Radix
  BY RemaindersFacts
<1> HIDE DEF r
<1>5. ASSUME NEW i \in 1..n
      PROVE  /\ t(i) \in Nat /\ t(i) \div Radix \in 0..(Base - 1)
             /\ Byte(t(i) \div Radix) = t(i) \div Radix
  <2>1. r[i - 1] \in Digits /\ s[i] \in 0..(Base - 1)
    BY <1>2, <1>3
  <2> QED BY <2>1, QuotientIsByte
<1>6. \A i \in 1..n : q[i] \in 0..(Base - 1)
  BY <1>2, <1>5
<1>7. q \in Seq(0..(Base - 1)) /\ Len(q) = n
  BY <1>2, <1>6
<1>8. \A i \in 1..n : i <= start => q[i] = 0 /\ s[i] = 0
  BY <1>2
<1>9. \A i \in 1..n : i > start => q[i] = t(i) \div Radix
  BY <1>5
<1> HIDE DEF q
<1>10. m \in Digits
  BY <1>2, <1>3
<1>11. q[start + 1] = s[start + 1] \div Radix
  <2>1. start + 1 \in 1..n /\ start + 1 - 1 = start /\ start \in 0..n
    BY <1>2
  <2>2. r[start] = 0 /\ s[start + 1] \in Nat /\ Base \in Nat
    BY <1>2, <1>3, <2>1, BaseFacts
  <2>3. t(start + 1) = s[start + 1]
    BY <2>1, <2>2
  <2> QED BY <1>9, <2>1, <2>3
<1>12. /\ P \in [0..n -> Nat] /\ P[0] = 0
       /\ \A i \in 1..n : P[i] = P[i - 1] * Base + s[i]
  <2>1. 0 \in Nat /\ Base \in Nat /\ s \in Seq(Nat)
    BY <1>2, BaseFacts
  <2> QED BY <2>1, PrefixesFacts, Zenon
<1>13. q \in Seq(Nat)
  BY <1>7, NumberSeq, BaseFacts
<1>14. /\ Q \in [0..n -> Nat] /\ Q[0] = 0
       /\ \A i \in 1..n : Q[i] = Q[i - 1] * Base + q[i]
  <2>1. 0 \in Nat /\ Base \in Nat
    BY BaseFacts
  <2>2. /\ Q \in [0..Len(q) -> Nat] /\ Q[0] = 0
        /\ \A i \in 1..Len(q) : Q[i] = Q[i - 1] * Base + q[i]
    BY <1>13, <2>1, PrefixesFacts, Zenon
  <2> QED BY <1>7, <2>2, Zenon
<1>15. Value(s, Base) = P[n] /\ Value(q, Base) = Q[n]
  BY <1>7 DEF Value, Behind
<1> HIDE DEF P, Q
<1> DEFINE T == {i \in Nat : start + i <= n => P[start + i] = Q[start + i] * Radix + r[start + i]}
<1>16. 0 \in T
  <2>1. start \in 0..n /\ start + 0 = start
    BY <1>2
  <2>2. P[start] = 0
    BY <1>2, <2>1, BaseFacts, ZeroPrefix DEF P
  <2>3. Q[start] = 0
    <3>1. \A i \in 1..start : q[i] = 0
      BY <1>2, <1>8
    <3>2. start \in 0..Len(q)
      BY <1>7, <2>1
    <3> QED BY <1>13, <3>1, <3>2, BaseFacts, ZeroPrefix DEF Q
  <2>4. r[start] = 0
    BY <1>3, <2>1
  <2>5. 0 = 0 * Radix + 0
    BY BaseFacts
  <2> QED BY <2>1, <2>2, <2>3, <2>4, <2>5
<1>17. ASSUME NEW k \in T PROVE k + 1 \in T
  <2>1. SUFFICES ASSUME start + (k + 1) <= n
                 PROVE  P[start + (k + 1)] = Q[start + (k + 1)] * Radix + r[start + (k + 1)]
    OBVIOUS
  <2>2. PICK i \in Nat : i = start + k
    OBVIOUS
  <2>3. i + 1 \in 1..n /\ i + 1 > start /\ i + 1 - 1 = i /\ i \in 0..n /\ start + (k + 1) = i + 1
    BY <1>2, <2>1, <2>2
  <2>4. P[i] = Q[i] * Radix + r[i]
    BY <2>2, <2>3
  <2>5. P[i + 1] = P[i] * Base + s[i + 1] /\ Q[i + 1] = Q[i] * Base + q[i + 1]
    BY <1>12, <1>14, <2>3
  <2>6. /\ t(i + 1) = r[i] * Base + s[i + 1] /\ q[i + 1] = t(i + 1) \div Radix
        /\ r[i + 1] = t(i + 1) % Radix /\ t(i + 1) \in Nat
    BY <1>4, <1>5, <1>9, <2>3
  <2>7. r[i] * Base + s[i + 1] = q[i + 1] * Radix + r[i + 1] /\ q[i + 1] \in Nat /\ r[i + 1] \in Nat
    BY <2>6, BaseFacts
  <2>8. Q[i] \in Nat /\ r[i] \in Nat /\ s[i + 1] \in Nat
    BY <1>2, <1>3, <1>14, <2>3
  <2>9. PICK v \in Nat, y \in Nat, d \in Nat, z \in Nat, e \in Nat :
            v = Q[i] /\ y = r[i] /\ d = s[i + 1] /\ z = q[i + 1] /\ e = r[i + 1]
    BY <2>7, <2>8
  <2>10. y * Base + d = z * Radix + e
    BY <2>7, <2>9
  <2>11. (v * Radix + y) * Base + d = (v * Base + z) * Radix + e
    BY <2>10, DivisionStep
  <2>12. P[i + 1] = (v * Radix + y) * Base + d /\ Q[i + 1] = v * Base + z
    BY <2>4, <2>5, <2>9
  <2> QED BY <2>3, <2>9, <2>11, <2>12
<1> HIDE DEF T
<1>18. n - start \in T
  <2>1. T \in SUBSET Nat /\ n - start \in Nat
    BY <1>2 DEF T
  <2> QED BY <1>16, <1>17, <2>1, Induction
<1>19. P[n] = Q[n] * Radix + m
  <2>1. start + (n - start) = n
    BY <1>2
  <2> QED BY <1>2, <1>18, <2>1 DEF T
<1>20. \A i \in 1..start : q[i] = 0
  BY <1>2, <1>8
<1> QED BY <1>1, <1>7, <1>10, <1>11, <1>15, <1>19, <1>20

-----------------------------------------------------------------------------
(* Leading zeros, and the text. *)

LeadingZeros(s, z) ==
    z \in 0..Len(s) /\ (\A i \in 1..z : s[i] = 0) /\ (z < Len(s) => s[z + 1] # 0)

LEMMA ZerosFacts ==
    ASSUME NEW s \in Seq(Nat)
    PROVE  LeadingZeros(s, Zeros(s)) /\ \A z : LeadingZeros(s, z) => z = Zeros(s)
<1> DEFINE T == {k \in Nat : k <= Len(s) =>
                    (\E z \in 0..Len(s) : LeadingZeros(s, z)) \/ (\A i \in 1..k : s[i] = 0)}
<1>1. Len(s) \in Nat
  OBVIOUS
<1>2. 0 \in T
  OBVIOUS
<1>3. ASSUME NEW k \in T PROVE k + 1 \in T
  <2> SUFFICES ASSUME k + 1 <= Len(s), ~(\E z \in 0..Len(s) : LeadingZeros(s, z)),
                      NEW i \in 1..(k + 1)
               PROVE  s[i] = 0
    OBVIOUS
  <2>1. k \in Nat /\ k < Len(s) /\ \A h \in 1..k : s[h] = 0
    BY <1>1
  <2>2. s[k + 1] = 0
    BY <1>1, <2>1 DEF LeadingZeros
  <2> QED BY <2>1, <2>2
<1>4. Len(s) \in T
  <2>1. T \in SUBSET Nat
    OBVIOUS
  <2> HIDE DEF T
  <2> QED BY <1>1, <1>2, <1>3, <2>1, Induction
<1>5. \E z \in 0..Len(s) : LeadingZeros(s, z)
  <2>1. (\A i \in 1..Len(s) : s[i] = 0) => LeadingZeros(s, Len(s)) /\ Len(s) \in 0..Len(s)
    BY <1>1 DEF LeadingZeros
  <2> QED BY <1>1, <1>4, <2>1
<1>6. Zeros(s) = CHOOSE z \in 0..Len(s) : (\A i \in 1..z : s[i] = 0) /\ (z < Len(s) => s[z + 1] # 0)
  BY DEF Zeros
<1>7. LeadingZeros(s, Zeros(s))
  BY <1>5, <1>6, Zenon DEF LeadingZeros
<1>8. ASSUME NEW y, NEW z, LeadingZeros(s, y), LeadingZeros(s, z), y < z PROVE FALSE
  BY <1>1, <1>8 DEF LeadingZeros
<1>9. ASSUME NEW z, LeadingZeros(s, z) PROVE z = Zeros(s)
  <2>1. z \in Nat /\ Zeros(s) \in Nat
    BY <1>7, <1>9 DEF LeadingZeros
  <2>2. ~(z < Zeros(s)) /\ ~(Zeros(s) < z)
    BY <1>7, <1>8, <1>9
  <2> QED BY <2>1, <2>2
<1> QED BY <1>7, <1>9

\* The number of a sequence is that of what follows its first zeros.
LEMMA ZerosCountNothing ==
    ASSUME NEW s \in Seq(Nat), NEW t \in Seq(Nat), NEW k \in Nat, NEW base \in Nat
    PROVE  /\ Len(t) = k + Len(s) /\ \A i \in 1..Len(s) : t[k + i] = s[i]
           /\ \A i \in 1..k : t[i] = 0
           => Value(t, base) = Value(s, base)
<1>1. ASSUME Len(t) = k + Len(s), \A i \in 1..Len(s) : t[k + i] = s[i], \A i \in 1..k : t[i] = 0
      PROVE  Follows(s, t, k, 0, 0, base)
  <2>1. k \in 0..Len(t)
    BY <1>1
  <2>2. Prefixes(0, t, base)[k] = 0
    BY <1>1, <2>1, ZeroPrefix
  <2> QED BY <1>1, <2>2 DEF Follows
<1>2. Follows(s, t, k, 0, 0, base) => Behind(0, t, base) = Behind(0, s, base)
  <2>1. 0 \in Nat
    OBVIOUS
  <2> QED BY <2>1, Suffix, SMT
<1> QED BY <1>1, <1>2 DEF Value

\* The text has the number of the digits written, and the zeros that were
\* counted; TextOf is Text.
TextOf(zeros, digits) ==
    [i \in 1..zeros |-> 0] \o SubSeq(digits, Zeros(digits) + 1, Len(digits))

LEMMA ConcatFacts ==
    ASSUME NEW S, NEW s \in Seq(S), NEW t \in Seq(S)
    PROVE  /\ s \o t \in Seq(S) /\ Len(s \o t) = Len(s) + Len(t)
           /\ \A i \in 1..Len(s) : (s \o t)[i] = s[i]
           /\ \A i \in 1..Len(t) : (s \o t)[Len(s) + i] = t[i]
OBVIOUS

LEMMA TextFacts ==
    ASSUME NEW z \in Nat, NEW w \in Seq(Digits)
    PROVE  /\ TextOf(z, w) \in Seq(Digits)
           /\ Value(TextOf(z, w), Radix) = Value(w, Radix) /\ Zeros(TextOf(z, w)) = z
<1> DEFINE k == Zeros(w)
           f == [i \in 1..z |-> 0]
           u == SubSeq(w, k + 1, Len(w))
           t == f \o u
<1>1. w \in Seq(Nat) /\ Len(w) \in Nat /\ Radix \in Nat
  BY NumberSeq, BaseFacts
<1>2. k \in 0..Len(w) /\ (\A i \in 1..k : w[i] = 0) /\ (k < Len(w) => w[k + 1] # 0)
  BY <1>1, ZerosFacts DEF LeadingZeros
<1> HIDE DEF k
<1>3. f \in Seq(Digits) /\ Len(f) = z /\ \A i \in 1..z : f[i] = 0
  BY BaseFacts
<1>4. /\ u \in Seq(Digits) /\ Len(u) = Len(w) - k
      /\ \A i \in 1..Len(u) : u[i] = w[k + i]
  BY <1>1, <1>2
<1> HIDE DEF f, u
<1>5. /\ t \in Seq(Digits) /\ Len(t) = z + Len(u)
      /\ \A i \in 1..Len(u) : t[z + i] = u[i]
      /\ \A i \in 1..z : t[i] = 0
  <2>1. f \in Seq(Digits) /\ u \in Seq(Digits)
    BY <1>3, <1>4
  <2>2. t \in Seq(Digits) /\ Len(t) = Len(f) + Len(u)
    BY <2>1, ConcatFacts, Zenon
  <2>3. \A i \in 1..Len(f) : t[i] = f[i]
    BY <2>1, ConcatFacts, Zenon
  <2>4. \A i \in 1..Len(u) : t[Len(f) + i] = u[i]
    BY <2>1, ConcatFacts
  <2> HIDE DEF t
  <2>5. \A i \in 1..Len(u) : t[z + i] = u[i]
    BY <1>3, <2>4
  <2>6. \A i \in 1..z : t[i] = 0
    BY <1>3, <2>3
  <2> QED BY <1>3, <2>2, <2>5, <2>6
<1> HIDE DEF t
<1>6. u \in Seq(Nat) /\ t \in Seq(Nat) /\ Len(u) \in Nat
  BY <1>4, <1>5, NumberSeq, BaseFacts
<1>7. Value(t, Radix) = Value(u, Radix)
  BY <1>1, <1>5, <1>6, ZerosCountNothing
<1>8. Value(w, Radix) = Value(u, Radix)
  <2>1. k \in Nat /\ Len(w) = k + Len(u) /\ \A i \in 1..Len(u) : w[k + i] = u[i]
    BY <1>1, <1>2, <1>4
  <2> QED BY <1>1, <1>2, <1>6, <2>1, ZerosCountNothing
<1>9. LeadingZeros(t, z)
  <2>1. z \in 0..Len(t)
    BY <1>5, <1>6
  <2>2. ASSUME z < Len(t) PROVE t[z + 1] # 0
    <3>0. Len(u) > 0 /\ k \in Nat
      <4>1. z < z + Len(u)
        BY <1>5, <2>2
      <4> QED BY <1>1, <1>2, <1>6, <4>1
    <3>1. 1 \in 1..Len(u) /\ k < Len(w)
      <4>1. Len(w) - k > 0
        BY <1>4, <3>0
      <4> QED BY <1>1, <1>6, <3>0, <4>1
    <3>2. t[z + 1] = u[1] /\ u[1] = w[k + 1]
      BY <1>4, <1>5, <3>1
    <3> QED BY <1>2, <3>1, <3>2
  <2> QED BY <1>5, <2>1, <2>2 DEF LeadingZeros
<1>10. Zeros(t) = z
  BY <1>6, <1>9, ZerosFacts
<1>11. TextOf(z, w) = t
  BY DEF TextOf, t, f, u, k
<1> QED BY <1>5, <1>7, <1>8, <1>10, <1>11

\* A digit written in front of the others is read before them.
LEMMA OneMoreDigit ==
    ASSUME NEW x \in Nat, NEW d \in Digits, NEW s \in Seq(Digits), NEW t \in Seq(Digits)
    PROVE  Len(t) = 1 + Len(s) /\ t[1] = d /\ (\A i \in 1..Len(s) : t[1 + i] = s[i])
           => Behind(x, t, Radix) = Behind(x * Radix + d, s, Radix)
<1>1. s \in Seq(Nat) /\ t \in Seq(Nat) /\ Radix \in Nat /\ d \in Nat /\ Len(s) \in Nat
  BY NumberSeq, BaseFacts
<1>2. Prefixes(x, t, Radix)[0] = x
  BY <1>1, PrefixesFacts
<1>3. \A i \in 1..Len(t) : Prefixes(x, t, Radix)[i] = Prefixes(x, t, Radix)[i - 1] * Radix + t[i]
  BY <1>1, PrefixesFacts
<1>4. ASSUME Len(t) = 1 + Len(s), t[1] = d, \A i \in 1..Len(s) : t[1 + i] = s[i]
      PROVE  Follows(s, t, 1, x, x * Radix + d, Radix)
  <2>1. 1 \in 1..Len(t) /\ 1 - 1 = 0
    BY <1>1, <1>4
  <2>2. Prefixes(x, t, Radix)[1] = Prefixes(x, t, Radix)[0] * Radix + t[1]
    BY <1>3, <2>1, Zenon
  <2>3. Prefixes(x, t, Radix)[1] = x * Radix + d
    BY <1>2, <1>4, <2>2, Zenon
  <2> QED BY <1>4, <2>3 DEF Follows
<1>5. x * Radix + d \in Nat /\ 1 \in Nat
  BY <1>1, Products
<1>6. Follows(s, t, 1, x, x * Radix + d, Radix)
         => Behind(x, t, Radix) = Behind(x * Radix + d, s, Radix)
  BY <1>1, <1>5, Suffix, SMT
<1> QED BY <1>4, <1>6

-----------------------------------------------------------------------------
(* The invariant. *)

\* Nothing has happened yet.
StartInv ==
    pc = "start" => tmp = in /\ zeroCount = 0 /\ startAt = 0 /\ j = 2 * Len(in)

\* The first startAt bytes are used up, each in at most two passes: after one
\* pass that does not clear it a byte is less than the radix.
PassInv ==
    pc = "divide" =>
        /\ zeroCount = Zeros(in)
        /\ \A i \in 1..startAt : tmp[i] = 0
        /\ j <= End /\ End - j <= 2 * (startAt - zeroCount) + 1
        /\ End - j = 2 * (startAt - zeroCount) + 1 =>
              startAt < Len(in) /\ tmp[startAt + 1] < Radix

IInv == TypeOK /\ StartInv /\ PassInv /\ LoopKeepsValue /\ EncodesInput

LEMMA InputFacts ==
    ASSUME NEW s \in Inputs
    PROVE  s \in Seq(0..(Base - 1)) /\ s \in Seq(Nat) /\ Len(s) \in Nat
<1>1. s \in Seq(0..(Base - 1))
  BY ConstantsAssumption
<1> QED BY <1>1, NumberSeq, BaseFacts

LEMMA IndexFacts ==
    /\ \A x \in Nat : /\ Index(x) \in 0..(IndexSpan - 1) /\ Index(x) <= x
                      /\ x < IndexSpan => Index(x) = x
    /\ Index(-1) = IndexSpan - 1 /\ IndexSpan \in Nat \ {0}
BY ConstantsAssumption DEF Index

LEMMA EndFacts ==
    ASSUME in \in Inputs
    PROVE  /\ End \in Nat /\ End <= 2 * Len(in) /\ End < IndexSpan /\ Len(in) \in Nat
           /\ End # 2 * Len(in) => IndexSpan <= 2 * Len(in)
<1>1. Len(in) \in Nat /\ 2 * Len(in) \in Nat /\ IndexSpan \in Nat
  BY InputFacts, IndexFacts
<1> QED BY <1>1, IndexFacts DEF End

LEMMA InitInv == ASSUME Init PROVE IInv
<1>1. in \in Inputs /\ in \in Seq(0..(Base - 1)) /\ Len(in) \in Nat
  BY InputFacts DEF Init
<1>2. TypeOK
  <2>1. tmp \in Seq(0..(Base - 1)) /\ Len(tmp) = Len(in)
    BY <1>1 DEF Init
  <2>2. zeroCount \in 0..Len(in) /\ startAt \in zeroCount..Len(in) /\ j \in 0..(2 * Len(in))
    BY <1>1 DEF Init
  <2>3. DOMAIN buffer = {} /\ j..(End - 1) = {}
    <3>1. DOMAIN buffer = {} /\ j = 2 * Len(in)
      BY DEF Init
    <3>2. End \in Nat /\ End <= 2 * Len(in)
      BY <1>1, EndFacts
    <3> QED BY <1>1, <3>1, <3>2
  <2>4. out \in Seq(Digits) /\ Len(out) <= MaxOut
    BY ConstantsAssumption DEF Init
  <2>5. pc = "start"
    BY DEF Init
  <2> QED BY <1>1, <2>1, <2>2, <2>3, <2>4, <2>5 DEF TypeOK
<1> QED BY <1>2 DEF Init, IInv, StartInv, PassInv, LoopKeepsValue, EncodesInput

\* The digits at some places of a buffer are a sequence.
LEMMA DigitsAt ==
    ASSUME NEW k \in Nat, NEW e \in Nat, k <= e, NEW b,
           \A i \in k..(e - 1) : b[i] \in Digits
    PROVE  LET w == [i \in 1..(e - k) |-> b[k + i - 1]]
           IN  /\ w \in Seq(Digits) /\ Len(w) = e - k
               /\ \A i \in 1..(e - k) : w[i] = b[k + i - 1]
<1>1. PICK n \in Nat : n = e - k
  OBVIOUS
<1>2. ASSUME NEW i \in 1..n PROVE b[k + i - 1] \in Digits
  <2>1. k + i - 1 \in k..(e - 1)
    BY <1>1
  <2> QED BY <2>1
<1>3. [i \in 1..n |-> b[k + i - 1]] \in Seq(Digits)
  BY <1>2
<1> QED BY <1>1, <1>3

\* The digits written so far.
LEMMA WrittenFacts ==
    ASSUME TypeOK, pc = "divide", j <= End
    PROVE  /\ Written \in Seq(Digits) /\ Len(Written) = End - j
           /\ \A i \in 1..(End - j) : Written[i] = buffer[j + i - 1]
<1>1. j \in Nat /\ End \in Nat
  BY EndFacts DEF TypeOK
<1>2. \A i \in j..(End - 1) : buffer[i] \in Digits
  BY DEF TypeOK
<1> QED BY <1>1, <1>2, DigitsAt DEF Written

LEMMA WrittenNext ==
    ASSUME in' = in, TypeOK', pc' = "divide", j' <= End
    PROVE  /\ Written' \in Seq(Digits) /\ Len(Written') = End - j'
           /\ \A i \in 1..(End - j') : Written'[i] = buffer'[j' + i - 1]
<1>1. j' \in Nat /\ End \in Nat /\ End' = End
  BY EndFacts DEF TypeOK, End
<1>2. \A i \in j'..(End - 1) : buffer'[i] \in Digits
  BY <1>1 DEF TypeOK
<1>3. Written' = [i \in 1..(End - j') |-> buffer'[j' + i - 1]]
  BY <1>1 DEF Written
<1> QED BY <1>1, <1>2, <1>3, DigitsAt

LEMMA StartStep == ASSUME IInv, Start PROVE IInv'
<1>1. /\ in \in Inputs /\ in \in Seq(0..(Base - 1)) /\ in \in Seq(Nat) /\ Len(in) \in Nat
      /\ pc = "start" /\ tmp = in /\ j = 2 * Len(in) /\ TypeOK
  BY InputFacts DEF IInv, TypeOK, StartInv, Start
<1>2. UNCHANGED <<in, tmp, buffer, out>> /\ End' = End /\ End \in Nat /\ End <= 2 * Len(in)
  BY <1>1, EndFacts DEF Start, End
<1>3. CASE Len(in) > ArraySize
  <2>1. pc' = "thrown" /\ UNCHANGED <<zeroCount, startAt, j>>
    BY <1>3 DEF Start
  <2>2. TypeOK'
    BY <1>1, <1>2, <2>1 DEF TypeOK
  <2> QED BY <2>1, <2>2 DEF IInv, StartInv, PassInv, LoopKeepsValue, EncodesInput
<1>4. CASE ~(Len(in) > ArraySize)
  <2>1. /\ pc' = "divide" /\ zeroCount' = Zeros(in) /\ startAt' = Zeros(in)
        /\ j' = End
    BY <1>4 DEF Start
  <2>3. Zeros(in) \in 0..Len(in) /\ \A i \in 1..Zeros(in) : in[i] = 0
    BY <1>1, ZerosFacts DEF LeadingZeros
  <2>4. TypeOK'
    <3>1. DOMAIN buffer' = {} /\ DOMAIN buffer' = j'..(End' - 1)
      <4>1. DOMAIN buffer = (2 * Len(in))..(End - 1)
        BY <1>1 DEF TypeOK
      <4>2. DOMAIN buffer = {}
        BY <1>1, <1>2, <4>1
      <4>3. j'..(End' - 1) = {}
        BY <1>2, <2>1
      <4> QED BY <1>2, <4>2, <4>3
    <3>2. startAt' \in zeroCount'..Len(in) /\ zeroCount' \in 0..Len(in)
      BY <1>1, <2>1, <2>3
    <3>3. /\ in' \in Inputs /\ tmp' \in Seq(0..(Base - 1)) /\ Len(tmp') = Len(in')
          /\ j' \in 0..(2 * Len(in')) /\ out' \in Seq(Digits) /\ Len(out') <= MaxOut
      BY <1>1, <1>2, <2>1 DEF TypeOK
    <3> QED BY <1>2, <2>1, <3>1, <3>2, <3>3 DEF TypeOK
  <2>5. PassInv'
    <3>1. End' - j' = 0 /\ j' <= End' /\ startAt' - zeroCount' = 0
      BY <1>1, <1>2, <2>1, <2>3
    <3>2. \A i \in 1..startAt' : tmp'[i] = 0
      BY <1>1, <1>2, <2>1, <2>3
    <3> QED BY <1>2, <2>1, <3>1, <3>2 DEF PassInv
  <2>6. LoopKeepsValue'
    <3>1. Written' \in Seq(Digits) /\ Len(Written') = 0
      <4>1. Written' \in Seq(Digits) /\ Len(Written') = End - j'
        BY <1>2, <2>1, <2>4, WrittenNext
      <4> QED BY <1>2, <2>1, <4>1
    <3>2. Value(tmp', Base) = Value(in, Base) /\ Value(in, Base) \in Nat
      <4>1. 0 \in Nat /\ Base \in Nat
        BY BaseFacts
      <4>2. Prefixes(0, in, Base) \in [0..Len(in) -> Nat]
        BY <1>1, <4>1, PrefixesFacts
      <4>3. Len(in) \in 0..Len(in)
        BY <1>1
      <4> QED BY <1>1, <1>2, <4>2, <4>3 DEF Value, Behind
    <3>3. Prefixes(Value(in, Base), Written', Radix)[0] = Value(in, Base)
      <4>1. Written' \in Seq(Nat) /\ Radix \in Nat
        BY <3>1, NumberSeq, BaseFacts
      <4> QED BY <3>2, <4>1, PrefixesFacts
    <3> QED BY <1>2, <3>1, <3>2, <3>3 DEF LoopKeepsValue, Behind
  <2> QED BY <2>1, <2>4, <2>5, <2>6 DEF IInv, StartInv, EncodesInput
<1> QED BY <1>3, <1>4

\* What a pass does to the quotient.
LEMMA PassFacts ==
    ASSUME IInv, Divide
    PROVE  /\ tmp' \in Seq(0..(Base - 1)) /\ Len(tmp') = Len(in)
           /\ \A i \in 1..startAt : tmp'[i] = 0
           /\ tmp'[startAt + 1] = tmp[startAt + 1] \div Radix
           /\ \E d \in Digits : /\ d = Division(tmp, startAt).remainder
                                /\ Value(tmp, Base) = Value(tmp', Base) * Radix + d
<1>1. /\ tmp \in Seq(0..(Base - 1)) /\ Len(tmp) = Len(in) /\ startAt < Len(tmp)
      /\ \A i \in 1..startAt : tmp[i] = 0
  BY DEF IInv, TypeOK, PassInv, Divide
<1>2. startAt \in Nat
  BY InputFacts DEF IInv, TypeOK
<1>3. tmp' = Division(tmp, startAt).quotient
  BY DEF Divide
<1>4. /\ Division(tmp, startAt).quotient \in Seq(0..(Base - 1))
      /\ Len(Division(tmp, startAt).quotient) = Len(tmp)
      /\ Division(tmp, startAt).remainder \in Digits
      /\ \A i \in 1..startAt : Division(tmp, startAt).quotient[i] = 0
      /\ Division(tmp, startAt).quotient[startAt + 1] = tmp[startAt + 1] \div Radix
      /\ Value(tmp, Base) = Value(Division(tmp, startAt).quotient, Base) * Radix
                              + Division(tmp, startAt).remainder
  BY <1>1, <1>2, DivisionFacts
<1> QED BY <1>1, <1>3, <1>4, Zenon

\* A byte takes at most two passes.
LEMMA TwoPasses ==
    /\ \A x \in 0..(Base - 1) : x \div Radix \in Nat /\ x \div Radix < Radix
    /\ \A x \in Nat : x < Radix => x \div Radix = 0
<1>1. ASSUME NEW x \in 0..(Base - 1) PROVE x \div Radix \in Nat /\ x \div Radix < Radix
  <2> DEFINE q == x \div Radix
  <2>1. x \in Nat /\ x < Radix * Radix /\ Radix \in Nat
    BY BaseFacts
  <2>2. q \in Nat /\ x % Radix \in Nat /\ x = q * Radix + (x % Radix)
    BY <2>1, BaseFacts
  <2> HIDE DEF q
  <2>3. Radix <= q => Radix * Radix <= q * Radix
    BY <2>1, <2>2, Products
  <2>4. q * Radix \in Nat /\ Radix * Radix \in Nat
    BY <2>1, <2>2, Products
  <2>5. q * Radix <= x
    BY <2>2, <2>4
  <2>6. ~(Radix <= q)
    BY <2>1, <2>3, <2>4, <2>5
  <2>7. q < Radix
    BY <2>1, <2>2, <2>6
  <2> QED BY <2>2, <2>7 DEF q
<1>2. ASSUME NEW x \in Nat, x < Radix PROVE x \div Radix = 0
  <2> DEFINE q == x \div Radix
  <2>1. q \in Nat /\ x % Radix \in Nat /\ x = q * Radix + (x % Radix) /\ Radix \in Nat
    BY BaseFacts
  <2> HIDE DEF q
  <2>2. 1 <= q => 1 * Radix <= q * Radix
    BY <2>1, Products
  <2>3. q * Radix \in Nat /\ q * Radix <= x
    BY <2>1, Products
  <2>4. ~(1 <= q)
    BY <1>2, <2>1, <2>2, <2>3
  <2> QED BY <2>1, <2>4 DEF q
<1> QED BY <1>1, <1>2

LEMMA DivideStep == ASSUME IInv, Divide PROVE IInv'
<1>1. /\ in \in Inputs /\ Len(in) \in Nat /\ End \in Nat /\ End <= 2 * Len(in)
      /\ pc = "divide" /\ startAt < Len(in) /\ TypeOK
  BY InputFacts, EndFacts DEF IInv, TypeOK, Divide
<1>2. in' = in /\ zeroCount' = zeroCount /\ out' = out /\ End' = End
  BY DEF Divide, End
<1>3. /\ zeroCount \in 0..Len(in) /\ startAt \in zeroCount..Len(in) /\ j \in 0..(2 * Len(in))
      /\ startAt \in Nat /\ zeroCount \in Nat /\ j \in Nat
  BY <1>1 DEF TypeOK
<1>4. /\ zeroCount = Zeros(in) /\ j <= End /\ End - j <= 2 * (startAt - zeroCount) + 1
      /\ End - j = 2 * (startAt - zeroCount) + 1 => tmp[startAt + 1] < Radix
  BY <1>1 DEF IInv, PassInv
<1>5. j' = Index(j - 1)
  BY DEF Divide
<1>6. /\ j' \in 0..(2 * Len(in)) /\ j' \in Nat
      /\ j' < ArraySize => j' = j - 1
  <2>1. CASE j = 0
    <3>1. j' = IndexSpan - 1
      BY <1>5, <2>1, IndexFacts
    <3>2. End # 2 * Len(in)
      BY <1>1, <1>3, <1>4, <2>1
    <3>3. IndexSpan <= 2 * Len(in) /\ IndexSpan \in Nat \ {0}
      BY <1>1, <3>2, EndFacts, IndexFacts
    <3> QED BY <1>1, <3>1, <3>3, ConstantsAssumption
  <2>2. CASE j # 0
    <3>1. j - 1 \in Nat /\ j - 1 < IndexSpan
      BY <1>1, <1>3, <1>4, <2>2, EndFacts, IndexFacts
    <3>2. j' = j - 1
      BY <1>5, <3>1, IndexFacts
    <3> QED BY <1>1, <1>3, <3>1, <3>2
  <2> QED BY <2>1, <2>2
<1>7. PICK d \in Digits :
          d = Division(tmp, startAt).remainder /\ Value(tmp, Base) = Value(tmp', Base) * Radix + d
  BY PassFacts
<1>8. /\ tmp' \in Seq(0..(Base - 1)) /\ Len(tmp') = Len(in)
      /\ \A i \in 1..startAt : tmp'[i] = 0
      /\ tmp'[startAt + 1] = tmp[startAt + 1] \div Radix
  BY PassFacts
<1>9. tmp[startAt + 1] \in 0..(Base - 1) /\ tmp'[startAt + 1] \in 0..(Base - 1)
  <2>1. startAt + 1 \in 1..Len(tmp) /\ startAt + 1 \in 1..Len(tmp')
    BY <1>1, <1>3, <1>8 DEF TypeOK
  <2>2. tmp \in Seq(0..(Base - 1))
    BY <1>1 DEF TypeOK
  <2> QED BY <1>8, <2>1, <2>2, SeqFacts
<1>10. startAt' = IF tmp'[startAt + 1] = 0 THEN startAt + 1 ELSE startAt
  BY DEF Divide
<1>11. startAt' \in zeroCount..Len(in)
  BY <1>1, <1>3, <1>10
<1>12. \A i \in 1..startAt' : tmp'[i] = 0
  BY <1>3, <1>8, <1>10
<1>13. j' = j - 1 =>
       /\ j' <= End /\ End - j' <= 2 * (startAt' - zeroCount) + 1
       /\ End - j' = 2 * (startAt' - zeroCount) + 1 =>
             startAt' < Len(in) /\ tmp'[startAt' + 1] < Radix
  <2> SUFFICES ASSUME j' = j - 1
               PROVE  /\ j' <= End /\ End - j' <= 2 * (startAt' - zeroCount) + 1
                      /\ End - j' = 2 * (startAt' - zeroCount) + 1 =>
                            startAt' < Len(in) /\ tmp'[startAt' + 1] < Radix
    OBVIOUS
  <2>1. /\ tmp'[startAt + 1] \in Nat /\ tmp'[startAt + 1] < Radix
        /\ tmp[startAt + 1] < Radix => tmp'[startAt + 1] = 0
    BY <1>8, <1>9, TwoPasses, BaseFacts
  <2>a. PICK n \in Nat, e \in Nat, a \in Nat, z \in Nat, k \in Nat :
            n = Len(in) /\ e = End /\ a = startAt /\ z = zeroCount /\ k = j
    BY <1>1, <1>3
  <2>b. a < n /\ z <= a /\ k <= e /\ e - k <= 2 * (a - z) + 1 /\ j' = k - 1
    BY <1>1, <1>3, <1>4, <2>a
  <2>2. CASE tmp'[startAt + 1] = 0
    <3>1. startAt' = a + 1
      BY <1>10, <2>2, <2>a
    <3>2. e - (k - 1) < 2 * ((a + 1) - z) + 1
      BY <2>b
    <3>3. k - 1 <= e /\ e - (k - 1) <= 2 * ((a + 1) - z) + 1 /\ e - (k - 1) # 2 * ((a + 1) - z) + 1
      BY <2>b, <3>2
    <3> QED BY <2>a, <2>b, <3>1, <3>3
  <2>3. CASE tmp'[startAt + 1] # 0
    <3>1. startAt' = a
      BY <1>10, <2>3, <2>a
    <3>2. e - k # 2 * (a - z) + 1
      BY <1>4, <2>1, <2>3, <2>a
    <3>3. k - 1 <= e /\ e - (k - 1) <= 2 * (a - z) + 1
      BY <2>b, <3>2
    <3> QED BY <2>1, <2>a, <2>b, <3>1, <3>3
  <2> QED BY <2>2, <2>3
<1>14. CASE ~(j' < ArraySize)
  <2>1. pc' = "undefined" /\ buffer' = buffer
    BY <1>14 DEF Divide
  <2>2. TypeOK'
    BY <1>1, <1>2, <1>3, <1>6, <1>8, <1>11, <2>1 DEF TypeOK
  <2> QED BY <2>1, <2>2 DEF IInv, StartInv, PassInv, LoopKeepsValue, EncodesInput
<1>15. CASE j' < ArraySize
  <2>0. j' = j - 1
    BY <1>6, <1>15
  <2>1. /\ pc' = "divide"
        /\ buffer' = [i \in DOMAIN buffer \cup {j'} |-> IF i = j' THEN d ELSE buffer[i]]
    BY <1>1, <1>7, <1>15 DEF Divide
  <2>2. DOMAIN buffer = j..(End - 1) /\ DOMAIN buffer \subseteq 0..(ArraySize - 1) /\ \A i \in DOMAIN buffer : buffer[i] \in Digits
    BY <1>1 DEF TypeOK
  <2>3. /\ DOMAIN buffer' = j'..(End - 1) /\ \A i \in DOMAIN buffer' : buffer'[i] \in Digits
        /\ DOMAIN buffer' \subseteq 0..(ArraySize - 1)
    <3>1. DOMAIN buffer' = DOMAIN buffer \cup {j'}
      BY <2>1
    <3>2. \A i \in DOMAIN buffer' : buffer'[i] \in Digits
      BY <2>1, <2>2
    <3>3. DOMAIN buffer' = j'..(End - 1)
      <4>1. PICK e \in Nat, k \in Nat, m \in Nat : e = End /\ k = j /\ m = j'
        BY <1>1, <1>3, <1>6
      <4>2. k <= e /\ k = m + 1
        BY <1>4, <2>0, <4>1
      <4>3. (k..(e - 1)) \cup {m} = m..(e - 1)
        BY <4>2
      <4> QED BY <2>2, <3>1, <4>1, <4>3
    <3>4. j' \in 0..(ArraySize - 1)
      BY <1>6, <1>15, ConstantsAssumption
    <3> QED BY <2>2, <3>1, <3>2, <3>3, <3>4
  <2>4. buffer'[j'] = d /\ \A i \in DOMAIN buffer : buffer'[i] = buffer[i]
    BY <1>3, <2>0, <2>1, <2>2
  <2>5. TypeOK'
    BY <1>1, <1>2, <1>3, <1>6, <1>8, <1>11, <2>1, <2>3 DEF TypeOK
  <2>6. PassInv'
    BY <1>2, <1>4, <1>12, <1>13, <2>0, <2>1 DEF PassInv
  <2>7. LoopKeepsValue'
    <3>1. /\ Written \in Seq(Digits) /\ Len(Written) = End - j
          /\ \A i \in 1..(End - j) : Written[i] = buffer[j + i - 1]
      BY <1>1, <1>4, WrittenFacts
    <3>2. /\ Written' \in Seq(Digits) /\ Len(Written') = End - j'
          /\ \A i \in 1..(End - j') : Written'[i] = buffer'[j' + i - 1]
      <4>1. j' <= End
        BY <1>1, <1>3, <1>4, <2>0
      <4> QED BY <1>2, <2>1, <2>5, <4>1, WrittenNext
    <3>3. PICK s \in Seq(Digits), t \in Seq(Digits) : s = Written /\ t = Written'
      BY <3>1, <3>2
    <3>4. PICK x \in Nat : x = Value(tmp', Base)
      <4>1. tmp' \in Seq(Nat) /\ 0 \in Nat /\ Base \in Nat
        BY <1>8, NumberSeq, BaseFacts
      <4>2. PICK u \in Seq(Nat) : u = tmp'
        BY <4>1
      <4>3. Prefixes(0, u, Base) \in [0..Len(u) -> Nat] /\ Len(u) \in Nat
        BY <4>1, PrefixesFacts
      <4>4. Len(u) \in 0..Len(u)
        BY <4>3
      <4> QED BY <4>2, <4>3, <4>4 DEF Value, Behind
    <3>5. Len(t) = 1 + Len(s)
      <4>1. Len(t) = End - j' /\ Len(s) = End - j
        BY <3>1, <3>2, <3>3
      <4> QED BY <1>1, <1>3, <2>0, <4>1
    <3>6. t[1] = d
      <4>1. 1 \in 1..(End - j') /\ j' + 1 - 1 = j'
        BY <1>1, <1>3, <1>4, <1>6, <2>0
      <4> QED BY <2>4, <3>2, <3>3, <4>1
    <3>7. ASSUME NEW i \in 1..Len(s) PROVE t[1 + i] = s[i]
      <4>1. /\ i \in 1..(End - j) /\ 1 + i \in 1..(End - j')
            /\ j' + (1 + i) - 1 = j + i - 1 /\ j + i - 1 \in DOMAIN buffer
        BY <1>1, <1>3, <1>4, <1>6, <2>0, <2>2, <3>1, <3>3
      <4>2. t[1 + i] = buffer'[j' + (1 + i) - 1]
        BY <3>2, <3>3, <4>1
      <4>3. s[i] = buffer[j + i - 1]
        BY <3>1, <3>3, <4>1
      <4> QED BY <2>4, <4>1, <4>2, <4>3
    <3>8. Behind(x, t, Radix) = Behind(x * Radix + d, s, Radix)
      BY <3>5, <3>6, <3>7, OneMoreDigit
    <3>9. Value(in, Base) = Behind(Value(tmp, Base), s, Radix)
      BY <1>1, <3>3 DEF IInv, LoopKeepsValue
    <3>10. Value(in, Base) = Behind(x, t, Radix)
      BY <1>7, <3>4, <3>8, <3>9
    <3> QED BY <1>2, <3>3, <3>4, <3>10 DEF LoopKeepsValue
  <2> QED BY <2>1, <2>5, <2>6, <2>7 DEF IInv, StartInv, EncodesInput
<1> QED BY <1>14, <1>15

LEMMA FinishStep == ASSUME IInv, Finish PROVE IInv'
<1>1. /\ in \in Inputs /\ in \in Seq(Nat) /\ Len(in) \in Nat /\ pc = "divide" /\ startAt = Len(in)
      /\ TypeOK /\ j <= End
  BY InputFacts DEF IInv, TypeOK, PassInv, Finish
<1>2. UNCHANGED <<in, tmp, zeroCount, startAt, j, buffer>> /\ End' = End
  BY DEF Finish, End
<1>3. CASE pc' \in {"thrown", "undefined"}
  <2>1. out' = out
    BY <1>3 DEF Finish
  <2>2. TypeOK'
    BY <1>1, <1>2, <1>3, <2>1 DEF TypeOK
  <2> QED BY <1>3, <2>2 DEF IInv, StartInv, PassInv, LoopKeepsValue, EncodesInput
<1>4. CASE pc' \notin {"thrown", "undefined"}
  <2>1. pc' = "done" /\ out' = Text /\ Len(Text) <= MaxOut
    BY <1>4 DEF Finish
  <2>2. Written \in Seq(Digits) /\ zeroCount \in Nat
    BY <1>1, WrittenFacts DEF TypeOK
  <2>3. Text = TextOf(zeroCount, Written)
    BY DEF Text, TextOf
  <2>4. Text \in Seq(Digits) /\ Value(Text, Radix) = Value(Written, Radix) /\ Zeros(Text) = zeroCount
    BY <2>2, <2>3, TextFacts
  <2>5. TypeOK'
    <3>1. Len(Text) \in Nat /\ Len(Text) <= MaxOut
      BY <2>1, <2>4, ConstantsAssumption
    <3> QED BY <1>1, <1>2, <2>1, <2>4, <3>1 DEF TypeOK
  <2>6. Value(tmp, Base) = 0
    <3>1. tmp \in Seq(Nat) /\ Len(tmp) = Len(in) /\ \A i \in 1..Len(tmp) : tmp[i] = 0
      BY <1>1, NumberSeq, BaseFacts DEF TypeOK, IInv, PassInv
    <3>2. Prefixes(0, tmp, Base)[Len(tmp)] = 0
      <4>1. Len(tmp) \in 0..Len(tmp)
        BY <1>1, <3>1
      <4> QED BY <3>1, <4>1, BaseFacts, ZeroPrefix
    <3> QED BY <3>2 DEF Value, Behind
  <2>7. Value(in, Base) = Value(Written, Radix)
    BY <1>1, <2>6 DEF IInv, LoopKeepsValue, Value
  <2>8. zeroCount = Zeros(in)
    BY <1>1 DEF IInv, PassInv
  <2>9. EncodesInput'
    BY <1>2, <2>1, <2>4, <2>7, <2>8 DEF EncodesInput
  <2> QED BY <2>1, <2>5, <2>9 DEF IInv, StartInv, PassInv, LoopKeepsValue
<1> QED BY <1>3, <1>4

\* The invariant holds for any argument: those that the code encodes inside its
\* buffer, and those with which it leaves the buffer or wraps the index around.
THEOREM EncoderSafety == Spec => []IInv
<1>1. Init => IInv
  BY InitInv
<1>2. IInv /\ [Next]_vars => IInv'
  <2> SUFFICES ASSUME IInv, [Next]_vars PROVE IInv'
    OBVIOUS
  <2>1. CASE Start
    BY <2>1, StartStep
  <2>2. CASE Divide
    BY <2>2, DivideStep
  <2>3. CASE Finish
    BY <2>3, FinishStep
  <2>4. CASE UNCHANGED vars
    BY <2>4 DEF vars, IInv, TypeOK, StartInv, PassInv, LoopKeepsValue, EncodesInput, Written, End
  <2> QED BY <2>1, <2>2, <2>3, <2>4 DEF Next
<1> QED BY <1>1, <1>2, PTL DEF Spec

\* Every variable keeps its type: what is written is inside the buffer, and no index
\* runs below it while twice the length has one.
THEOREM TypeCorrect == Spec => []TypeOK
<1>1. IInv => TypeOK
  BY DEF IInv
<1> QED BY <1>1, EncoderSafety, PTL

\* The passes of the outer loop lose nothing of the number.
THEOREM PassesKeepValue == Spec => []LoopKeepsValue
<1>1. IInv => LoopKeepsValue
  BY DEF IInv
<1> QED BY <1>1, EncoderSafety, PTL

\* The result, where there is one, is the Base58 text of the argument.
THEOREM TextIsRight == Spec => []EncodesInput
<1>1. IInv => EncodesInput
  BY DEF IInv
<1> QED BY <1>1, EncoderSafety, PTL
=============================================================================
