------------------------------- MODULE Curve -------------------------------
(***************************************************************************)
(* The scalar, point and hash-to-point arithmetic of src/src/crypto.c, on  *)
(* byte strings, over a field and a curve that the constants choose. The   *)
(* device computes with the field of 2^255 - 19 and strings of 32 bytes;   *)
(* any prime and any curve of the same shape runs through the same code,   *)
(* and small ones can be checked for every argument.                       *)
(*                                                                         *)
(* A byte string is a sequence, as the arrays of the code: little-endian   *)
(* outside, and turned around (reverse32) for the cx_ functions of the     *)
(* device SDK. Those are modelled by the arithmetic they stand for.        *)
(* Operators named X_Y are faulty variants of X, which no action uses.     *)
(***************************************************************************)
EXTENDS Integers, SequencesExt

CONSTANTS
    ByteValues,     \* values of a byte (256)
    Width,          \* bytes of a scalar or a compressed point (32)
    Field,          \* C_ED25519_FIELD, the prime of the field
    Order,          \* C_ED25519_ORDER, the prime order of the generator
    MontgomeryA     \* 486662, the coefficient of the curve in Montgomery form

\* What one more counts in a byte with i bytes behind it.
Place[i \in 0..Width] == IF i = 0 THEN 1 ELSE Place[i - 1] * ByteValues
Strings == Place[Width]                 \* how many byte strings there are
Elements == 0..(Field - 1)
IsSquare(a) == \E r \in Elements : r * r % Field = a % Field

\* What is true of 2^255 - 19 and 486662, and what the formulas rely on.
ASSUME CurveAssumption ==
    /\ ByteValues \in Nat \ 0..3 /\ Width \in Nat
    /\ Order \in 1..Strings /\ MontgomeryA \in Nat
    /\ Field \in Nat /\ Field % 8 = 5 /\ \A d \in 2..(Field - 1) : Field % d # 0
    /\ 2 * Field <= Strings
    /\ ~IsSquare(MontgomeryA) /\ IsSquare(MontgomeryA + 2) /\ ~IsSquare(MontgomeryA - 2)

Bytes32 == [1..Width -> 0..(ByteValues - 1)]

-----------------------------------------------------------------------------
(* Byte strings and numbers. *)

\* The number of a big-endian string, and the string of a number.
Number(bytes) ==
    LET v[i \in 0..Len(bytes)] == IF i = 0 THEN 0 ELSE v[i - 1] * ByteValues + bytes[i]
    IN  v[Len(bytes)]
BigEndian(n) == [i \in 1..Width |-> (n \div Place[Width - i]) % ByteValues]

reverse32(bytes) == Reverse(bytes)

\* The scalar a string of the code stands for.
Scalar(bytes) == Number(reverse32(bytes))

-----------------------------------------------------------------------------
(* Arithmetic modulo the order: incognito_reduce, _addm, _subm, _multm_8. *)

reduce_Not(a) == a              \* fault: nothing is reduced
reduce(a) == reverse32(BigEndian(Number(reverse32(a)) % Order))

\* fault: the sum is not turned around again
addm_BigEndian(a, b) == BigEndian((Number(reverse32(a)) + Number(reverse32(b))) % Order)
addm(a, b) == reverse32(BigEndian((Number(reverse32(a)) + Number(reverse32(b))) % Order))

multm_8(a) == reverse32(BigEndian((Number(reverse32(a)) * 8) % Order))

-----------------------------------------------------------------------------
(* The field. *)

\* cx_math_powm by squaring.
Power(base, exponent) ==
    LET p[e \in Nat] == IF e = 0 THEN 1
                        ELSE LET half == p[e \div 2]
                             IN  (half * half % Field) * (IF e % 2 = 1 THEN base ELSE 1) % Field
    IN  p[exponent]

\* cx_math_invprimem, the inverse by Fermat's little theorem; 0 has none.
Inv == [a \in Elements |-> Power(a, Field - 2)]

Root(a) == CHOOSE r \in Elements : r * r % Field = a % Field

\* The constants C_fe_*, by the formulas in the comments beside them.
fe_ma == (-MontgomeryA) % Field
fe_ma2 == (-MontgomeryA * MontgomeryA) % Field
fe_sqrtm1 == Root(-1)
fe_fffb1 == Root(-2 * MontgomeryA * (MontgomeryA + 2))
fe_fffb2 == Root(2 * MontgomeryA * (MontgomeryA + 2))
fe_fffb3 == Root(-fe_sqrtm1 * MontgomeryA * (MontgomeryA + 2))
fe_fffb4 == Root(fe_sqrtm1 * MontgomeryA * (MontgomeryA + 2))
fe_qm5div8 == (Field - 5) \div 8

\* What makes these constants and the inverses exist: Fermat's little theorem,
\* and that the numbers above are squares.
ASSUME FieldAssumption ==
    /\ \A a \in 1..(Field - 1) : Power(a, Field - 1) = 1
    /\ IsSquare(-1) /\ IsSquare(2 * MontgomeryA * (MontgomeryA + 2))
    /\ IsSquare(fe_sqrtm1 * MontgomeryA * (MontgomeryA + 2))

-----------------------------------------------------------------------------
(* The curve -x^2 + y^2 = 1 + d x^2 y^2 and its group, as the SDK computes  *)
(* with it; an operand it refuses is HandleGenKeyImageFails of IncognitoApp. *)

EdwardsD == (-(MontgomeryA - 2) * Inv[(MontgomeryA + 2) % Field]) % Field

Point(x, y) == [x |-> x, y |-> y]
Neutral == Point(0, 1)
Points ==
    {p \in [x : Elements, y : Elements] :
        LET xx == p.x * p.x % Field
            yy == p.y * p.y % Field
        IN  (yy - xx) % Field = (1 + (EdwardsD * xx % Field) * yy) % Field}

\* cx_ecfp_add_point
Plus(p, q) ==
    LET xy == p.x * q.y % Field
        yx == p.y * q.x % Field
        t == (EdwardsD * xy % Field) * yx % Field
    IN  Point((xy + yx) * Inv[(1 + t) % Field] % Field,
              (p.y * q.y + p.x * q.x) * Inv[(1 - t) % Field] % Field)

\* cx_ecfp_scalar_mult
Times(n, p) ==
    LET m[k \in Nat] == IF k = 0 THEN Neutral
                        ELSE LET half == m[k \div 2]
                                 even == Plus(half, half)
                             IN  IF k % 2 = 1 THEN Plus(even, p) ELSE even
    IN  m[n]

\* cx_edward_compress_point: y, with the parity of x in the highest bit; and
\* cx_edward_decompress_point, which throws what is not the string of a point.
Compress(p) == reverse32(BigEndian(p.y + (Strings \div 2) * (p.x % 2)))
Compressed == {Compress(p) : p \in Points}
Decompress == [s \in Compressed |-> CHOOSE p \in Points : Compress(p) = s]

\* C_ED25519_G: a point of the prime order.
Generator == CHOOSE p \in Points : p # Neutral /\ Times(Order, p) = Neutral

\* What the code relies on: the points are closed under an associative addition,
\* and there is a generator; cofactor and order are those of Ed25519.
ASSUME GroupAssumption ==
    /\ \A p, q \in Points : Plus(p, q) \in Points
    /\ \A p, q, r \in Points : Plus(Plus(p, q), r) = Plus(p, Plus(q, r))
    /\ \E p \in Points : p # Neutral /\ Times(Order, p) = Neutral
    /\ \A p \in Points : Times(8 * Order, p) = Neutral

-----------------------------------------------------------------------------
(* Points as strings: incognito_ecmul_G, _k, _8k, _8, _ecadd, _ecsub. *)

ecmul_G(s) == Compress(Times(Number(reverse32(s)), Generator))
ecmul_k(P, s) == Compress(Times(Number(reverse32(s)), Decompress[P]))
ecmul_8k(P, s) == ecmul_k(P, multm_8(s))

ecmul_8_Twice(P) ==             \* fault: one doubling is missing
    LET p2 == Plus(Decompress[P], Decompress[P])
    IN  Compress(Plus(p2, p2))
ecmul_8(P) ==
    LET p2 == Plus(Decompress[P], Decompress[P])
        p4 == Plus(p2, p2)
    IN  Compress(Plus(p4, p4))

ecadd(P, Q) == Compress(Plus(Decompress[P], Decompress[Q]))

ecsub_Add(P, Q) == Compress(Plus(Decompress[P], Decompress[Q]))   \* fault: no minus sign
ecsub(P, Q) ==
    LET q == Decompress[Q]
    IN  Compress(Plus(Decompress[P], Point((Field - q.x) % Field, q.y)))

-----------------------------------------------------------------------------
(* incognito_ge_fromfe_frombytes: any string to a point, with one power for *)
(* the square root and the division together.                               *)

\* rX = (w / x)^(m + 1) of the code, by w x^3 (w x^7)^((q - 5) / 8).
DivPowM1(w, x) ==
    LET x3 == Power(x, 3)
        wx7 == (x3 * x3 % Field) * (x * w % Field) % Field
    IN  (Power(wx7, fe_qm5div8) * x3 % Field) * w % Field

\* rX before its sign is set, z, and the sign wanted, for the element u.
Branches_Swapped(u) ==          \* fault: the roots of the last two cases are swapped
    LET v == 2 * u * u % Field
        w == (v + 1) % Field
        x == (w * w + fe_ma2 * v) % Field
        r == DivPowM1(w, x)
        rrx == (r * r % Field) * x % Field
    IN  IF rrx = w THEN [x |-> (r * fe_fffb2 % Field) * u % Field, z |-> fe_ma * v % Field, sign |-> 0]
        ELSE IF rrx = (-w) % Field
        THEN [x |-> (r * fe_fffb1 % Field) * u % Field, z |-> fe_ma * v % Field, sign |-> 0]
        ELSE [x |-> r * (IF rrx * fe_sqrtm1 % Field = w THEN fe_fffb3 ELSE fe_fffb4) % Field,
              z |-> fe_ma, sign |-> 1]

Branches(u) ==
    LET v == 2 * u * u % Field
        w == (v + 1) % Field
        x == (w * w + fe_ma2 * v) % Field
        r == DivPowM1(w, x)
        rrx == (r * r % Field) * x % Field
    IN  IF rrx = w THEN [x |-> (r * fe_fffb2 % Field) * u % Field, z |-> fe_ma * v % Field, sign |-> 0]
        ELSE IF rrx = (-w) % Field
        THEN [x |-> (r * fe_fffb1 % Field) * u % Field, z |-> fe_ma * v % Field, sign |-> 0]
        ELSE [x |-> r * (IF rrx * fe_sqrtm1 % Field = w THEN fe_fffb4 ELSE fe_fffb3) % Field,
              z |-> fe_ma, sign |-> 1]

\* The label setsign and what follows it: projective coordinates.
Projective(bytes) ==
    LET u == Number(reverse32(bytes)) % Field
        w == (2 * u * u + 1) % Field
        b == Branches(u)
        x == IF b.x % 2 # b.sign THEN Field - b.x ELSE b.x
        z == (b.z + w) % Field
    IN  [x |-> x * z % Field, y |-> (b.z - w) % Field, z |-> z]

ge_fromfe_frombytes(bytes) ==
    LET p == Projective(bytes)
    IN  Compress(Point(p.x * Inv[p.z] % Field, p.y * Inv[p.z] % Field))

-----------------------------------------------------------------------------
(* What the function is to compute, by the definition of the map: the       *)
(* candidate -A / (1 + 2u^2), or its companion when that is on no point of  *)
(* v^2 = t^3 + A t^2 + t; then the birational map to the Edwards curve.     *)

ElligatorPoint(u) ==
    LET t == fe_ma * Inv[(1 + 2 * u * u) % Field] % Field
        OnMontgomery(c) == IsSquare((c * c % Field) * c + (MontgomeryA * c % Field) * c + c)
        c == IF OnMontgomery(t) THEN t ELSE (-t - MontgomeryA) % Field
        y == (c - 1) * Inv[(c + 1) % Field] % Field
    IN  CHOOSE p \in Points :
            p.y = y /\ (p.x # 0 => p.x % 2 = IF OnMontgomery(t) THEN 1 ELSE 0)
=============================================================================
