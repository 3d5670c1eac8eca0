---------------------------- MODULE MCCoinKeys ----------------------------
(* An instance of CoinKeys for TLC: the field of 37 elements, in which -1   *)
(* is a square as in that of the device, the curve with A = 8, which has    *)
(* 40 points and a generator of order 5 and the cofactor 8 of the device,   *)
(* and strings of three bytes of three bits; a byte counts 3 modulo the     *)
(* order, so that a wrong byte order shows. Digests reach all four roots of *)
(* the map and its ends, and some images are the neutral element.           *)
EXTENDS CoinKeys

ToyHash(s, bytes) ==
    BigEndian(FoldLeft(LAMBDA h, b : (h * 31 + b + 7) % Strings, s, bytes))

\* Keys below and above the order, at multiples of it, and of both ends.
ToyKeys == {BigEndian(n) : n \in {0, 1, 18, 77, 400, 511}}
=============================================================================
