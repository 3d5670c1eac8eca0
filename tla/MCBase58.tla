----------------------------- MODULE MCBase58 -----------------------------
(* Instances of Base58 for TLC. *)
EXTENDS Base58

\* Bytes around the values where the division carries, and the ends of their
\* range; three at most, so that their number is an integer of TLC.
EdgeBytes ==
    UNION {[1..n -> {0, 1, 2, 57, 58, 59, 115, 116, 127, 128, 254, 255}] : n \in 0..3}

\* Long arguments of zeros and at most a one, whose ones or digits meet the end of
\* the buffer (83 bytes), of the index (128, 140) and of the array (165).
LongZeros == {[i \in 1..n |-> 0] : n \in {82, 83, 128, 165}}
LongOnes == {[i \in 1..n |-> IF i = n THEN 1 ELSE 0] : n \in {82, 83, 128, 140}}
ShortAndLong == EdgeBytes \cup LongZeros \cup LongOnes

\* As many bytes as handleGetPrivate (80) and handleGetAddress (109) encode.
KeySizes == {[i \in 1..n |-> IF i = 1 THEN 0 ELSE i] : n \in {80, 109}}
=============================================================================
