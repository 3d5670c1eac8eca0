------------------------------- MODULE Base58 -------------------------------
(***************************************************************************)
(* encodeBase58 (src/src/utils.c), which turns the bytes of a key or an    *)
(* address into the text on the screen: in place long division of a number *)
(* of base Base by Radix, one pass per digit of the result. The digits are *)
(* written from the end of a buffer towards its front.                     *)
(*                                                                         *)
(* tmp[i + 1] is tmp[i] of the code, whose arrays begin at 0; a digit of   *)
(* the result is its number, the place of its letter in BASE_58_ALPHABET.  *)
(* Operators named X_Y are faulty variants of X, which no action uses.     *)
(***************************************************************************)
EXTENDS Integers, Sequences

CONSTANTS
    Base,       \* values of a byte (256)
    IndexSpan,  \* values of the unsigned char j (256 as well)
    Radix,      \* digits of the result (58)
    ArraySize,  \* size of the local arrays tmp and buffer (164)
    MaxOut,     \* maxoutlen, the room the caller has
    Inputs      \* the byte sequences to encode

\* A byte has at most two digits, a pass clears at most one byte, and an index
\* that runs below 0 is one behind the buffer.
ASSUME ConstantsAssumption ==
    /\ Radix \in Nat \ {0, 1} /\ Base \in Nat
    /\ Radix < Base /\ Base <= Radix * Radix
    /\ IndexSpan \in Nat /\ ArraySize \in Nat /\ ArraySize < IndexSpan /\ MaxOut \in Nat
    /\ \A in \in Inputs : in \in Seq(0..(Base - 1))

VARIABLES
    in,         \* the argument
    tmp,        \* the quotient, which starts as a copy of the argument
    zeroCount,  \* leading zero bytes of the argument
    startAt,    \* leading bytes of tmp that the passes leave alone
    j,          \* index of the last digit written
    buffer,     \* the digits written, a function of their indices
    out,        \* what is copied to the caller
    pc          \* "start", "divide", "done", "thrown" or "undefined"

vars == <<in, tmp, zeroCount, startAt, j, buffer, out, pc>>

Byte(x) == x % Base             \* assignment to a byte of tmp,
Index(x) == x % IndexSpan       \* to j
Digits == 0..(Radix - 1)
End == Index(2 * Len(in))       \* where the digits end, or would
Zeros(s) == CHOOSE z \in 0..Len(s) :
    /\ \A i \in 1..z : s[i] = 0
    /\ z < Len(s) => s[z + 1] # 0

TypeOK ==
    /\ in \in Inputs /\ tmp \in Seq(0..(Base - 1)) /\ Len(tmp) = Len(in)
    /\ zeroCount \in 0..Len(in) /\ startAt \in zeroCount..Len(in) /\ j \in 0..(2 * Len(in))
    /\ DOMAIN buffer \subseteq 0..(ArraySize - 1)
    /\ pc # "undefined" => DOMAIN buffer = j..(End - 1)
    /\ \A i \in DOMAIN buffer : buffer[i] \in Digits
    /\ out \in Seq(Digits) /\ Len(out) <= MaxOut
    /\ pc \in {"start", "divide", "done", "thrown", "undefined"}

Init ==
    /\ in \in Inputs /\ tmp = in
    /\ zeroCount = 0 /\ startAt = 0 /\ j = 2 * Len(in)
    /\ buffer = <<>> /\ out = <<>> /\ pc = "start"

\* fault: one place too few
Start_Short ==
    /\ pc = "start"
    /\ zeroCount' = Zeros(in) /\ startAt' = Zeros(in)
    /\ j' = 2 * Len(in) - 1
    /\ pc' = IF Len(in) > ArraySize THEN "thrown" ELSE "divide"
    /\ UNCHANGED <<in, tmp, buffer, out>>

\* The length is checked, and the leading zero bytes are counted.
Start ==
    /\ pc = "start"
    /\ IF Len(in) > ArraySize
       THEN pc' = "thrown" /\ UNCHANGED <<zeroCount, startAt, j>>
       ELSE /\ zeroCount' = Zeros(in) /\ startAt' = Zeros(in)
            /\ j' = End
            /\ pc' = "divide"
    /\ UNCHANGED <<in, tmp, buffer, out>>

\* fault: the remainder is not carried over to the next byte
Division_NoCarry(number, start) ==
    [quotient |-> [i \in 1..Len(number) |->
                      IF i <= start THEN number[i] ELSE Byte(number[i] \div Radix)],
     remainder |-> number[Len(number)] % Radix]

\* What the inner loop carries from byte to byte of a number.
Remainders(number, start) ==
    LET r[i \in 0..Len(number)] ==
            IF i <= start THEN 0 ELSE (r[i - 1] * Base + number[i]) % Radix
    IN  r

\* The inner loop: divides the bytes of a number behind the first ones by Radix.
Division(number, start) ==
    LET r == Remainders(number, start)
    IN  [quotient |-> [i \in 1..Len(number) |->
                          IF i <= start THEN number[i]
                          ELSE Byte((r[i - 1] * Base + number[i]) \div Radix)],
         remainder |-> r[Len(number)]]

\* fault: finished bytes are not left out, so that the loop goes on
Divide_Again ==
    /\ pc = "divide" /\ startAt < Len(in)
    /\ tmp' = Division(tmp, startAt).quotient
    /\ UNCHANGED <<in, zeroCount, startAt, j, buffer, out, pc>>

\* The outer loop: one pass, one digit. A digit outside the buffer is written
\* over something else, and nothing is known of what follows.
Divide ==
    /\ pc = "divide" /\ startAt < Len(in)
    /\ LET division == Division(tmp, startAt)
       IN  /\ tmp' = division.quotient
           /\ startAt' = IF tmp'[startAt + 1] = 0 THEN startAt + 1 ELSE startAt
           /\ j' = Index(j - 1)
           /\ IF j' < ArraySize
              THEN /\ buffer' = [i \in DOMAIN buffer \cup {j'} |->
                                    IF i = j' THEN division.remainder ELSE buffer[i]]
                   /\ UNCHANGED pc
              ELSE pc' = "undefined" /\ UNCHANGED buffer
    /\ UNCHANGED <<in, zeroCount, out>>

Written == [i \in 1..(End - j) |-> buffer[j + i - 1]]

\* fault: the leading zero bytes are forgotten
Text_NoZeros == SubSeq(Written, Zeros(Written) + 1, Len(Written))

\* Leading zero digits are dropped, and one is put for each leading zero byte.
Text == [i \in 1..zeroCount |-> 0] \o SubSeq(Written, Zeros(Written) + 1, Len(Written))

\* The digits end where the argument's length says they do, and the ones in front
\* of them are inside the buffer. Otherwise the search for the first digit reads
\* what was never written, or the ones go behind the buffer.
TextFits ==
    /\ End = 2 * Len(in)
    /\ zeroCount > 0 => j + Zeros(Written) <= ArraySize

Finish ==
    /\ pc = "divide" /\ startAt = Len(in)
    /\ \/ ~TextFits /\ pc' = "undefined" /\ UNCHANGED out
       \/ TextFits /\ Len(Text) > MaxOut /\ pc' = "thrown" /\ UNCHANGED out
       \/ TextFits /\ Len(Text) <= MaxOut /\ pc' = "done" /\ out' = Text
    /\ UNCHANGED <<in, tmp, zeroCount, startAt, j, buffer>>

Next == Start \/ Divide \/ Finish

\* The function runs to its end in the event loop of the device.
Spec == Init /\ [][Next]_vars /\ WF_vars(Next)

-----------------------------------------------------------------------------
(* Properties. *)

\* The numbers that the beginnings of a sequence of digits stand for behind the
\* digits of another number, and the number of the whole.
Prefixes(number, digits, base) ==
    LET v[i \in 0..Len(digits)] == IF i = 0 THEN number ELSE v[i - 1] * base + digits[i]
    IN  v
Behind(number, digits, base) == Prefixes(number, digits, base)[Len(digits)]
Value(digits, base) == Behind(0, digits, base)

\* The result is the Base58 text of the argument: as many leading ones as the
\* argument has zero bytes, then its number without superfluous digits.
EncodesInput ==
    pc = "done" =>
        /\ Value(out, Radix) = Value(in, Base)
        /\ Zeros(out) = Zeros(in)

\* The passes lose nothing: at any time the number is the quotient, with the
\* digits written so far behind it.
LoopKeepsValue ==
    pc = "divide" =>
        Value(in, Base) = Behind(Value(tmp, Base), Written, Radix)

\* The passes come to an end, although a pass need not clear a byte.
Terminates == <>(pc \in {"done", "thrown", "undefined"})

-----------------------------------------------------------------------------
(* What the source says and the code does not do. *)

\* An argument that passes the length check is encoded inside the buffer.
StaysInBuffer == pc # "undefined"
=============================================================================
