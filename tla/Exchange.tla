------------------------------ MODULE Exchange ------------------------------
(***************************************************************************)
(* What the transport of the host promises its caller, without packets: an *)
(* exchange ends with an error, with the answer of the device to this or   *)
(* an earlier command, or with cleared bytes in place of one. An answer is *)
(* returned once, and never after the answer to a later command, although  *)
(* answers carry no number. HidExchange implements it.                     *)
(***************************************************************************)
EXTENDS Naturals

VARIABLES
    n,          \* number of the current exchange, 0 before the first
    busy,       \* whether it is going on
    newest,     \* the newest exchange whose answer was returned, or 0
    outcome     \* how the last exchange ended

vars == <<n, busy, newest, outcome>>

Outcome(kind, of) == [kind |-> kind, of |-> of]
Pending == Outcome("none", 0)

Init == n = 0 /\ busy = FALSE /\ newest = 0 /\ outcome = Pending

\* One command at a time.
Begin ==
    /\ ~busy
    /\ n' = n + 1 /\ busy' = TRUE /\ outcome' = Pending
    /\ UNCHANGED newest

End(result) ==
    /\ busy /\ busy' = FALSE /\ outcome' = result
    /\ UNCHANGED n

\* The answer to exchange x, newer than all that were returned before.
Return ==
    \E x \in (newest + 1)..n : End(Outcome("answer", x)) /\ newest' = x

\* An error, cleared bytes, or the death of the process.
Fail ==
    /\ End(Outcome("error", 0)) \/ End(Outcome("cleared", 0)) \/ End(Pending)
    /\ UNCHANGED newest

Spec == Init /\ [][Begin \/ Return \/ Fail]_vars
=============================================================================
