--------------------------- MODULE WalletService ---------------------------
(***************************************************************************)
(* What the device application promises its host and its user, without the *)
(* buffer, the screen, the flags and the staging of IncognitoApp: at most  *)
(* one request is pending, an export is computed from the key in use at    *)
(* the moment it is granted, and only the grant of the trust request makes *)
(* the device answer key images by itself.                                 *)
(*                                                                         *)
(* Requests and answers are whatever the instance says they are.           *)
(***************************************************************************)
CONSTANTS
    Derived, NoKey,     \* the key of the device; the key of a stopped device
    Requests,           \* all requests
    Refusals,           \* those that are always denied
    Unattended,         \* those a trusted host gets with nobody being asked
    TrustRequest,       \* the request for trust
    ImportOf(_),        \* the key a request brings, NoKey for the others
    Answer(_, _),       \* the answer to a request under a key
    NoRequest, NoAnswer

VARIABLES
    key,        \* the key in use, NoKey when the application does not run
    trust,      \* whether the host is trusted
    pending,    \* the request that waits, or NoRequest
    outcome     \* what the host got last: [to, granted, answer]

vars == <<key, trust, pending, outcome>>

Nothing == [to |-> NoRequest, granted |-> FALSE, answer |-> NoAnswer]
Granted(r, k) == [to |-> r, granted |-> TRUE, answer |-> Answer(r, k)]
Denied(r) == [to |-> r, granted |-> FALSE, answer |-> NoAnswer]

Init == key = NoKey /\ trust = FALSE /\ pending = NoRequest /\ outcome = Nothing

Running == key # NoKey

Start ==
    /\ ~Running
    /\ key' = Derived
    /\ UNCHANGED <<trust, pending, outcome>>

\* A key that is asked to be imported is in use at once.
Request(r) ==
    /\ Running /\ pending = NoRequest
    /\ pending' = r
    /\ key' = IF ImportOf(r) = NoKey THEN key ELSE ImportOf(r)
    /\ outcome' = Nothing
    /\ UNCHANGED trust

Grant ==
    /\ pending \notin Refusals \cup {NoRequest}
    /\ outcome' = Granted(pending, key)
    /\ trust' = (trust \/ pending = TrustRequest)
    /\ pending' = NoRequest
    /\ UNCHANGED key

\* The user rejects, the instruction is unknown or the computation fails.
Deny ==
    /\ pending # NoRequest
    /\ outcome' = Denied(pending)
    /\ pending' = NoRequest
    /\ UNCHANGED <<key, trust>>

GrantUnattended(r) ==
    /\ Running /\ pending = NoRequest
    /\ trust
    /\ outcome' = Granted(r, key)
    /\ UNCHANGED <<key, trust, pending>>

\* A reset loses the request, its outcome and an imported key. It may come
\* after trust was granted and before the host heard of it.
Reset ==
    /\ Running
    /\ key' = Derived
    /\ trust' \in {trust, trust \/ pending = TrustRequest}
    /\ pending' = NoRequest /\ outcome' = Nothing

Halt ==
    /\ Running
    /\ key' = NoKey /\ trust' = FALSE
    /\ pending' = NoRequest /\ outcome' = Nothing

Next ==
    \/ Start \/ Reset \/ Halt
    \/ \E r \in Requests : Request(r)
    \/ \E r \in Unattended : GrantUnattended(r)
    \/ Grant \/ Deny

Spec == Init /\ [][Next]_vars
=============================================================================
