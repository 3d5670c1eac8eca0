---------------------------- MODULE HidExchange ----------------------------
(***************************************************************************)
(* The host's transport (src/cli/nanos.go, used in the same form by        *)
(* src/tools/coin-decrypt-test): apduFramer.Exchange on top of hidFramer,  *)
(* which cuts an APDU into HID packets and reads the answer back from      *)
(* them, one CLI process after the other on one cable.                     *)
(*                                                                         *)
(* A byte is a tuple <<kind, exchange, value>>, so that it is known which  *)
(* exchange it belongs to; a packet carries its sequence number and        *)
(* Payload bytes (59 in the code: 64 less the header of 5).                *)
(* Operators named X_Y are faulty variants of X, which no action uses.     *)
(***************************************************************************)
EXTENDS Integers, SequencesExt

CONSTANTS
    Payload,        \* payload bytes of one packet
    RequestSizes,   \* lengths of the APDUs of the host
    ReplySizes,     \* lengths of the answers, the two status bytes included
    MaxExchanges,   \* bound: exchanges of one behaviour
    Abandon,        \* whether a process may die in the middle of an exchange
    Faults          \* whether a read of the device may fail

MaxLength == 65535  \* what the two bytes of the length can say

ASSUME ConstantsAssumption ==
    /\ Payload \in Nat \ {0, 1} /\ MaxExchanges \in Nat
    /\ RequestSizes \subseteq 1..MaxLength /\ ReplySizes \subseteq 2..MaxLength
    /\ Abandon \in BOOLEAN /\ Faults \in BOOLEAN

VARIABLES
    n,          \* number of the current exchange, 0 before the first
    phase,      \* "idle", "write", "length" or "payload": where Exchange is
    out,        \* the chunks hidFramer.Write has not written yet
    hfSeq,      \* hidFramer.seq
    hfPos,      \* hidFramer.pos, less the 5 bytes of the header
    hfBuf,      \* hidFramer.buf, less the header
    want,       \* the length of the buffer io.ReadFull fills
    got,        \* what it has filled
    result,     \* what NanoS.Exchange returned
    in,         \* packets on the way to the host
    device,     \* bytes of the APDU the device assembles
    asked,      \* the APDU the application works on, or <<>>
    calm,       \* history: no process died and no cable was pulled so far
    newest      \* history: the newest exchange whose answer was returned, or 0

framer == <<hfSeq, hfPos, hfBuf>>
host == <<phase, out, framer, want, got, result>>
vars == <<n, host, in, device, asked, calm, newest>>

-----------------------------------------------------------------------------
(* Bytes and packets. *)

Pad == <<"pad", 0, 0>>      \* a cleared byte

Length(b) == b[1][3] * 256 + b[2][3]

WithLength(x, bytes) ==
    << <<"len", x, Len(bytes) \div 256>>, <<"len", x, Len(bytes) % 256>> >> \o bytes

Request(x, size) == [i \in 1..size |-> <<"request", x, i>>]

Accepted == <<144, 0>>      \* 0x9000
Denied == <<105, 133>>      \* 0x6985

\* An answer: its data, then the status word.
Answer(x, size, sw) ==
    [i \in 1..size |-> IF i <= size - 2 THEN <<"data", x, i>>
                       ELSE <<"status", x, sw[i - size + 2]>>]

\* faults: a last chunk when nothing is left; the short chunk is not sent;
\* the first chunk is not number 0
Chunks_OneMore(bytes) ==
    [i \in 1..(Len(bytes) \div Payload + 1) |->
        [seq |-> i - 1,
         data |-> SubSeq(bytes, (i - 1) * Payload + 1,
                         IF i * Payload <= Len(bytes) THEN i * Payload ELSE Len(bytes))]]
Chunks_Full(bytes) ==
    [i \in 1..((Len(bytes) - 1) \div Payload) |->
        [seq |-> i - 1, data |-> SubSeq(bytes, (i - 1) * Payload + 1, i * Payload)]]
Chunks_From1(bytes) ==
    [i \in 1..((Len(bytes) + Payload - 1) \div Payload) |->
        [seq |-> i,
         data |-> SubSeq(bytes, (i - 1) * Payload + 1,
                         IF i * Payload <= Len(bytes) THEN i * Payload ELSE Len(bytes))]]

\* The chunks a message is cut into; the last one may be short.
Chunks(bytes) ==
    [i \in 1..((Len(bytes) + Payload - 1) \div Payload) |->
        [seq |-> i - 1,
         data |-> SubSeq(bytes, (i - 1) * Payload + 1,
                         IF i * Payload <= Len(bytes) THEN i * Payload ELSE Len(bytes))]]

\* A packet from the device is always full.
FullPacket(p) ==
    [p EXCEPT !.data = [i \in 1..Payload |-> IF i <= Len(p.data) THEN p.data[i] ELSE Pad]]

\* What NanoS.Exchange returns; cut is what it cut off as the status word.
Result(ok, x, bytes, cut) == [ok |-> ok, of |-> x, bytes |-> bytes, cut |-> cut]
NoResult == Result(FALSE, 0, <<>>, <<>>)
Failure(x) == Result(FALSE, x, <<>>, <<>>)

TypeOK ==
    /\ n \in 0..MaxExchanges
    /\ phase \in {"idle", "write", "length", "payload"}
    /\ hfSeq \in Nat /\ hfPos \in 0..Payload /\ Len(hfBuf) \in {0, Payload}
    /\ want \in Nat /\ Len(got) <= want
    /\ \A p \in ToSet(in) : Len(p.data) = Payload
    /\ \A p \in ToSet(out) : Len(p.data) \in 1..Payload
    /\ result.ok => Len(result.cut) = 2
    /\ calm \in BOOLEAN /\ newest \in 0..n

Init ==
    /\ n = 0 /\ phase = "idle" /\ out = <<>>
    /\ hfSeq = 0 /\ hfPos = 0 /\ hfBuf = <<>>
    /\ want = 0 /\ got = <<>> /\ result = NoResult
    /\ in = <<>> /\ device = <<>> /\ asked = <<>> /\ calm = TRUE
    /\ newest = 0

-----------------------------------------------------------------------------
(* The host. *)

\* fault: hidFramer.Reset is not called
StartExchange_NoReset(size) ==
    /\ phase = "idle" /\ n < MaxExchanges
    /\ n' = n + 1
    /\ phase' = "write"
    /\ out' = Chunks(WithLength(n + 1, Request(n + 1, size)))
    /\ want' = 0 /\ got' = <<>> /\ result' = NoResult
    /\ UNCHANGED <<framer, in, device, asked, calm, newest>>

\* NanoS.Exchange and apduFramer.Exchange up to the first write.
StartExchange(size) ==
    /\ phase = "idle" /\ n < MaxExchanges
    /\ n' = n + 1
    /\ phase' = "write"
    /\ out' = Chunks(WithLength(n + 1, Request(n + 1, size)))
    /\ hfSeq' = 0
    /\ want' = 0 /\ got' = <<>> /\ result' = NoResult
    /\ UNCHANGED <<hfPos, hfBuf, in, device, asked, calm, newest>>

\* One iteration of the loop of hidFramer.Write. The transport of the device
\* starts a new APDU at sequence number 0; a complete APDU replaces the one
\* the application is working on.
DeviceTake(p) ==
    LET bytes == IF p.seq = 0 THEN p.data ELSE device \o p.data
    IN  IF Len(bytes) >= 2 /\ Len(bytes) >= 2 + Length(bytes)
        THEN device' = <<>> /\ asked' = SubSeq(bytes, 3, 2 + Length(bytes))
        ELSE device' = bytes /\ UNCHANGED asked

WriteChunk ==
    /\ phase = "write"
    /\ DeviceTake(Head(out))
    /\ out' = Tail(out)
    /\ IF out' # <<>> THEN UNCHANGED <<phase, want>>
                      ELSE phase' = "length" /\ want' = 2
    /\ UNCHANGED <<n, framer, got, result, in, calm, newest>>

\* NanoS.Exchange cuts the status word off and does not look at it.
Finish(resp) ==
    /\ phase' = "idle" /\ want' = 0 /\ got' = <<>>
    /\ result' = IF Len(resp) < 2 THEN Failure(n)
                 ELSE LET size == Len(resp)
                      IN  Result(TRUE, n, SubSeq(resp, 1, size - 2), SubSeq(resp, size - 1, size))

\* io.ReadFull goes on until the buffer is full; the length is followed by the
\* payload, and the payload by the end of Exchange.
Fill(bytes) ==
    LET now == got \o bytes
    IN  IF Len(now) < want THEN got' = now /\ UNCHANGED <<phase, want, result>>
        ELSE IF phase = "payload" THEN Finish(now)
        ELSE IF Length(now) = 0 THEN Finish(<<>>)
        ELSE /\ phase' = "payload" /\ want' = Length(now) /\ got' = <<>>
             /\ UNCHANGED result

\* An error of hidFramer.Read is returned while the length is read, and
\* dropped while the payload is: the rest of the buffer stays zero.
ReadFails ==
    IF phase = "length"
    THEN /\ result' = Failure(n) /\ phase' = "idle" /\ want' = 0 /\ got' = <<>>
    ELSE Finish(got \o [i \in 1..(want - Len(got)) |-> Pad])

\* The exchanges whose bytes a result holds; cleared bytes are nobody's.
Sources(r) == {b[2] : b \in ToSet(r.bytes \o r.cut) \ {Pad}}
Source(r) == CHOOSE x \in Sources(r) : TRUE

\* A step of a read keeps the history up to date.
Note == newest' = IF phase # "idle" /\ phase' = "idle" /\ Sources(result') # {}
                  THEN Source(result') ELSE newest

Reading == phase \in {"length", "payload"}
Missing == want - Len(got)
Least(a, b) == IF a <= b THEN a ELSE b

\* hidFramer.Read, first branch: the rest of the packet in the buffer.
Drain ==
    /\ Reading
    /\ hfSeq > 0 /\ hfPos # Payload
    /\ LET k == Least(Missing, Payload - hfPos)
       IN  /\ Fill(SubSeq(hfBuf, hfPos + 1, hfPos + k))
           /\ hfPos' = hfPos + k
    /\ Note
    /\ UNCHANGED <<n, out, hfSeq, hfBuf, in, device, asked, calm>>

\* hidFramer.Read, the other: the next packet, if it is the next in sequence.
ReadPacket ==
    /\ Reading
    /\ ~(hfSeq > 0 /\ hfPos # Payload)
    /\ in # <<>>
    /\ in' = Tail(in)
    /\ hfBuf' = Head(in).data
    /\ IF Head(in).seq # hfSeq
       THEN ReadFails /\ UNCHANGED <<hfSeq, hfPos>>
       ELSE LET k == Least(Missing, Payload)
            IN  /\ Fill(SubSeq(Head(in).data, 1, k))
                /\ hfSeq' = hfSeq + 1 /\ hfPos' = k
    /\ Note
    /\ UNCHANGED <<n, out, device, asked, calm>>

-----------------------------------------------------------------------------
(* The device, and what can go wrong. *)

\* fault: the application answers from its handler and from its prompt
DeviceAnswer_Twice(size, sw) ==
    /\ asked # <<>>
    /\ LET x == asked[1][2]
           packets == Chunks(WithLength(x, Answer(x, size, sw)))
           answer == [i \in DOMAIN packets |-> FullPacket(packets[i])]
       IN  in' = in \o answer \o answer
    /\ asked' = <<>>
    /\ UNCHANGED <<n, host, device, calm, newest>>

\* The application answers the APDU it works on, sooner or later.
DeviceAnswer(size, sw) ==
    /\ asked # <<>>
    /\ LET x == asked[1][2]
           packets == Chunks(WithLength(x, Answer(x, size, sw)))
       IN  in' = in \o [i \in DOMAIN packets |-> FullPacket(packets[i])]
    /\ asked' = <<>>
    /\ UNCHANGED <<n, host, device, calm, newest>>

\* The cable is pulled and plugged in again: the device forgets, and a write or
\* a read of the host that is in progress returns an error.
Unplug ==
    /\ Faults
    /\ in' = <<>> /\ device' = <<>> /\ asked' = <<>>
    /\ \/ phase = "idle" /\ UNCHANGED <<phase, out, want, got, result>>
       \/ /\ phase = "write" /\ out' = <<>>
          /\ phase' = "idle" /\ result' = Failure(n)
          /\ UNCHANGED <<want, got>>
       \/ Reading /\ ~(hfSeq > 0 /\ hfPos # Payload) /\ ReadFails /\ UNCHANGED out
    /\ calm' = FALSE /\ Note
    /\ UNCHANGED <<n, framer>>

\* The process dies; the packets it did not read may wait for the next one.
Die ==
    /\ Abandon
    /\ phase # "idle"
    /\ phase' = "idle" /\ out' = <<>> /\ want' = 0 /\ got' = <<>> /\ result' = NoResult
    /\ in' \in {in, <<>>}
    /\ calm' = FALSE
    /\ UNCHANGED <<n, framer, device, asked, newest>>

HostStep == WriteChunk \/ Drain \/ ReadPacket

\* Length and status word of the answers: a denial is a bare status word.
Replies == (ReplySizes \X {Accepted}) \cup {<<2, Denied>>}
Respond == \E r \in Replies : DeviceAnswer(r[1], r[2])

Next ==
    \/ \E size \in RequestSizes : StartExchange(size)
    \/ HostStep \/ Respond \/ Unplug \/ Die

\* A command is sent, and read, as fast as the operating system lets it; that
\* the application answers is EveryCommandEnds of IncognitoApp.
Spec == Init /\ [][Next]_vars
FairSpec == Spec /\ WF_vars(HostStep) /\ WF_vars(Respond)

-----------------------------------------------------------------------------
(* Properties. *)

IsAnswer(x, bytes) == \E r \in Replies : bytes = Answer(x, r[1], r[2])

\* The application sees whole APDUs only, each the one some exchange wrote,
\* although a process may have died between two chunks of an earlier one.
RequestArrivesWhole ==
    asked # <<>> => \E size \in RequestSizes : asked = Request(asked[1][2], size)

\* As long as no process died and the cable was not touched Exchange returns the
\* answer to its own command, byte for byte, whatever its length and wherever
\* its packets end.
ExchangeReturnsAnswer ==
    calm /\ phase = "idle" /\ n > 0 =>
        result.ok /\ result.of = n /\ IsAnswer(n, result.bytes \o result.cut)

\* Every exchange ends, with an answer or an error, although what a dead process
\* left behind may be on the cable and the packets of the next may be missing.
ExchangeEnds == (phase # "idle") ~> (phase = "idle")

-----------------------------------------------------------------------------
(* The framing implements Exchange. *)

Ended(kind, of) == [kind |-> kind, of |-> of]

Outcome ==
    IF result = NoResult THEN Ended("none", 0)
    ELSE IF ~result.ok THEN Ended("error", 0)
    ELSE IF Sources(result) = {} THEN Ended("cleared", 0)
    ELSE IF Sources(result) = {Source(result)} THEN Ended("answer", Source(result))
    ELSE Ended("mixed", 0)

OneExchange == INSTANCE Exchange WITH busy <- phase # "idle", outcome <- Outcome

\* What the caller gets is what Exchange promises: every exchange ends once, no
\* answer is put together from two, and each is returned once and in order,
\* whatever dead processes left on the cable and wherever packets cut them.
ImplementsExchange == OneExchange!Spec

-----------------------------------------------------------------------------
(* What the source says and the code does not do. *)

\* "APDU response missing status code": an exchange that succeeds has read one.
SuccessHasStatus == result.ok => \A i \in {1, 2} : result.cut[i][1] = "status"
=============================================================================
