---------------------------- MODULE DecryptTool ----------------------------
(***************************************************************************)
(* src/tools/coin-decrypt-test: a host program that asks for trust, then   *)
(* imports one private key after the other and lets the device compute the *)
(* key images of its coins, which it compares with its own. It is composed *)
(* here with the device application: its commands are the handlers of      *)
(* IncognitoApp, and everything else the device does interleaves.          *)
(*                                                                         *)
(* The program opens the device anew for every exchange, so that another   *)
(* program can use it in between. It never looks at a status word.         *)
(* Operators named X_Y are faulty variants of X, which no action uses.     *)
(***************************************************************************)
EXTENDS IncognitoApp, Sequences

CONSTANTS
    CoinsOf,    \* coinListStr: for each key to import the list of its coins
    MaxOther    \* bound: commands of another program

ASSUME ToolConstantsAssumption ==
    /\ DOMAIN CoinsOf \subseteq Imports
    /\ \A k \in DOMAIN CoinsOf : CoinsOf[k] \in Seq(Coins)
    /\ MaxOther \in Nat /\ SingleFlight

VARIABLES
    at,         \* where main is; "x?" while it waits for the answer to x
    todo,       \* keys the outer loop has not come to
    current,    \* the private key of the iteration, or NoKey
    coins,      \* its coins the inner loop has not come to
    verdicts,   \* what was printed: "decrypt success" (ok) or "decrypt err"
    others,     \* number of commands of another program
    held,       \* whether that program has the device open
    events      \* history: what went wrong since the current key was sent

tool == <<at, todo, current, coins, verdicts>>
other == <<others, held>>
toolVars == <<vars, tool, other, events>>

Places == {"trust", "trust?", "key", "import?", "coin", "coin?", "done", "panic"}
Verdicts == [key : DOMAIN CoinsOf, coin : Coins, ok : BOOLEAN]

ToolTypeOK ==
    /\ TypeOK
    /\ at \in Places
    /\ todo \subseteq DOMAIN CoinsOf /\ current \in DOMAIN CoinsOf \cup {NoKey}
    /\ coins \in Seq(Coins) /\ verdicts \subseteq Verdicts
    /\ others \in 0..MaxOther /\ held \in BOOLEAN
    /\ events \subseteq {"absent", "busy", "reset", "rejected", "refused", "import"}

ToolInit ==
    /\ Init
    /\ at = "trust" /\ todo = DOMAIN CoinsOf /\ current = NoKey /\ coins = <<>>
    /\ verdicts = {} /\ others = 0 /\ held = FALSE /\ events = {}

Go(place) == at' = place
Happened(event) == events' = events \cup {event}

-----------------------------------------------------------------------------
(* The program. *)

\* OpenNanoS finds no device, or cannot open the one it finds because another
\* program has it open. Whether a device can be opened twice is up to the
\* operating system: the exchanges below may go on while it is held.
OpenFails ==
    /\ at \in {"trust", "key", "coin"}
    /\ at = "key" => todo # {}
    /\ at = "coin" => coins # <<>>
    /\ \/ screen = "off" /\ Happened("absent")
       \/ screen # "off" /\ held /\ Happened("busy")
    /\ Go("panic")
    /\ UNCHANGED <<vars, todo, current, coins, verdicts, other>>

SendTrust ==
    /\ at = "trust" /\ HandleTrustDevice /\ Go("trust?")
    /\ UNCHANGED <<todo, current, coins, verdicts, other, events>>

\* fault: a key is imported for the first iteration only
SendImport_Once ==
    /\ at = "key" /\ \E k \in todo :
        /\ todo' = todo \ {k} /\ current' = k /\ coins' = CoinsOf[k]
        /\ IF current = NoKey THEN HandleImportPrivate(k) /\ Go("import?")
                              ELSE Go("coin") /\ UNCHANGED vars
    /\ events' = {}
    /\ UNCHANGED <<verdicts, other>>

\* The iteration order of a Go map is any order.
SendImport ==
    /\ at = "key" /\ \E k \in todo :
        /\ HandleImportPrivate(k)
        /\ todo' = todo \ {k} /\ current' = k /\ coins' = CoinsOf[k]
    /\ Go("import?") /\ events' = {}
    /\ UNCHANGED <<verdicts, other>>

Finish ==
    /\ at = "key" /\ todo = {}
    /\ Go("done")
    /\ UNCHANGED <<vars, todo, current, coins, verdicts, other, events>>

SendCoin ==
    /\ at = "coin" /\ coins # <<>>
    /\ \/ HandleGenKeyImage(Head(coins)) /\ UNCHANGED events
       \/ HandleGenKeyImageTrusted(Head(coins)) /\ UNCHANGED events
       \/ HandleGenKeyImageFails(Head(coins)) /\ Happened("refused")
    /\ Go("coin?")
    /\ UNCHANGED <<todo, current, coins, verdicts, other>>

NextKey ==
    /\ at = "coin" /\ coins = <<>>
    /\ Go("key")
    /\ UNCHANGED <<vars, todo, current, coins, verdicts, other, events>>

\* Exchange returns: with an error, after which main panics, when the device
\* was lost, and with whatever the device said otherwise.
Waiting == at \in {"trust?", "import?", "coin?"} /\ cmd = NoCommand

Lost ==
    /\ Waiting /\ reply = NoReply
    /\ Go("panic")
    /\ UNCHANGED <<vars, todo, current, coins, verdicts, other, events>>

\* fault: the answer to an import is cut like that to a key image
GotStatus_Cut ==
    /\ Waiting /\ reply # NoReply /\ at # "coin?"
    /\ Go(IF reply.head = Absent THEN "panic" ELSE "coin")
    /\ UNCHANGED <<vars, todo, current, coins, verdicts, other, events>>

GotStatus ==
    /\ Waiting /\ reply # NoReply /\ at # "coin?"
    /\ Go(IF at = "trust?" THEN "key" ELSE "coin")
    /\ UNCHANGED <<vars, todo, current, coins, verdicts, other, events>>

Judge(ok) == verdicts' = verdicts \cup {[key |-> current, coin |-> Head(coins), ok |-> ok]}

HostImage == Answer(Command("keyImage", NoKey, Head(coins)), current)

\* faults: a coin that fails is tried again; it ends the loop
GotImage_Retry ==
    /\ Waiting /\ reply # NoReply /\ at = "coin?" /\ reply.head # Absent
    /\ Judge(reply.head = HostImage)
    /\ coins' = IF reply.head = HostImage THEN Tail(coins) ELSE coins
    /\ Go("coin")
    /\ UNCHANGED <<vars, todo, current, other, events>>
GotImage_Break ==
    /\ Waiting /\ reply # NoReply /\ at = "coin?" /\ reply.head # Absent
    /\ Judge(reply.head = HostImage)
    /\ coins' = IF reply.head = HostImage THEN Tail(coins) ELSE <<>>
    /\ Go("coin")
    /\ UNCHANGED <<vars, todo, current, other, events>>

\* The image of the device against that of the host.
GotImage ==
    /\ Waiting /\ reply # NoReply /\ at = "coin?" /\ reply.head # Absent
    /\ Judge(reply.head = HostImage)
    /\ coins' = Tail(coins) /\ Go("coin")
    /\ UNCHANGED <<vars, todo, current, other, events>>

\* resp[:32] of an answer that has the status word only.
GotNoImage ==
    /\ Waiting /\ reply # NoReply /\ at = "coin?" /\ reply.head = Absent
    /\ Go("panic")
    /\ UNCHANGED <<vars, todo, current, coins, verdicts, other, events>>

ToolStep ==
    \/ OpenFails \/ SendTrust \/ SendImport \/ SendCoin
    \/ Finish \/ NextKey \/ Lost \/ GotStatus \/ GotImage \/ GotNoImage

-----------------------------------------------------------------------------
(* The device, its user, and another program. *)

\* Another program opens the device between two exchanges, or has it open still,
\* and imports a key, or asks for one.
OtherProgram ==
    /\ at \in {"trust", "key", "coin"} /\ others < MaxOther
    /\ others' = others + 1 /\ held' = TRUE
    /\ \/ \E k \in Imports : HandleImportPrivate(k) /\ Happened("import")
       \/ HandleGetOTA /\ UNCHANGED events
    /\ UNCHANGED tool

\* It closes the device, or ends, when it does not wait for an answer.
OtherCloses ==
    /\ held /\ (cmd # NoCommand => at \in {"trust?", "import?", "coin?"})
    /\ held' = FALSE
    /\ UNCHANGED <<vars, tool, others, events>>

Disturbance == IoReset \/ PowerLoss \/ ApproveUnsent \/ Quit

DeviceStep ==
    /\ \/ Disturbance /\ Happened("reset")
       \/ Reject /\ IF prompt.op = "keyImage" THEN Happened("rejected") ELSE UNCHANGED events
       \/ (Launch \/ Transmit \/ Approve) /\ UNCHANGED events
    /\ UNCHANGED <<tool, other>>

ToolNext == ToolStep \/ OtherProgram \/ OtherCloses \/ DeviceStep

\* The program is scheduled; the rest as in IncognitoApp. The other program need
\* never close the device.
ToolSpec ==
    /\ ToolInit /\ [][ToolNext]_toolVars
    /\ WF_toolVars(ToolStep) /\ WF_toolVars(Transmit /\ DeviceStep)
    /\ WF_toolVars(Decide /\ DeviceStep)

-----------------------------------------------------------------------------
(* Properties. *)

\* "decrypt err" is never printed of a coin the device could decrypt: it needs
\* a reset, or an import of another program, after the key was sent - and not
\* a rejected prompt, since a rejected key is in use as well.
ErrorHasCause ==
    [][ (\E v \in verdicts' \ verdicts : ~v.ok) => events \cap {"reset", "import"} # {} ]_toolVars

\* The program panics only when the device is away, was reset or is held by
\* another program, or gave no image; refused trust and a refused import do
\* not stop it, nor does a command of another program that has let go.
PanicHasCause ==
    at = "panic" => events \cap {"absent", "busy", "reset", "rejected", "refused"} # {}

\* When it is done, each coin of each key has its verdict.
EveryCoinJudged ==
    at = "done" =>
        \A k \in DOMAIN CoinsOf : \A i \in DOMAIN CoinsOf[k] :
            \E v \in verdicts : v.key = k /\ v.coin = CoinsOf[k][i]

\* The program comes to its end, whatever the device does.
ToolEnds == <>(at \in {"done", "panic"})
=============================================================================
