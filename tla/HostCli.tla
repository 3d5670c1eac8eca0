------------------------------ MODULE HostCli ------------------------------
(***************************************************************************)
(* The command line program of the host (src/cli/main.go, cmdHandlers.go): *)
(* a process per command, which opens the device, does one exchange and    *)
(* prints what came back. It is composed here with the device application: *)
(* a process may be killed while its prompt is on the screen, and the next *)
(* process finds that prompt there.                                        *)
(*                                                                         *)
(* Answers carry nothing that tells which command they answer; what the    *)
(* device sends waits in a queue until a process reads it, and whether the *)
(* queue outlives a process is left open.                                  *)
(* Operators named X_Y are faulty variants of X, which no action uses.     *)
(***************************************************************************)
EXTENDS IncognitoApp, Sequences

CONSTANTS
    CliKey,     \* the private key written into ImportPrivateKey
    CliCoin,    \* the coin written into GenKeyImage
    MaxQueue    \* bound: answers the queue holds; more are dropped

ASSUME CliConstantsAssumption ==
    CliKey \in Imports /\ CliCoin \in Coins /\ MaxQueue \in Nat \ {0} /\ ~SingleFlight

VARIABLES
    at,         \* "none": no process; "open": one holds the device; "wait": it has
                \* sent its command
    proc,       \* the subcommand of a process that waits, or "none"
    handle,     \* whether the device is still the one it opened
    wire,       \* answers the device has sent and nobody has read
    late,       \* history: an answer may come that is not the next process's own
    granted     \* history: the address or private key that was last written to
                \* processData has been granted

cli == <<at, proc, handle, wire>>
cliVars == <<vars, cli, late, granted>>

\* The subcommands that the switch of main tells apart; "stub" is any of
\* gencommitment, genota, genringsig, genproof, genassettag, encoin, decoin and
\* getvalidator. The case of ota calls GetValidatorKey; nothing calls GetOTAKey.
Subcommands == {"version", "addr", "priv", "view", "importpriv", "genkeyimage",
                "trust", "ota", "stub"}
CommandOf(sub) ==
    CASE sub = "version" -> Plain("version")
      [] sub = "addr" -> Plain("address")
      [] sub = "priv" -> Plain("private")
      [] sub = "view" -> Plain("view")
      [] sub = "importpriv" -> Command("import", CliKey, NoCoin)
      [] sub = "genkeyimage" -> Command("keyImage", NoKey, CliCoin)
      [] sub = "trust" -> Trust
      [] OTHER -> Plain("notSupported")

\* Types of the state.
CliTypeOK ==
    /\ TypeOK
    /\ at \in {"none", "open", "wait"} /\ proc \in Subcommands \cup {"none"}
    /\ proc # "none" <=> at = "wait"
    /\ wire \in Seq([to : Commands \cup {NoCommand}, head : Contents]) /\ Len(wire) <= MaxQueue
    /\ handle \in BOOLEAN /\ late \in BOOLEAN /\ granted \in BOOLEAN

CliInit ==
    /\ Init
    /\ at = "none" /\ proc = "none" /\ handle = FALSE /\ wire = <<>>
    /\ late = FALSE /\ granted = FALSE

-----------------------------------------------------------------------------
(* What every step does to the queue and to the history. *)

\* The device has sent reply'. Without a process it may be lost.
Queued ==
    IF Len(wire) < MaxQueue
    THEN Append(wire, [to |-> reply'.to, head |-> reply'.head])
    ELSE wire
Sends == wire' \in IF at = "none" THEN {wire, Queued} ELSE {Queued}

\* An answer is late from the moment it can outlive its process until nothing is
\* displayed, staged or queued any more.
Late(cause) ==
    late' = /\ late \/ cause \/ (at' = "none" /\ wire' # <<>>)
            /\ screen' = "prompt" \/ tx' # NoReply \/ wire' # <<>>

\* An approval grants what its handler wrote, if that is a long export: one that
\* fills more of processData than the first 32 bytes.
LongExports == {"address", "private"}
Grants == granted' = (granted \/ prompt.op \in LongExports)

-----------------------------------------------------------------------------
(* The process. *)

\* OpenNanoS. Without a device the process ends with a message; two processes
\* do not hold the device at once.
Open ==
    /\ at = "none" /\ screen # "off"
    /\ at' = "open" /\ handle' = TRUE
    /\ UNCHANGED <<vars, proc, wire, late, granted>>

\* The process ends; what it has not read may be dropped with its handle.
End ==
    /\ proc' = "none" /\ at' = "none" /\ handle' = FALSE
    /\ wire' \in {wire, <<>>}

\* A missing or unreadable index, found after the device was opened.
Usage ==
    /\ at = "open"
    /\ End
    /\ UNCHANGED <<vars, granted>> /\ Late(FALSE)

\* Exchange writes the command, and the handler of the device runs. A prompt, or
\* an answer from the handler itself, replaces a prompt that was there.
Asks(sub) ==
    \/ sub = "addr" /\ HandleGetAddress
    \/ sub = "priv" /\ HandleGetPrivate
    \/ sub = "view" /\ HandleGetView
    \/ sub = "importpriv" /\ HandleImportPrivate(CliKey)
    \/ sub = "genkeyimage" /\ HandleGenKeyImage(CliCoin)
    \/ sub = "trust" /\ HandleTrustDevice

IsRefused(sub) ==
    \/ sub = "version" /\ HandleVersion
    \/ sub \in {"ota", "stub"} /\ HandleRefused(Plain("notSupported"))
    \/ sub = "genkeyimage" /\ HandleGenKeyImageFails(CliCoin)

Send(sub) ==
    /\ at = "open" /\ handle
    /\ at' = "wait" /\ proc' = sub
    /\ \/ Asks(sub) /\ UNCHANGED wire /\ late' = (late /\ wire # <<>>)
       \/ IsRefused(sub) /\ UNCHANGED wire /\ Late(FALSE)
       \/ /\ sub = "genkeyimage" /\ HandleGenKeyImageTrusted(CliCoin)
          /\ Sends /\ late' = (late /\ wire # <<>>)
    /\ granted' = (granted /\ CommandOf(sub).op \notin LongExports)
    /\ UNCHANGED handle

\* Exchange returns the first answer there is.
Read ==
    /\ at = "wait" /\ wire # <<>>
    /\ proc' = "none" /\ at' = "none" /\ handle' = FALSE
    /\ wire' \in {Tail(wire), <<>>}
    /\ UNCHANGED <<vars, granted>> /\ Late(FALSE)

\* A write or a read on a device that went away returns an error.
Lost ==
    /\ at # "none" /\ ~handle
    /\ End
    /\ UNCHANGED <<vars, granted>> /\ Late(FALSE)

\* The process is killed, and the command it sent, if any, stays where it is.
Kill ==
    /\ at # "none"
    /\ End
    /\ UNCHANGED <<vars, granted>> /\ Late(at = "wait")

-----------------------------------------------------------------------------
(* The device and its user, beside the process. *)

TransmitStep ==
    /\ Transmit
    /\ IF async THEN UNCHANGED wire ELSE Sends
    /\ UNCHANGED <<proc, at, handle, granted>> /\ Late(FALSE)

ApproveStep ==
    /\ Approve /\ Sends /\ Grants
    /\ UNCHANGED <<proc, at, handle>> /\ Late(FALSE)

RejectStep ==
    /\ Reject /\ Sends
    /\ UNCHANGED <<proc, at, handle, granted>> /\ Late(FALSE)

\* The transport hands over an empty command: its answer is nobody's, and the
\* prompt stays.
EmptyCommand ==
    /\ ReceiveNothing
    /\ UNCHANGED <<cli, granted>> /\ Late(TRUE)

\* The device leaves the bus.
Gone ==
    /\ \/ IoReset /\ UNCHANGED granted
       \/ (PowerLoss \/ Quit) /\ granted' = FALSE
       \/ ApproveUnsent /\ Grants
    /\ handle' = FALSE /\ wire' \in {wire, <<>>}
    /\ UNCHANGED <<proc, at>> /\ Late(FALSE)

\* The application is started. Its menus change nothing here and are left out.
StartApp ==
    /\ Launch
    /\ UNCHANGED <<cli, late, granted>>

CliNext ==
    \/ Open \/ Usage \/ (\E sub \in Subcommands : Send(sub)) \/ Read \/ Lost \/ Kill
    \/ TransmitStep \/ ApproveStep \/ RejectStep \/ EmptyCommand
    \/ Gone \/ StartApp

CliSpec == CliInit /\ [][CliNext]_cliVars

-----------------------------------------------------------------------------
(* Properties. *)

\* A process reads the answer to its own command, computed from some key and
\* for its own coin, unless an earlier one was killed while it waited, or the
\* device was handed an empty command: nothing in an answer says whose it is.
AnswerIsOwn ==
    [][ (Read /\ ~late) =>
        LET c == CommandOf(proc)
        IN  /\ Head(wire).to = c
            /\ Head(wire).head \in {Absent} \cup {ServiceAnswer(c, k) : k \in Keys} ]_cliVars

\* handleGetView writes 32 bytes and its approval sends 33. The one behind them
\* is never left over from a private key or an address that the user granted:
\* granting clears the buffer. It can be from one that was rejected, replaced by
\* the prompt of another process, or cut off by a reset.
LeftoverNotGranted ==
    [][ (reply' # reply /\ reply'.head.what = "view")
        => ~(granted /\ reply'.tail.what \in LongExports) ]_cliVars

\* A process never waits for nothing, whatever earlier ones left behind: while
\* the device is there its answer is queued or staged, or the user is being
\* asked. (That the user and the device go on is EveryCommandEnds.)
WaitHasEnd ==
    at = "wait" /\ handle => wire # <<>> \/ tx # NoReply \/ screen = "prompt"
=============================================================================
