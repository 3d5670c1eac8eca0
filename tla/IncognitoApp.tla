---------------------------- MODULE IncognitoApp ----------------------------
(***************************************************************************)
(* The device application (src/src/*.c): one command loop that receives    *)
(* APDUs, handlers that compute an answer into the shared buffer           *)
(* processData and put a prompt on the screen, the user who approves or    *)
(* rejects the prompt, and the resets that interrupt all of it.            *)
(*                                                                         *)
(* Bytes are abstracted to their provenance: a buffer holds "the private   *)
(* view key of key k" or "the key image of coin c under key k", never the  *)
(* thirty-two bytes themselves.  Nothing is counted, so the state space is *)
(* finite for finite constants and needs no bound.                         *)
(*                                                                         *)
(* Operators named X_Y are faulty variants of X, which no action uses;     *)
(* they show that a property would notice the fault.                       *)
(***************************************************************************)
EXTENDS Naturals

CONSTANTS
    Derived,        \* the key derived from the seed of the device, account 2
    Imports,        \* the keys the host may import
    Coins,          \* the coins whose key image the host may ask for
    NoKey, NoCoin,  \* "no key" and "no coin" in a record that has the field
    SingleFlight    \* TRUE:  the transport delivers a command only when no
                    \*        earlier one is waiting for its answer
                    \* FALSE: a host gave up on an unanswered command and the
                    \*        next one arrives while its prompt is displayed

ASSUME ConstantsAssumption ==
    /\ Derived \notin Imports
    /\ NoKey \notin Imports \cup {Derived}
    /\ SingleFlight \in BOOLEAN

Keys == Imports \cup {Derived}

-----------------------------------------------------------------------------
(* Commands: the INS byte of an APDU and the part of its data that matters. *)

Command(op, key, coin) == [op |-> op, key |-> key, coin |-> coin]
Plain(op) == Command(op, NoKey, NoCoin)
NoCommand == Plain("none")

\* Instructions that handleApdu refuses: wrong CLA, and the INS codes that are
\* commented as commands but throw 0x6D00, as does an unknown INS.
Refused == {Plain("badCla"), Plain("notSupported")}

\* Instructions whose handler exports something about the key in use.
Exports == {Plain(op) : op \in {"address", "private", "view", "ota"}}
ImportCommands == {Command("import", k, NoCoin) : k \in Imports}
KeyImageCommands == {Command("keyImage", NoKey, c) : c \in Coins}
Trust == Plain("trust")

Prompted == Exports \cup ImportCommands \cup KeyImageCommands \cup {Trust}
Commands == Prompted \cup Refused \cup {Plain("version")}

-----------------------------------------------------------------------------
(* What bytes say. "zero" is cleared memory, "absent" no bytes at all,      *)
(* "scratch" the intermediate values of a point computation, "mixed" an      *)
(* address built from two different keys.                                   *)

Content(what, key, coin) == [what |-> what, key |-> key, coin |-> coin]
Bytes(what) == Content(what, NoKey, NoCoin)
Zero == Bytes("zero")
Absent == Bytes("absent")
Scratch == Bytes("scratch")

Contents == [what : {"zero", "absent", "scratch", "version", "address", "private",
                     "view", "ota", "import", "keyImage", "mixed"},
             key : Keys \cup {NoKey}, coin : Coins \cup {NoCoin}]

\* The answer a command asks for, were it computed from key k.
Answer(c, k) == Content(c.op, k, c.coin)

\* Status words, and what the two CATCH_OTHER clauses make of an exception.
SwOk == 36864             \* 0x9000
SwRejected == 27013       \* 0x6985
SwInsNotSupported == 27904 \* 0x6D00
SwClaNotSupported == 28160 \* 0x6E00
SwNoApdu == 27010         \* 0x6982
InvalidParameter == 2     \* an exception of the SDK, outside 0x6xxx and 0x9xxx
StatusOf_Raw(e) == e      \* fault: internal errors are not mapped
StatusOf(e) == IF e \div 4096 \in {6, 9} THEN e ELSE 26624 + (e % 2048)

StatusWords == {SwOk, SwRejected, SwInsNotSupported, SwClaNotSupported,
                SwNoApdu, 26626}

\* head: the bytes 0..31 of the answer; tail: the bytes that follow them.
Reply(to, sw, head, tail) == [to |-> to, sw |-> sw, head |-> head, tail |-> tail]
NoReply == Reply(NoCommand, SwOk, Absent, Absent)
Replies == [to : Commands \cup {NoCommand}, sw : StatusWords,
            head : Contents, tail : Contents]

-----------------------------------------------------------------------------
VARIABLES
    screen,   \* "off", "idle", "settings" or "prompt": what the user sees
    prompt,   \* the command the displayed prompt asks about, or NoCommand
    key,      \* G_crypto_state_t.key
    view,     \* the key from which G_crypto_state_t.a was computed
    trust,    \* trust_host
    pd,       \* processData: the bytes 0..31 (head) and 32..299 (tail)
    async,    \* IO_ASYNCH_REPLY in the flags of the running io_exchange
    tx,       \* the answer staged in G_io_apdu_buffer, sent by io_exchange
    cmd,      \* the command the host waits for, or NoCommand
    reply     \* the last answer sent, until the next command arrives

ram == <<key, view, trust, pd>>
ui == <<screen, prompt>>
io == <<async, tx, cmd, reply>>
vars == <<ram, ui, io>>

\* Types of the state.
TypeOK ==
    /\ screen \in {"off", "idle", "settings", "prompt"}
    /\ prompt \in Prompted \cup {NoCommand}
    /\ key \in Keys \cup {NoKey}
    /\ view \in Keys \cup {NoKey}
    /\ trust \in BOOLEAN
    /\ pd \in [head : Contents, tail : Contents]
    /\ async \in BOOLEAN
    /\ tx \in Replies
    /\ cmd \in Commands \cup {NoCommand}
    /\ reply \in Replies

-----------------------------------------------------------------------------
(* Power and reset. *)

Init ==
    /\ screen = "off" /\ prompt = NoCommand
    /\ key = NoKey /\ view = NoKey /\ trust = FALSE
    /\ pd = [head |-> Zero, tail |-> Zero]
    /\ async = FALSE /\ tx = NoReply /\ cmd = NoCommand /\ reply = NoReply

\* incognito_reset_crypto_state, a key, incognito_init_crypto_state.
UseKey(k) == key' = k /\ view' = k

\* One turn of the loop in main: nv_app_state_init derives the key, ui_idle
\* takes the screen, and app_main starts with fresh locals.
StartLoop ==
    /\ UseKey(Derived)
    /\ screen' = "idle" /\ prompt' = NoCommand
    /\ async' = FALSE /\ tx' = NoReply /\ cmd' = NoCommand /\ reply' = NoReply

Launch ==
    /\ screen = "off"
    /\ StartLoop
    /\ UNCHANGED <<trust, pd>>

\* EXCEPTION_IO_RESET out of io_exchange: the USB power went away, or a packet
\* could not be sent. The globals survive and main runs its loop body again.
IoReset ==
    /\ screen # "off"
    /\ StartLoop
    /\ UNCHANGED <<trust, pd>>

\* The memory of the application is gone: Quit, or the device loses power.
Stop ==
    /\ screen' = "off" /\ prompt' = NoCommand
    /\ key' = NoKey /\ view' = NoKey /\ trust' = FALSE
    /\ pd' = [head |-> Zero, tail |-> Zero]
    /\ async' = FALSE /\ tx' = NoReply /\ cmd' = NoCommand /\ reply' = NoReply

PowerLoss == screen # "off" /\ Stop
-----------------------------------------------------------------------------
(* The host. io_exchange returns one APDU; app_main clears the flags and    *)
(* calls handleApdu. Each action is the receipt and the whole handler.      *)

\* io_exchange can return an APDU: what was staged is sent.
CanReceive ==
    /\ screen # "off"
    /\ tx = NoReply
    /\ SingleFlight => cmd = NoCommand

\* The handler leaves the answer to the user: ux_flow_init and
\* *flags |= IO_ASYNCH_REPLY.
AskUser(c) ==
    /\ screen' = "prompt" /\ prompt' = c
    /\ cmd' = c /\ async' = TRUE
    /\ reply' = NoReply
    /\ UNCHANGED tx

\* fault: CATCH_OTHER does not stage the status word
Throw_Silent(c, e, bytes) ==
    /\ cmd' = c /\ async' = FALSE /\ reply' = NoReply
    /\ UNCHANGED <<tx, ui>>

\* The handler ends in an exception: the status word is appended to the bytes
\* it has written, and the next io_exchange sends them.
Throw(c, e, bytes) ==
    /\ tx' = Reply(c, StatusOf(e), bytes, Absent)
    /\ cmd' = c /\ async' = FALSE
    /\ reply' = NoReply
    /\ UNCHANGED ui

\* fault: the original screen is not displayed back
SendResponse_NoIdle(to, sw, head, tail) ==
    /\ reply' = Reply(to, sw, head, tail)
    /\ cmd' = NoCommand
    /\ UNCHANGED <<tx, ui>>

\* sendResponse: status word, io_exchange with IO_RETURN_AFTER_TX, ui_idle.
SendResponse(to, sw, head, tail) ==
    /\ reply' = Reply(to, sw, head, tail)
    /\ cmd' = NoCommand
    /\ screen' = "idle" /\ prompt' = NoCommand
    /\ UNCHANGED tx

HandleVersion ==
    /\ CanReceive
    /\ Throw(Plain("version"), SwOk, Bytes("version"))
    /\ UNCHANGED ram

HandleRefused(c) ==
    /\ CanReceive
    /\ Throw(c, IF c.op = "badCla" THEN SwClaNotSupported ELSE SwInsNotSupported, Absent)
    /\ UNCHANGED ram

\* The bytes a handler writes for the host: the address joins the public keys
\* of key and of a; the view key is a; the others come from key. encodeBase58
\* is taken to return the encoding of its input here.
AddressBytes ==
    IF view = key THEN Content("address", key, NoCoin) ELSE Bytes("mixed")

HandleGetAddress ==
    /\ CanReceive /\ AskUser(Plain("address"))
    /\ pd' = [head |-> AddressBytes, tail |-> AddressBytes]
    /\ UNCHANGED <<key, view, trust>>

HandleGetPrivate ==
    /\ CanReceive /\ AskUser(Plain("private"))
    /\ LET bytes == Content("private", key, NoCoin)
       IN  pd' = [head |-> bytes, tail |-> bytes]
    /\ UNCHANGED <<key, view, trust>>

HandleGetView ==
    /\ CanReceive /\ AskUser(Plain("view"))
    /\ pd' = [head |-> Content("view", view, NoCoin), tail |-> pd.tail]
    /\ UNCHANGED <<key, view, trust>>

HandleGetOTA ==
    /\ CanReceive /\ AskUser(Plain("ota"))
    /\ pd' = [head |-> Content("ota", key, NoCoin), tail |-> pd.tail]
    /\ UNCHANGED <<key, view, trust>>

\* The key is in use before the user is asked.
HandleImportPrivate(k) ==
    LET c == Command("import", k, NoCoin)
        bytes == Content("import", k, NoCoin)
    IN  /\ CanReceive /\ AskUser(c)
        /\ pd' = [head |-> bytes, tail |-> bytes]
        /\ UseKey(k)
        /\ UNCHANGED trust

HandleTrustDevice ==
    /\ CanReceive /\ AskUser(Trust)
    /\ UNCHANGED ram

\* fault: the image is copied before the computation is finished
KeyImageBuffer_Early(coin) == [head |-> Scratch, tail |-> Scratch]

\* The point computation runs in processData; the image then takes its head.
KeyImageBuffer(coin) ==
    [head |-> Content("keyImage", key, coin), tail |-> Scratch]

HandleGenKeyImage(coin) ==
    LET c == Command("keyImage", NoKey, coin)
    IN  /\ CanReceive
        /\ ~trust
        /\ AskUser(c)
        /\ pd' = KeyImageBuffer(coin)
        /\ UNCHANGED <<key, view, trust>>

\* fault: trust_host is not tested
HandleGenKeyImageTrusted_Always(coin) ==
    /\ CanReceive
    /\ SendResponse(Command("keyImage", NoKey, coin), SwOk,
                    KeyImageBuffer(coin).head, KeyImageBuffer(coin).tail)
    /\ pd' = [head |-> Zero, tail |-> Zero]
    /\ async' = FALSE
    /\ UNCHANGED <<key, view, trust>>

\* A trusted host is answered from inside the handler, with nobody asked.
HandleGenKeyImageTrusted(coin) ==
    LET c == Command("keyImage", NoKey, coin)
        buf == KeyImageBuffer(coin)
    IN  /\ CanReceive
        /\ trust
        /\ SendResponse(c, SwOk, buf.head, buf.tail)
        /\ pd' = [head |-> Zero, tail |-> Zero]
        /\ async' = FALSE
        /\ UNCHANGED <<key, view, trust>>

\* A curve primitive of the SDK refuses its operand before, or after, the
\* intermediate values were written to processData.
HandleGenKeyImageFails(coin) ==
    /\ CanReceive
    /\ Throw(Command("keyImage", NoKey, coin), InvalidParameter, Absent)
    /\ pd' \in {pd, [head |-> Scratch, tail |-> Scratch]}
    /\ UNCHANGED <<key, view, trust>>

\* io_exchange returns no byte: app_main answers 0x6982 whatever is pending.
\* Only LooseNext takes this step.
ReceiveNothing ==
    /\ CanReceive
    /\ tx' = Reply(cmd, StatusOf(SwNoApdu), Absent, Absent)
    /\ async' = FALSE
    /\ UNCHANGED <<ram, ui, cmd, reply>>

\* The next io_exchange of app_main sends what is staged, unless the flags ask
\* for an asynchronous reply.
Transmit ==
    /\ tx # NoReply
    /\ tx' = NoReply
    /\ IF async THEN UNCHANGED <<cmd, reply>>
                ELSE reply' = tx /\ cmd' = NoCommand
    /\ UNCHANGED <<ram, ui, async>>
-----------------------------------------------------------------------------
(* The user. A button press is an event inside the io_exchange of app_main, *)
(* so it comes only when nothing is staged.                                 *)

\* What the set_result function of a prompt puts before the status word, and
\* what it does to the state.
NoBytesOps == {"import", "trust"}

ResultHead_Always(c) == pd.head     \* fault: every prompt sends the buffer
ResultHead(c) == IF c.op \in NoBytesOps THEN Absent ELSE pd.head
ResultTail(c) == IF c.op \in NoBytesOps \cup {"ota"} THEN Absent ELSE pd.tail

\* fault: the buffer is not cleared
SetResult_KeepBuffer(c) == pd' = pd /\ trust' = (trust \/ c = Trust)

SetResult(c) ==
    /\ pd' = IF c.op \in NoBytesOps THEN pd ELSE [head |-> Zero, tail |-> Zero]
    /\ trust' = (trust \/ c = Trust)

Approve ==
    /\ screen = "prompt" /\ tx = NoReply
    /\ SetResult(prompt)
    /\ SendResponse(cmd, SwOk, ResultHead(prompt), ResultTail(prompt))
    /\ UNCHANGED <<key, view, async>>

\* The io_exchange of sendResponse throws EXCEPTION_IO_RESET: the result is
\* set and the host never hears of it.
ApproveUnsent ==
    /\ screen = "prompt" /\ tx = NoReply
    /\ SetResult(prompt)
    /\ StartLoop

\* fault: a rejection only goes back to the idle screen
Reject_Silent ==
    /\ screen = "prompt" /\ tx = NoReply
    /\ screen' = "idle" /\ prompt' = NoCommand
    /\ UNCHANGED <<ram, io>>

Reject ==
    /\ screen = "prompt" /\ tx = NoReply
    /\ SendResponse(cmd, SwRejected, Absent, Absent)
    /\ UNCHANGED <<ram, async>>

OpenSettings ==
    /\ screen = "idle" /\ tx = NoReply
    /\ screen' = "settings"
    /\ UNCHANGED <<ram, prompt, io>>

LeaveSettings ==
    /\ screen = "settings" /\ tx = NoReply
    /\ screen' = "idle"
    /\ UNCHANGED <<ram, prompt, io>>

Quit ==
    /\ screen = "idle" /\ tx = NoReply
    /\ Stop

-----------------------------------------------------------------------------
Receive ==
    \/ HandleVersion
    \/ \E c \in Refused : HandleRefused(c)
    \/ HandleGetAddress
    \/ HandleGetPrivate
    \/ HandleGetView
    \/ HandleGetOTA
    \/ \E k \in Imports : HandleImportPrivate(k)
    \/ HandleTrustDevice
    \/ \E coin \in Coins :
        \/ HandleGenKeyImage(coin)
        \/ HandleGenKeyImageTrusted(coin)
        \/ HandleGenKeyImageFails(coin)

Decide == Approve \/ Reject

Next ==
    \/ Launch \/ IoReset \/ PowerLoss
    \/ Receive \/ Transmit
    \/ Decide \/ ApproveUnsent
    \/ OpenSettings \/ LeaveSettings \/ Quit

Spec == Init /\ [][Next]_vars

\* The same application under a transport that also hands over commands without
\* a byte in them; HostCli composes it with the processes of such a host.
LooseNext == Next \/ ReceiveNothing

LooseSpec == Init /\ [][LooseNext]_vars

\* app_main always comes back to io_exchange, so a staged answer is sent; and
\* it is assumed of the user, not of the code, that a prompt is not left
\* unanswered for ever.
Fairness == WF_vars(Transmit) /\ WF_vars(Decide)

FairSpec == Spec /\ Fairness

-----------------------------------------------------------------------------
(* Properties. *)

\* A command the host waits for can still be answered: its own prompt is on
\* the screen, or an answer to it is staged. No handler returns without either
\* (a handler that forgot *flags, or a prompt replaced by ui_idle, would leave
\* the host waiting for ever).
OutstandingIsAnswerable ==
    cmd # NoCommand => prompt = cmd \/ (tx # NoReply /\ tx.to = cmd)

\* What an approval would send is the answer to the question on the screen,
\* computed from the key in use now: processData is shared by all handlers
\* and by the point arithmetic, and the answer waits in it for the user.
PromptHoldsAnswer ==
    (screen = "prompt" /\ prompt.op \notin NoBytesOps)
        => pd.head = Answer(prompt, key)

\* An approval is never sent to a host that waits for nothing, or for the
\* answer to another command.
PromptAnswersPending == screen = "prompt" => prompt = cmd

\* app_main enters io_exchange with IO_ASYNCH_REPLY only when it has nothing
\* to send: a staged answer is never swallowed.
StagedReplyIsSent == tx # NoReply => ~async

\* An export reaches the host only by the approval of a prompt for that very
\* export, or, for key images, because a user once trusted the host; this
\* holds although every export leaves through the one shared buffer and
\* although a command may arrive while the prompt of another is displayed.
ExportNeedsConsent ==
    [][ (reply' # reply /\ reply'.head.what \in {"address", "private", "view", "ota", "keyImage"})
        => \/ screen = "prompt" /\ prompt.op = reply'.head.what
           \/ trust /\ reply'.head.what = "keyImage" ]_vars

\* A trusted host is trusted because a user approved the trust prompt during
\* this run of the application; neither a reset nor a rejected prompt nor any
\* other approval gives trust.
TrustIsGiven ==
    [][ (trust' /\ ~trust) => (screen = "prompt" /\ prompt = Trust) ]_vars

\* Every command is answered, unless a reset or the end of the application
\* takes it away.
EveryCommandEnds == (cmd # NoCommand) ~> (cmd = NoCommand)

-----------------------------------------------------------------------------
(* The inductive invariant behind these properties and the refinement, for  *)
(* a transport that keeps one command in flight.                            *)

\* A prompt is on the screen exactly while its command is outstanding.
ScreenInv == screen = "prompt" <=> prompt # NoCommand

\* A staged answer belongs to the outstanding command, which shows no prompt;
\* it is a success for the version only.
StagedInv ==
    tx # NoReply =>
        /\ ~async /\ prompt = NoCommand
        /\ cmd # NoCommand /\ tx.to = cmd
        /\ \/ tx.sw = SwOk /\ cmd = Plain("version") /\ tx.head = Bytes("version")
           \/ tx.sw # SwOk /\ tx.head = Absent

\* The view key is that of the key in use, and a stopped application has none.
KeyInv ==
    /\ screen # "off" => key \in Keys /\ view = key
    /\ screen = "off" => key = NoKey /\ cmd = NoCommand /\ tx = NoReply /\ reply = NoReply

\* The safety of one command at a time: together, inductive.
SafetyInv ==
    /\ ScreenInv /\ StagedInv /\ KeyInv
    /\ OutstandingIsAnswerable /\ PromptHoldsAnswer /\ PromptAnswersPending

-----------------------------------------------------------------------------
(* The application implements WalletService. *)

ImportOf(c) == c.key

ServiceAnswer(c, k) ==
    IF c.op \in NoBytesOps THEN Absent
    ELSE IF c.op = "version" THEN Bytes("version") ELSE Answer(c, k)

Outcome ==
    IF reply = NoReply THEN [to |-> NoCommand, granted |-> FALSE, answer |-> Absent]
    ELSE [to |-> reply.to, granted |-> reply.sw = SwOk, answer |-> reply.head]

Service == INSTANCE WalletService WITH
    Requests <- Commands, Refusals <- Refused, Unattended <- KeyImageCommands,
    TrustRequest <- Trust, ImportOf <- ImportOf, Answer <- ServiceAnswer,
    NoRequest <- NoCommand, NoAnswer <- Absent,
    pending <- cmd, outcome <- Outcome

\* With one command in flight the application is a WalletService: what the
\* user grants is computed from the key in use at that moment, although it
\* was written into a shared buffer when the command arrived.
ImplementsService == Service!Spec

-----------------------------------------------------------------------------
(* What the source says and the code does not do. *)

\* "Importing privatekey?" is a question: the key is imported by an approval.
ImportNeedsApproval ==
    [][ (key' # key /\ key' \in Imports)
        => (screen = "prompt" /\ prompt.op = "import" /\ reply'.sw = SwOk) ]_vars
=============================================================================
