--------------------------- MODULE HostCli_proofs ---------------------------
(***************************************************************************)
(* Proofs about HostCli, for any keys, coins and length of the queue: the  *)
(* processes leave the device application what it is, no process waits for *)
(* nothing, each reads its own answer, and nothing that was granted is left *)
(* over in the buffer.                                                     *)
(***************************************************************************)
EXTENDS HostCli, IncognitoApp_proofs, SequenceTheorems

-----------------------------------------------------------------------------
(* The device application beside the processes. *)

\* The commands of the processes are commands, and the handlers they reach are
\* among those of the application.
LEMMA SendReceives == ASSUME NEW sub \in Subcommands, Send(sub)
    PROVE  Receive
<1>1. Plain("notSupported") \in Refused
  BY DEF Refused
<1>2. CASE Asks(sub)
  BY <1>2, CliConstantsAssumption DEF Asks, Receive
<1>3. CASE IsRefused(sub)
  BY <1>1, <1>3, CliConstantsAssumption DEF IsRefused, Receive
<1>4. CASE HandleGenKeyImageTrusted(CliCoin)
  BY <1>4, CliConstantsAssumption DEF Receive
<1> QED BY <1>2, <1>3, <1>4 DEF Send

LEMMA AppStep == ASSUME [CliNext]_cliVars PROVE [LooseNext]_vars
<1>1. CASE Open \/ Usage \/ Read \/ Lost \/ Kill
  BY <1>1 DEF Open, Usage, Read, Lost, Kill
<1>2. ASSUME NEW sub \in Subcommands, Send(sub) PROVE LooseNext
  BY <1>2, SendReceives DEF LooseNext, Next
<1>3. CASE TransmitStep
  BY <1>3 DEF TransmitStep, LooseNext, Next
<1>4. CASE ApproveStep \/ RejectStep
  BY <1>4 DEF ApproveStep, RejectStep, LooseNext, Next, Decide
<1>5. CASE EmptyCommand
  BY <1>5 DEF EmptyCommand, LooseNext
<1>6. CASE Gone
  BY <1>6 DEF Gone, LooseNext, Next
<1>7. CASE StartApp
  BY <1>7 DEF StartApp, LooseNext, Next
<1>8. CASE UNCHANGED cliVars
  BY <1>8 DEF cliVars
<1> QED BY <1>1, <1>2, <1>3, <1>4, <1>5, <1>6, <1>7, <1>8 DEF CliNext, LooseNext

\* Whatever processes do, and however they die, the device runs as IncognitoApp.
THEOREM DeviceRunsAsSpecified == CliSpec => LooseSpec
BY AppStep, PTL DEF CliSpec, CliInit, LooseSpec

\* So an export still needs the consent of the user, whichever process asks.
THEOREM ConsentAmongProcesses == CliSpec => ExportNeedsConsent
BY DeviceRunsAsSpecified, Consent, PTL

-----------------------------------------------------------------------------
(* Types. *)

OnWire == [to : Commands \cup {NoCommand}, head : Contents]
WireType == wire \in Seq(OnWire) /\ Len(wire) <= MaxQueue

\* The queue with an answer more: never empty, never too long.
LEMMA QueuedType == ASSUME TypeOK', WireType
    PROVE  Queued \in Seq(OnWire) /\ Len(Queued) <= MaxQueue /\ Queued # <<>>
<1> DEFINE answer == [to |-> reply'.to, head |-> reply'.head]
<1>1. answer \in OnWire
  BY DEF TypeOK, Replies, OnWire
<1> HIDE DEF answer
<1>2. CASE Len(wire) < MaxQueue
  <2>1. Queued = Append(wire, answer)
    BY <1>2 DEF Queued, answer
  <2>2. Append(wire, answer) \in Seq(OnWire) /\ Len(Append(wire, answer)) = Len(wire) + 1
    BY <1>1 DEF WireType
  <2> QED BY <1>2, <2>1, <2>2, CliConstantsAssumption DEF WireType
<1>3. CASE ~(Len(wire) < MaxQueue)
  BY <1>3, CliConstantsAssumption DEF WireType, Queued
<1> QED BY <1>2, <1>3

\* What a step does to the queue keeps it a queue of answers.
LEMMA WireStep == ASSUME TypeOK', WireType, [CliNext]_cliVars PROVE WireType'
<1>1. ASSUME wire' \in {wire, <<>>, Queued} PROVE WireType'
  <2>1. <<>> \in Seq(OnWire) /\ Len(<<>>) = 0 /\ MaxQueue \in Nat
    BY EmptySeq, CliConstantsAssumption
  <2>2. CASE wire' = wire
    BY <2>2 DEF WireType, OnWire
  <2>3. CASE wire' = <<>>
    <3>1. wire' \in Seq(OnWire) /\ Len(wire') <= MaxQueue
      BY <2>1, <2>3, CliConstantsAssumption
    <3> QED BY <3>1 DEF WireType, OnWire
  <2>4. CASE wire' = Queued
    <3>1. wire' \in Seq(OnWire) /\ Len(wire') <= MaxQueue
      BY <2>4, QueuedType
    <3> QED BY <3>1 DEF WireType, OnWire
  <2> QED BY <1>1, <2>2, <2>3, <2>4
<1>2. CASE Open \/ Usage \/ Lost \/ Kill \/ EmptyCommand \/ StartApp \/ Gone
  BY <1>1, <1>2 DEF Open, Usage, Lost, Kill, End, EmptyCommand, StartApp, Gone, cli
<1>3. ASSUME NEW sub \in Subcommands, Send(sub) PROVE WireType'
  BY <1>1, <1>3 DEF Send, Sends
<1>4. CASE Read
  <2>1. Tail(wire) \in Seq(OnWire) /\ Len(Tail(wire)) = Len(wire) - 1
    BY <1>4 DEF Read, WireType
  <2>2. wire' \in {Tail(wire), <<>>}
    BY <1>4 DEF Read
  <2>3. CASE wire' = Tail(wire)
    BY <2>1, <2>3, CliConstantsAssumption DEF WireType, OnWire
  <2> QED BY <1>1, <2>2, <2>3
<1>5. CASE TransmitStep \/ ApproveStep \/ RejectStep
  BY <1>1, <1>5 DEF TransmitStep, ApproveStep, RejectStep, Sends
<1>6. CASE UNCHANGED cliVars
  BY <1>1, <1>6 DEF cliVars, cli
<1> QED BY <1>2, <1>3, <1>4, <1>5, <1>6 DEF CliNext

LEMMA LateType == \A cause : Late(cause) => late' \in BOOLEAN
BY Zenon DEF Late

LEMMA CliTypeStep == ASSUME CliTypeOK, [CliNext]_cliVars PROVE CliTypeOK'
<1>1. TypeOK'
  BY AppStep, NextType DEF CliTypeOK
<1>2. WireType'
  BY <1>1, WireStep DEF CliTypeOK, WireType, OnWire
<1>3. /\ at' \in {"none", "open", "wait"} /\ proc' \in Subcommands \cup {"none"}
      /\ proc' # "none" <=> at' = "wait"
      /\ handle' \in BOOLEAN
  <2>1. ASSUME NEW sub \in Subcommands, Send(sub)
        PROVE  at' = "wait" /\ proc' = sub /\ handle' = handle /\ sub # "none"
    BY <2>1 DEF Send, Subcommands
  <2>2. CASE Open
    BY <2>2 DEF Open, CliTypeOK
  <2>3. CASE Usage \/ Read \/ Lost \/ Kill
    BY <2>3 DEF Usage, Read, Lost, Kill, End
  <2>4. CASE TransmitStep \/ ApproveStep \/ RejectStep \/ EmptyCommand \/ Gone \/ StartApp
    BY <2>4 DEF TransmitStep, ApproveStep, RejectStep, EmptyCommand, Gone, StartApp, cli, CliTypeOK
  <2>5. CASE UNCHANGED cliVars
    BY <2>5 DEF cliVars, cli, CliTypeOK
  <2> QED BY <2>1, <2>2, <2>3, <2>4, <2>5 DEF CliNext, CliTypeOK
<1>4. late' \in BOOLEAN
  <2>1. ASSUME NEW sub \in Subcommands, Send(sub) PROVE late' \in BOOLEAN
    BY <2>1, LateType, Zenon DEF Send
  <2>2. CASE Open \/ StartApp \/ UNCHANGED cliVars
    BY <2>2 DEF Open, StartApp, cliVars, CliTypeOK
  <2>3. CASE \/ Usage \/ Read \/ Lost \/ Kill \/ TransmitStep \/ ApproveStep \/ RejectStep
             \/ EmptyCommand \/ Gone
    BY <2>3, LateType
    DEF Usage, Read, Lost, Kill, TransmitStep, ApproveStep, RejectStep, EmptyCommand, Gone
  <2> QED BY <2>1, <2>2, <2>3 DEF CliNext
<1>5. granted' \in BOOLEAN
  <2>1. ASSUME NEW sub \in Subcommands, Send(sub) PROVE granted' \in BOOLEAN
    BY <2>1, Zenon DEF Send
  <2>2. Grants => granted' \in BOOLEAN
    BY Zenon DEF Grants
  <2>3. CASE \/ Open \/ Usage \/ Read \/ Lost \/ Kill \/ TransmitStep \/ RejectStep
             \/ EmptyCommand \/ StartApp \/ UNCHANGED cliVars
    BY <2>3
    DEF Open, Usage, Read, Lost, Kill, TransmitStep, RejectStep, EmptyCommand, StartApp,
        cliVars, CliTypeOK
  <2>4. CASE ApproveStep \/ Gone
    BY <2>2, <2>4 DEF ApproveStep, Gone, CliTypeOK
  <2> QED BY <2>1, <2>3, <2>4 DEF CliNext
<1> QED BY <1>1, <1>2, <1>3, <1>4, <1>5 DEF CliTypeOK, WireType, OnWire

\* Every reachable state is well typed.
THEOREM CliTypeCorrect == CliSpec => []CliTypeOK
<1>1. ASSUME CliInit PROVE CliTypeOK
  <2>1. TypeOK
    BY <1>1, InitType DEF CliInit
  <2>2. wire = <<>> /\ <<>> \in Seq(OnWire) /\ Len(<<>>) = 0 /\ MaxQueue \in Nat
    BY <1>1, EmptySeq, CliConstantsAssumption DEF CliInit
  <2>3. wire \in Seq(OnWire) /\ Len(wire) <= MaxQueue
    BY <2>2
  <2> QED BY <1>1, <2>1, <2>3 DEF CliInit, CliTypeOK, OnWire, Subcommands
<1> QED BY <1>1, CliTypeStep, PTL DEF CliSpec

-----------------------------------------------------------------------------
(* No process waits for nothing. *)

\* A handle is the handle of a running application, and the key of a running
\* application is a key; also when commands are abandoned or empty.
RunInv ==
    /\ StagedReplyIsSent
    /\ handle => screen # "off"
    /\ screen # "off" => key \in Keys /\ view = key

LEMMA KeyStep == ASSUME screen # "off" => key \in Keys /\ view = key, [LooseNext]_vars
    PROVE  (screen # "off" => key \in Keys /\ view = key)'
<1>1. CASE Launch \/ IoReset \/ ApproveUnsent
  BY <1>1 DEF Launch, IoReset, ApproveUnsent, StartLoop, UseKey, Keys
<1>2. CASE PowerLoss \/ Quit
  BY <1>2 DEF PowerLoss, Quit, Stop
<1>3. CASE Receive
  BY <1>3
  DEF Receive, CanReceive, HandleVersion, HandleRefused, HandleGetAddress, HandleGetPrivate,
      HandleGetView, HandleGetOTA, HandleImportPrivate, HandleTrustDevice, HandleGenKeyImage,
      HandleGenKeyImageTrusted, HandleGenKeyImageFails, UseKey, Keys, ram
<1>4. CASE Transmit \/ ReceiveNothing
  BY <1>4 DEF Transmit, ReceiveNothing, ram, ui
<1>5. CASE Approve \/ Reject
  BY <1>5 DEF Approve, Reject, ram
<1>6. CASE OpenSettings \/ LeaveSettings
  BY <1>6 DEF OpenSettings, LeaveSettings, ram
<1>7. CASE UNCHANGED vars
  BY <1>7 DEF vars, ram, ui
<1> QED BY <1>1, <1>2, <1>3, <1>4, <1>5, <1>6, <1>7 DEF LooseNext, Next, Decide

\* Receiving a command does not switch the application off.
LEMMA ReceiveRuns == ASSUME Receive PROVE screen' # "off"
BY DEF Receive, CanReceive, HandleVersion, HandleRefused, HandleGetAddress, HandleGetPrivate,
       HandleGetView, HandleGetOTA, HandleImportPrivate, HandleTrustDevice, HandleGenKeyImage,
       HandleGenKeyImageTrusted, HandleGenKeyImageFails, AskUser, Throw, SendResponse, ui

LEMMA RunStep == ASSUME RunInv, [CliNext]_cliVars PROVE RunInv'
<1>1. StagedReplyIsSent'
  BY AppStep, StagedStep DEF RunInv
<1>2. (screen # "off" => key \in Keys /\ view = key)'
  BY AppStep, KeyStep DEF RunInv
<1>3. handle' => screen' # "off"
  <2>1. CASE Open
    BY <2>1 DEF Open, vars, ui
  <2>2. CASE Usage \/ Read \/ Lost \/ Kill
    BY <2>2 DEF Usage, Read, Lost, Kill, End
  <2>3. ASSUME NEW sub \in Subcommands, Send(sub) PROVE screen' # "off"
    BY <2>3, SendReceives, ReceiveRuns
  <2>4. CASE TransmitStep \/ EmptyCommand
    BY <2>4 DEF TransmitStep, EmptyCommand, Transmit, ReceiveNothing, ui, cli, RunInv
  <2>5. CASE ApproveStep \/ RejectStep \/ StartApp
    BY <2>5
    DEF ApproveStep, RejectStep, StartApp, Approve, Reject, Launch, StartLoop, SendResponse
  <2>6. CASE Gone
    BY <2>6 DEF Gone
  <2>7. CASE UNCHANGED cliVars
    BY <2>7 DEF cliVars, cli, vars, ui, RunInv
  <2> QED BY <2>1, <2>2, <2>3, <2>4, <2>5, <2>6, <2>7 DEF CliNext
<1> QED BY <1>1, <1>2, <1>3 DEF RunInv

\* A thrown status word is staged: no reply of a handler is "nothing staged".
LEMMA ThrowStages == ASSUME NEW c, NEW e, NEW bytes, c # NoCommand, Throw(c, e, bytes)
    PROVE  tx' # NoReply
BY DEF Throw, NoReply, Reply

LEMMA WaitStep == ASSUME CliTypeOK, RunInv, WaitHasEnd, [CliNext]_cliVars PROVE WaitHasEnd'
<1> USE DEF WaitHasEnd
<1>0. Queued # <<>>
  BY CliTypeStep, QueuedType DEF CliTypeOK, WireType, OnWire
<1>1. CASE Open \/ Usage \/ Read \/ Lost \/ Kill \/ Gone
  BY <1>1 DEF Open, Usage, Read, Lost, Kill, End, Gone
<1>2. ASSUME NEW sub \in Subcommands, Send(sub) PROVE WaitHasEnd'
  <2>1. CASE Asks(sub)
    BY <2>1
    DEF Asks, HandleGetAddress, HandleGetPrivate, HandleGetView, HandleImportPrivate,
        HandleGenKeyImage, HandleTrustDevice, AskUser
  <2>2. CASE IsRefused(sub)
    <3>1. /\ Plain("version") # NoCommand /\ Plain("notSupported") # NoCommand
          /\ Command("keyImage", NoKey, CliCoin) # NoCommand
      BY DEF Plain, Command, NoCommand
    <3> QED
      BY <2>2, <3>1, ThrowStages
      DEF IsRefused, HandleVersion, HandleRefused, HandleGenKeyImageFails
  <2>3. CASE Sends
    BY <1>0, <1>2, <2>3 DEF Send, Sends
  <2> QED BY <1>2, <2>1, <2>2, <2>3 DEF Send
<1>3. CASE TransmitStep
  BY <1>0, <1>3 DEF TransmitStep, Transmit, Sends, RunInv, StagedReplyIsSent
<1>4. CASE ApproveStep \/ RejectStep
  BY <1>0, <1>4 DEF ApproveStep, RejectStep, Sends
<1>5. CASE EmptyCommand
  BY <1>5 DEF EmptyCommand, ReceiveNothing, NoReply, Reply, StatusOf, SwNoApdu, SwOk
<1>6. CASE StartApp
  BY <1>6 DEF StartApp, Launch, RunInv, cli
<1>7. CASE UNCHANGED cliVars
  BY <1>7 DEF cliVars, cli, vars, ui, io
<1> QED BY <1>1, <1>2, <1>3, <1>4, <1>5, <1>6, <1>7 DEF CliNext

\* While its device is there a process that waits has an answer coming, or the
\* user is being asked; for any number of processes that died before it.
THEOREM Waiting == CliSpec => []WaitHasEnd
<1>1. CliInit => RunInv /\ WaitHasEnd
  BY DEF CliInit, Init, RunInv, WaitHasEnd, StagedReplyIsSent
<1> QED BY <1>1, CliTypeCorrect, RunStep, WaitStep, PTL DEF CliSpec

-----------------------------------------------------------------------------
(* What is left over in the buffer. *)

LeftoverInv == granted => pd.tail.what \notin LongExports

LEMMA LeftoverStep == ASSUME LeftoverInv, [CliNext]_cliVars PROVE LeftoverInv'
<1> USE BytesWhat DEF LeftoverInv, LongExports
<1>1. CASE Open \/ Usage \/ Read \/ Lost \/ Kill
  BY <1>1 DEF Open, Usage, Read, Lost, Kill, vars, ram
<1>2. ASSUME NEW sub \in Subcommands, Send(sub) PROVE LeftoverInv'
  <2>1. CASE sub \in {"addr", "priv"}
    BY <1>2, <2>1 DEF Send, CommandOf
  <2>2. ASSUME sub \notin {"addr", "priv"}
        PROVE  pd'.tail = pd.tail \/ pd'.tail.what \notin LongExports
    <3>1. CASE Asks(sub)
      BY <2>2, <3>1
      DEF Asks, HandleGetView, HandleImportPrivate, HandleGenKeyImage, HandleTrustDevice,
          KeyImageBuffer, ram
    <3>2. CASE HandleVersion \/ HandleRefused(Plain("notSupported"))
      BY <3>2 DEF HandleVersion, HandleRefused, ram
    <3>3. CASE HandleGenKeyImageFails(CliCoin)
      BY <3>3 DEF HandleGenKeyImageFails
    <3>4. CASE HandleGenKeyImageTrusted(CliCoin)
      BY <3>4 DEF HandleGenKeyImageTrusted
    <3> QED BY <1>2, <3>1, <3>2, <3>3, <3>4 DEF Send, IsRefused
  <2>3. granted' => granted
    BY <1>2 DEF Send
  <2> QED BY <2>1, <2>2, <2>3
<1>3. CASE TransmitStep \/ RejectStep \/ EmptyCommand
  BY <1>3 DEF TransmitStep, RejectStep, EmptyCommand, Transmit, Reject, ReceiveNothing, ram
<1>4. ASSUME SetResult(prompt), Grants PROVE LeftoverInv'
  BY <1>4 DEF SetResult, Grants, NoBytesOps
<1>5. CASE ApproveStep
  BY <1>4, <1>5 DEF ApproveStep, Approve
<1>6. CASE Gone
  BY <1>4, <1>6 DEF Gone, IoReset, PowerLoss, Quit, Stop, ApproveUnsent
<1>7. CASE StartApp
  BY <1>7 DEF StartApp, Launch
<1>8. CASE UNCHANGED cliVars
  BY <1>8 DEF cliVars, vars, ram
<1> QED BY <1>1, <1>2, <1>3, <1>5, <1>6, <1>7, <1>8 DEF CliNext

\* A view key leaves the device with the tail of the buffer.
LEMMA ViewTail ==
    ASSUME ConsentInv, [LooseNext]_vars, reply' # reply, reply'.head.what = "view"
    PROVE  reply'.tail \in {pd.tail, Absent}
<1> USE BytesWhat
<1>1. reply' # NoReply
  OBVIOUS
<1>2. CASE Approve
  BY <1>2 DEF Approve, SendResponse, ResultTail, Reply
<1>3. CASE Reject
  BY <1>3 DEF Reject, SendResponse
<1>4. CASE Transmit
  BY <1>4 DEF Transmit, ConsentInv, ExportKinds
<1>5. ASSUME NEW coin \in Coins, HandleGenKeyImageTrusted(coin) PROVE FALSE
  BY <1>5 DEF HandleGenKeyImageTrusted, KeyImageBuffer, SendResponse
<1>6. CASE /\ Receive
           /\ ~ \E coin \in Coins : HandleGenKeyImageTrusted(coin)
  <2>1. reply' = NoReply
    BY <1>6 DEF Receive, HandleVersion, HandleRefused, HandleGetAddress, HandleGetPrivate,
       HandleGetView, HandleGetOTA, HandleImportPrivate, HandleTrustDevice,
       HandleGenKeyImage, HandleGenKeyImageFails, AskUser, Throw
  <2> QED BY <1>1, <2>1
<1>7. CASE \/ Launch \/ IoReset \/ ApproveUnsent \/ PowerLoss \/ Quit \/ ReceiveNothing
           \/ OpenSettings \/ LeaveSettings \/ UNCHANGED vars
  <2>1. reply' \in {reply, NoReply}
    BY <1>7 DEF Launch, IoReset, ApproveUnsent, StartLoop, PowerLoss, Quit, Stop,
       OpenSettings, LeaveSettings, ReceiveNothing, vars, io
  <2> QED BY <1>1, <2>1
<1> QED
  BY <1>2, <1>3, <1>4, <1>5, <1>6, <1>7 DEF LooseNext, Next, Decide

\* The byte sent behind a view key is none of a key or an address that a user
\* granted; for any keys, coins and order of the processes.
THEOREM Leftover == CliSpec => LeftoverNotGranted
<1>1. CliInit => ConsentInv /\ LeftoverInv
  BY BytesWhat DEF CliInit, Init, ConsentInv, ExportKinds, LeftoverInv
<1>2. ConsentInv /\ LeftoverInv /\ [CliNext]_cliVars
        => [ (reply' # reply /\ reply'.head.what = "view")
             => ~(granted /\ reply'.tail.what \in LongExports) ]_cliVars
  BY AppStep, ViewTail, BytesWhat DEF LeftoverInv, LongExports
<1>3. ConsentInv /\ [CliNext]_cliVars => ConsentInv'
  BY AppStep, NextConsent
<1> QED BY <1>1, <1>2, <1>3, LeftoverStep, PTL DEF CliSpec, LeftoverNotGranted

-----------------------------------------------------------------------------
(* Whose answer a process reads. *)

\* Between two commands nothing is displayed, staged or queued; a process that
\* waits has its own question, or its own answer, in exactly one place.
OwnHead(c, head) == head \in {Absent} \cup {ServiceAnswer(c, k) : k \in Keys}
OwnQuestion(c) ==
    /\ handle /\ screen = "prompt" /\ tx = NoReply /\ wire = <<>>
    /\ prompt = c /\ cmd = c
    /\ c.op \in NoBytesOps \/ (c.op # "version" /\ OwnHead(c, pd.head))
OwnStaged(c) ==
    /\ handle /\ screen # "prompt" /\ tx # NoReply /\ wire = <<>>
    /\ tx.to = c /\ OwnHead(c, tx.head)
OwnArrived(c) ==
    /\ screen # "prompt" /\ tx = NoReply
    /\ \E answer : wire = <<answer>> /\ answer.to = c /\ OwnHead(c, answer.head)
Quiet == screen # "prompt" /\ tx = NoReply /\ wire = <<>>
OwnInv ==
    ~late => \/ Quiet
             \/ /\ at = "wait"
                /\ \/ OwnQuestion(CommandOf(proc)) \/ OwnStaged(CommandOf(proc))
                   \/ OwnArrived(CommandOf(proc))

\* An answer that is sent into an empty queue has arrived.
LEMMA SentArrives ==
    ASSUME NEW c, wire = <<>>, wire' = Queued, screen' # "prompt", tx' = NoReply,
           reply'.to = c, OwnHead(c, reply'.head)
    PROVE  OwnArrived(c)'
<1>1. PICK answer : answer = [to |-> reply'.to, head |-> reply'.head]
  OBVIOUS
<1>2. wire' = <<answer>>
  BY <1>1, CliConstantsAssumption DEF Queued
<1>3. answer.to = c /\ OwnHead(c, answer.head)
  BY <1>1
<1> QED BY <1>2, <1>3 DEF OwnArrived, OwnHead, ServiceAnswer

\* Outside of Quiet, what is not late was not late before.
LEMMA LateFalse == ASSUME NEW cause, Late(cause), ~late'
    PROVE  Quiet' \/ (~late /\ ~cause /\ (at' = "none" => wire' = <<>>))
BY DEF Late, Quiet

LEMMA OwnSend == ASSUME RunInv, OwnInv, NEW sub \in Subcommands, Send(sub) PROVE OwnInv'
<1> USE BytesWhat
<1> DEFINE c == CommandOf(sub)
<1>1. at' = "wait" /\ proc' = sub /\ handle' /\ CommandOf(proc') = c
  BY DEF Send
<1>2. tx = NoReply /\ key \in Keys /\ view = key
  BY SendReceives DEF RunInv, Receive, CanReceive, HandleVersion, HandleRefused,
     HandleGetAddress, HandleGetPrivate, HandleGetView, HandleGetOTA, HandleImportPrivate,
     HandleTrustDevice, HandleGenKeyImage, HandleGenKeyImageTrusted, HandleGenKeyImageFails
<1>3. ~late => Quiet
  BY DEF Send, OwnInv
<1>4. CASE Asks(sub) /\ wire' = wire /\ late' = (late /\ wire # <<>>)
  <2>1. screen' = "prompt" /\ tx' = NoReply /\ prompt' = c /\ cmd' = c
    BY <1>2, <1>4
    DEF Asks, CommandOf, HandleGetAddress, HandleGetPrivate, HandleGetView,
        HandleImportPrivate, HandleGenKeyImage, HandleTrustDevice, AskUser
  <2>2. ~late' => wire' = <<>>
    BY <1>3, <1>4 DEF Quiet
  <2>3. \/ c.op \notin NoBytesOps \cup {"version"} /\ OwnHead(c, pd'.head)
        \/ c.op \in NoBytesOps
    <3> USE DEF OwnHead, ServiceAnswer, Answer, NoBytesOps, CommandOf
    <3>1. CASE sub = "addr" /\ HandleGetAddress
      BY <1>2, <3>1 DEF HandleGetAddress, AddressBytes, Plain, Command
    <3>2. CASE sub = "priv" /\ HandleGetPrivate
      BY <1>2, <3>2 DEF HandleGetPrivate, Plain, Command
    <3>3. CASE sub = "view" /\ HandleGetView
      BY <1>2, <3>3 DEF HandleGetView, Plain, Command
    <3>4. CASE sub \in {"importpriv", "trust"}
      BY <3>4 DEF Trust
    <3>5. CASE sub = "genkeyimage" /\ HandleGenKeyImage(CliCoin)
      BY <1>2, <3>5 DEF HandleGenKeyImage, KeyImageBuffer, Command
    <3> QED BY <1>4, <3>1, <3>2, <3>3, <3>4, <3>5 DEF Asks
  <2> HIDE DEF c
  <2>4. ~late' => OwnQuestion(c)'
    BY <1>1, <2>1, <2>2, <2>3 DEF OwnQuestion, OwnHead, ServiceAnswer
  <2> QED BY <1>1, <2>4 DEF OwnInv
<1>5. CASE IsRefused(sub) /\ wire' = wire /\ Late(FALSE)
  <2>1. /\ tx'.to = c /\ tx' # NoReply /\ screen' = screen
        /\ tx'.head = Absent \/ tx'.head = ServiceAnswer(c, key)
    <3>1. /\ Plain("version") # NoCommand /\ Plain("notSupported") # NoCommand
          /\ Command("keyImage", NoKey, CliCoin) # NoCommand
      BY DEF Plain, Command, NoCommand
    <3>2. CASE sub = "version" /\ HandleVersion
      BY <3>1, <3>2, ThrowStages
      DEF HandleVersion, Throw, Reply, ui, CommandOf, ServiceAnswer, NoBytesOps
    <3>3. CASE sub \in {"ota", "stub"} /\ HandleRefused(Plain("notSupported"))
      BY <3>1, <3>3, ThrowStages DEF HandleRefused, Throw, Reply, ui, CommandOf
    <3>4. CASE sub = "genkeyimage" /\ HandleGenKeyImageFails(CliCoin)
      BY <3>1, <3>4, ThrowStages DEF HandleGenKeyImageFails, Throw, Reply, ui, CommandOf
    <3> QED BY <1>5, <3>2, <3>3, <3>4 DEF IsRefused
  <2> HIDE DEF c
  <2>2. ~late' => wire' = <<>> /\ screen' # "prompt"
    BY <1>3, <1>5, <2>1, LateFalse DEF Quiet
  <2>3. OwnHead(c, tx'.head)
    BY <1>2, <2>1 DEF OwnHead
  <2>4. ~late' => OwnStaged(c)'
    BY <1>1, <2>1, <2>2, <2>3 DEF OwnStaged, OwnHead, ServiceAnswer
  <2> QED BY <1>1, <2>4 DEF OwnInv
<1>6. CASE /\ sub = "genkeyimage" /\ HandleGenKeyImageTrusted(CliCoin)
           /\ Sends /\ late' = (late /\ wire # <<>>)
  <2>1. screen' = "idle" /\ tx' = NoReply /\ wire' = Queued
    BY <1>2, <1>6 DEF HandleGenKeyImageTrusted, SendResponse, Sends, Send
  <2>2. reply'.to = c /\ OwnHead(c, reply'.head)
    BY <1>2, <1>6
    DEF HandleGenKeyImageTrusted, SendResponse, Reply, KeyImageBuffer, CommandOf, OwnHead,
        ServiceAnswer, Answer, NoBytesOps, Command
  <2> HIDE DEF c
  <2>3. ~late' => wire = <<>>
    BY <1>3, <1>6 DEF Quiet
  <2>4. ~late' => OwnArrived(c)'
    BY <2>1, <2>2, <2>3, SentArrives
  <2> QED BY <1>1, <2>4 DEF OwnInv
<1> QED BY <1>4, <1>5, <1>6 DEF Send

LEMMA OwnStep == ASSUME RunInv, OwnInv, [CliNext]_cliVars PROVE OwnInv'
<1>p. PICK p : p = proc
  OBVIOUS
<1> DEFINE c == CommandOf(p)
<1>q. CommandOf(proc) = c
  BY <1>p
<1>0. ASSUME Quiet' PROVE OwnInv'
  BY <1>0 DEF OwnInv
<1>1. CASE Open \/ UNCHANGED cliVars
  <2>1. CASE Open
    BY <2>1 DEF Open, OwnInv, Quiet, vars, ui, io
  <2>2. CASE UNCHANGED cliVars
    BY <2>2
    DEF cliVars, cli, vars, ram, ui, io, OwnInv, Quiet, OwnQuestion, OwnStaged, OwnArrived,
        OwnHead, ServiceAnswer
  <2> QED BY <1>1, <2>1, <2>2
<1>2. CASE Usage \/ Read \/ Lost \/ Kill
  <2>1. at' = "none" /\ screen' = screen /\ tx' = tx
    BY <1>2 DEF Usage, Read, Lost, Kill, End, vars, ui, io
  <2>2. ASSUME ~late', ~Quiet' PROVE FALSE
    <3>1. ~late /\ wire' = <<>>
      BY <1>2, <2>1, <2>2, LateFalse DEF Usage, Read, Lost, Kill
    <3>2. ~(Kill /\ at = "wait")
      BY <2>2, LateFalse DEF Kill
    <3>3. at = "wait" /\ (OwnQuestion(c) \/ OwnStaged(c))
      BY <1>q, <2>1, <2>2, <3>1 DEF OwnInv, Quiet, OwnArrived
    <3> QED BY <1>2, <3>2, <3>3 DEF Usage, Read, Lost, OwnQuestion, OwnStaged
  <2> QED BY <2>2 DEF OwnInv
<1>3. ASSUME NEW sub \in Subcommands, Send(sub) PROVE OwnInv'
  BY <1>3, OwnSend
<1>4. CASE TransmitStep \/ ApproveStep \/ RejectStep
  <2>1. at' = at /\ proc' = proc /\ Late(FALSE)
    BY <1>4 DEF TransmitStep, ApproveStep, RejectStep
  <2>2. SUFFICES ASSUME ~late', ~Quiet' PROVE at = "wait" /\ OwnArrived(c)'
    BY <1>0, <1>p, <2>1 DEF OwnInv
  <2>3. ~late /\ ~Quiet
    BY <1>4, <2>1, <2>2, LateFalse
    DEF TransmitStep, ApproveStep, RejectStep, Transmit, Approve, Reject, Quiet
  <2>4. at = "wait"
    BY <2>3 DEF OwnInv
  <2>5. CASE TransmitStep
    <3>1. OwnStaged(c)
      BY <1>q, <2>3, <2>5 DEF OwnInv, TransmitStep, Transmit, OwnQuestion, OwnArrived
    <3>2. /\ wire' = Queued /\ screen' = screen /\ tx' = NoReply /\ reply' = tx
      BY <2>4, <2>5
      DEF TransmitStep, Transmit, Sends, RunInv, StagedReplyIsSent, ui
    <3> HIDE DEF c
    <3> QED BY <2>4, <3>1, <3>2, SentArrives DEF OwnStaged
  <2>6. CASE ApproveStep \/ RejectStep
    <3>1. OwnQuestion(c)
      BY <1>q, <2>3, <2>6
      DEF OwnInv, ApproveStep, RejectStep, Approve, Reject, OwnStaged, OwnArrived
    <3> HIDE DEF c
    <3>2. prompt = c /\ cmd = c /\ tx = NoReply
      BY <3>1 DEF OwnQuestion
    <3>3. /\ wire' = Queued /\ screen' = "idle" /\ tx' = NoReply
          /\ reply'.to = c /\ (reply'.head = Absent \/ reply'.head = ResultHead(c))
      <4>1. CASE ApproveStep
        BY <2>4, <3>2, <4>1 DEF ApproveStep, Approve, SendResponse, Sends, Reply
      <4>2. CASE RejectStep
        BY <2>4, <3>2, <4>2 DEF RejectStep, Reject, SendResponse, Sends, Reply
      <4> QED BY <2>6, <4>1, <4>2
    <3>4. ResultHead(c) = Absent \/ OwnHead(c, ResultHead(c))
      BY <3>1 DEF OwnQuestion, ResultHead
    <3>5. OwnHead(c, Absent)
      BY DEF OwnHead
    <3>6. OwnHead(c, reply'.head)
      BY <3>3, <3>4, <3>5
    <3> QED BY <2>4, <3>1, <3>3, <3>6, SentArrives DEF OwnQuestion
  <2> QED BY <1>4, <2>5, <2>6
<1>5. CASE EmptyCommand
  <2>1. Late(TRUE) /\ tx' # NoReply
    <3>1. tx' = Reply(cmd, StatusOf(SwNoApdu), Absent, Absent)
      BY <1>5 DEF EmptyCommand, ReceiveNothing
    <3>2. tx' # NoReply
      BY <3>1, StatusFacts DEF NoReply, Reply, SwNoApdu, SwOk
    <3> QED BY <1>5, <3>2, Zenon DEF EmptyCommand
  <2> QED BY <2>1, LateFalse DEF OwnInv, Quiet
<1>6. CASE Gone \/ StartApp
  <2>1. /\ at' = at /\ proc' = proc /\ screen' # "prompt" /\ tx' = NoReply
        /\ wire' \in {wire, <<>>}
    BY <1>6
    DEF Gone, StartApp, IoReset, PowerLoss, Quit, ApproveUnsent, Launch, StartLoop, Stop, cli
  <2>2. SUFFICES ASSUME ~late', ~Quiet' PROVE at = "wait" /\ OwnArrived(c)'
    BY <1>0, <1>p, <2>1 DEF OwnInv
  <2>3. ~late /\ wire' = wire /\ wire # <<>>
    <3>1. ~late
      BY <1>6, <2>2, LateFalse, Zenon DEF Gone, StartApp
    <3> QED BY <2>1, <2>2, <3>1 DEF Quiet
  <2>4. at = "wait" /\ OwnArrived(c)
    BY <1>q, <2>3 DEF OwnInv, Quiet, OwnQuestion, OwnStaged
  <2> QED BY <2>1, <2>3, <2>4 DEF OwnArrived, OwnHead, ServiceAnswer
<1> QED BY <1>1, <1>2, <1>3, <1>4, <1>5, <1>6 DEF CliNext

\* What a process reads is the answer to its own command, for any key and any
\* coin; unless it was late.
LEMMA ReadsOwn == ASSUME OwnInv, Read, ~late
    PROVE  LET c == CommandOf(proc)
           IN  /\ Head(wire).to = c
               /\ Head(wire).head \in {Absent} \cup {ServiceAnswer(c, k) : k \in Keys}
<1>1. OwnArrived(CommandOf(proc))
  BY DEF OwnInv, Read, Quiet, OwnQuestion, OwnStaged
<1>2. PICK answer : /\ wire = <<answer>> /\ answer.to = CommandOf(proc)
                    /\ OwnHead(CommandOf(proc), answer.head)
  BY <1>1 DEF OwnArrived
<1>3. Head(wire) = answer
  BY <1>2
<1> QED BY <1>2, <1>3 DEF OwnHead

\* No process reads the answer of another, unless one was killed while it
\* waited or an empty command came.
THEOREM OwnAnswers == CliSpec => AnswerIsOwn
<1>1. CliInit => RunInv /\ OwnInv
  BY DEF CliInit, Init, RunInv, StagedReplyIsSent, OwnInv, Quiet
<1>2. OwnInv /\ [CliNext]_cliVars
        => [ (Read /\ ~late) =>
             LET c == CommandOf(proc)
             IN  /\ Head(wire).to = c
                 /\ Head(wire).head \in {Absent} \cup {ServiceAnswer(c, k) : k \in Keys} ]_cliVars
  BY ReadsOwn
<1> QED BY <1>1, <1>2, RunStep, OwnStep, PTL DEF CliSpec, AnswerIsOwn
=============================================================================
