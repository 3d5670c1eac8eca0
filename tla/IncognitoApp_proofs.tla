------------------------ MODULE IncognitoApp_proofs ------------------------
(***************************************************************************)
(* Proofs about IncognitoApp for every set of keys and coins: its types,   *)
(* the inductive invariant behind its safety properties, and that it       *)
(* implements WalletService.                                               *)
(***************************************************************************)
EXTENDS IncognitoApp, TLAPS

\* What commands are made of, and that none of them is "none".
LEMMA CommandFacts ==
    /\ Prompted \subseteq Commands
    /\ Refused \subseteq Commands
    /\ Exports \subseteq Prompted
    /\ Trust \in Prompted
    /\ Plain("version") \in Commands
    /\ \A k \in Imports : Command("import", k, NoCoin) \in Prompted
    /\ \A c \in Coins : Command("keyImage", NoKey, c) \in Prompted
    /\ NoCommand \notin Commands
BY DEF Prompted, Refused, Commands, Exports, ImportCommands, KeyImageCommands,
       Trust, Plain, Command, NoCommand

\* What the buffers can hold.
LEMMA ContentFacts ==
    /\ Zero \in Contents /\ Absent \in Contents /\ Scratch \in Contents
    /\ Bytes("version") \in Contents
    /\ \A k \in Keys \cup {NoKey} : \A what \in {"private", "view", "ota", "import"} :
            Content(what, k, NoCoin) \in Contents
    /\ \A k \in Keys \cup {NoKey}, c \in Coins : Content("keyImage", k, c) \in Contents
    /\ key \in Keys \cup {NoKey} => AddressBytes \in Contents
BY DEF Zero, Absent, Scratch, Bytes, Content, Contents, AddressBytes

\* Every exception the handlers throw becomes a status word of the list.
LEMMA StatusFacts ==
    /\ StatusOf(SwOk) = SwOk
    /\ StatusOf(SwInsNotSupported) = SwInsNotSupported
    /\ StatusOf(SwClaNotSupported) = SwClaNotSupported
    /\ StatusOf(SwNoApdu) = SwNoApdu
    /\ StatusOf(InvalidParameter) = 26626
    /\ \A e \in {SwOk, SwRejected, SwInsNotSupported, SwClaNotSupported, SwNoApdu,
                 InvalidParameter} : e # SwRejected => StatusOf(e) \in StatusWords
BY DEF StatusOf, SwOk, SwRejected, SwInsNotSupported, SwClaNotSupported, SwNoApdu,
       InvalidParameter, StatusWords

\* A reply is determined by its fields.
LEMMA ReplyFacts ==
    /\ NoReply \in Replies
    /\ \A to \in Commands \cup {NoCommand}, sw \in StatusWords, head, tail \in Contents :
            Reply(to, sw, head, tail) \in Replies
BY ContentFacts DEF Replies, Reply, NoReply, StatusWords

-----------------------------------------------------------------------------
(* Types. *)

LEMMA InitType == ASSUME Init PROVE TypeOK
BY ContentFacts, ReplyFacts DEF Init, TypeOK

\* What the actions are made of preserves the types of what it assigns.
LEMMA AskUserType == ASSUME NEW c \in Prompted, TypeOK, AskUser(c)
    PROVE  /\ screen' = "prompt" /\ prompt' \in Prompted \cup {NoCommand}
           /\ async' \in BOOLEAN /\ tx' \in Replies /\ reply' \in Replies
           /\ cmd' \in Commands \cup {NoCommand}
BY CommandFacts, ReplyFacts DEF AskUser, TypeOK

LEMMA ThrowType ==
    ASSUME NEW c \in Commands, NEW e, StatusOf(e) \in StatusWords,
           NEW bytes \in Contents, TypeOK, Throw(c, e, bytes)
    PROVE  /\ screen' = screen /\ prompt' = prompt
           /\ async' \in BOOLEAN /\ tx' \in Replies /\ reply' \in Replies
           /\ cmd' \in Commands \cup {NoCommand}
BY ContentFacts, ReplyFacts DEF Throw, TypeOK, ui

LEMMA SendResponseType ==
    ASSUME NEW to \in Commands \cup {NoCommand}, NEW sw \in StatusWords,
           NEW head \in Contents, NEW tail \in Contents, TypeOK,
           SendResponse(to, sw, head, tail)
    PROVE  /\ screen' = "idle" /\ prompt' = NoCommand
           /\ tx' \in Replies /\ reply' \in Replies
           /\ cmd' \in Commands \cup {NoCommand}
BY ReplyFacts DEF SendResponse, TypeOK

LEMMA StartLoopType == ASSUME TypeOK, StartLoop
    PROVE  /\ screen' = "idle" /\ prompt' = NoCommand
           /\ key' \in Keys /\ view' \in Keys
           /\ async' \in BOOLEAN /\ tx' \in Replies /\ reply' \in Replies
           /\ cmd' = NoCommand
BY ReplyFacts DEF StartLoop, UseKey, Keys, TypeOK

LEMMA StopType == ASSUME Stop PROVE TypeOK'
BY ContentFacts, ReplyFacts DEF Stop, TypeOK

LEMMA ReceiveType == ASSUME TypeOK, Receive PROVE TypeOK'
<1> USE CommandFacts, ContentFacts, StatusFacts
<1>1. CASE HandleVersion
  <2>1. Throw(Plain("version"), SwOk, Bytes("version")) /\ UNCHANGED ram
    BY <1>1 DEF HandleVersion
  <2>2. StatusOf(SwOk) \in StatusWords
    BY DEF StatusWords
  <2> QED BY <2>1, <2>2, ThrowType DEF TypeOK, ram
<1>2. ASSUME NEW c \in Refused, HandleRefused(c) PROVE TypeOK'
  <2> DEFINE e == IF c.op = "badCla" THEN SwClaNotSupported ELSE SwInsNotSupported
  <2>1. Throw(c, e, Absent) /\ UNCHANGED ram
    BY <1>2 DEF HandleRefused
  <2>2. StatusOf(e) \in StatusWords /\ c \in Commands
    BY DEF StatusWords
  <2> HIDE DEF e
  <2> QED BY <2>1, <2>2, ThrowType DEF TypeOK, ram
<1>3. CASE HandleGetAddress
  BY <1>3, AskUserType DEF HandleGetAddress, TypeOK, Exports
<1>4. CASE HandleGetPrivate
  BY <1>4, AskUserType DEF HandleGetPrivate, TypeOK, Exports
<1>5. CASE HandleGetView
  BY <1>5, AskUserType DEF HandleGetView, TypeOK, Exports
<1>6. CASE HandleGetOTA
  BY <1>6, AskUserType DEF HandleGetOTA, TypeOK, Exports
<1>7. ASSUME NEW k \in Imports, HandleImportPrivate(k) PROVE TypeOK'
  BY <1>7, AskUserType DEF HandleImportPrivate, TypeOK, UseKey, Keys
<1>8. CASE HandleTrustDevice
  BY <1>8, AskUserType DEF HandleTrustDevice, TypeOK, ram
<1>9. ASSUME NEW coin \in Coins, HandleGenKeyImage(coin) PROVE TypeOK'
  BY <1>9, AskUserType DEF HandleGenKeyImage, KeyImageBuffer, TypeOK
<1>10. ASSUME NEW coin \in Coins, HandleGenKeyImageTrusted(coin) PROVE TypeOK'
  <2> DEFINE c == Command("keyImage", NoKey, coin)
             buf == KeyImageBuffer(coin)
  <2>1. SwOk \in StatusWords /\ c \in Commands
    BY DEF StatusWords
  <2>2. buf.head \in Contents /\ buf.tail \in Contents
    BY DEF KeyImageBuffer, TypeOK
  <2>3. SendResponse(c, SwOk, buf.head, buf.tail)
    BY <1>10 DEF HandleGenKeyImageTrusted
  <2> HIDE DEF c, buf
  <2>4. /\ screen' = "idle" /\ prompt' = NoCommand
        /\ tx' \in Replies /\ reply' \in Replies
        /\ cmd' \in Commands \cup {NoCommand}
    BY ONLY TypeOK, <2>1, <2>2, <2>3, CommandFacts, SendResponseType
  <2>5. async' \in BOOLEAN
    BY ONLY <1>10, Zenon DEF HandleGenKeyImageTrusted
  <2> QED BY <1>10, <2>4, <2>5 DEF HandleGenKeyImageTrusted, TypeOK
<1>11. ASSUME NEW coin \in Coins, HandleGenKeyImageFails(coin) PROVE TypeOK'
  <2>1. StatusOf(InvalidParameter) \in StatusWords
    BY DEF StatusWords
  <2> QED BY <1>11, <2>1, ThrowType DEF HandleGenKeyImageFails, TypeOK
<1> QED
  BY <1>1, <1>2, <1>3, <1>4, <1>5, <1>6, <1>7, <1>8, <1>9, <1>10, <1>11
  DEF Receive

LEMMA ReceiveNothingType == ASSUME TypeOK, ReceiveNothing PROVE TypeOK'
<1>1. StatusOf(SwNoApdu) \in StatusWords
  BY StatusFacts DEF StatusWords
<1>2. tx' \in Replies
  BY <1>1, ReplyFacts, ContentFacts DEF ReceiveNothing, TypeOK
<1>3. async' \in BOOLEAN
  BY Zenon DEF ReceiveNothing
<1> QED BY <1>2, <1>3 DEF ReceiveNothing, TypeOK, ram, ui

LEMMA ApproveType == ASSUME TypeOK, Approve \/ ApproveUnsent \/ Reject PROVE TypeOK'
<1>1. /\ ResultHead(prompt) \in Contents /\ ResultTail(prompt) \in Contents
      /\ SwOk \in StatusWords /\ SwRejected \in StatusWords
  BY ContentFacts DEF TypeOK, ResultHead, ResultTail, StatusWords
<1>2. SetResult(prompt)
        => pd' \in [head : Contents, tail : Contents] /\ trust' \in BOOLEAN
  BY ContentFacts DEF TypeOK, SetResult
<1>3. CASE Approve
  BY <1>1, <1>2, <1>3, SendResponseType DEF Approve, TypeOK
<1>4. CASE ApproveUnsent
  BY <1>2, <1>4, StartLoopType DEF ApproveUnsent, TypeOK
<1>5. CASE Reject
  BY <1>1, <1>5, ContentFacts, SendResponseType DEF Reject, TypeOK, ram
<1> QED BY <1>3, <1>4, <1>5

LEMMA NextType == ASSUME TypeOK, [LooseNext]_vars PROVE TypeOK'
<1>1. CASE Launch \/ IoReset
  BY <1>1, StartLoopType DEF Launch, IoReset, TypeOK
<1>2. CASE PowerLoss \/ Quit
  BY <1>2, StopType DEF PowerLoss, Quit
<1>3. CASE Receive
  BY <1>3, ReceiveType
<1>4. CASE Transmit
  BY <1>4, ReplyFacts DEF Transmit, TypeOK, ram, ui
<1>5. CASE Approve \/ ApproveUnsent \/ Reject
  BY <1>5, ApproveType
<1>6. CASE OpenSettings \/ LeaveSettings
  BY <1>6 DEF OpenSettings, LeaveSettings, TypeOK, ram, io
<1>7. CASE ReceiveNothing
  BY <1>7, ReceiveNothingType
<1>8. CASE UNCHANGED vars
  BY <1>8 DEF vars, ram, ui, io, TypeOK
<1> QED
  BY <1>1, <1>2, <1>3, <1>4, <1>5, <1>6, <1>7, <1>8 DEF LooseNext, Next, Decide

\* Every reachable state is well typed, whatever the transport hands over.
THEOREM LooseTypeCorrect == LooseSpec => []TypeOK
BY InitType, NextType, PTL DEF LooseSpec

\* A transport that hands over no empty command is a special case.
LEMMA SpecIsLoose == Spec => LooseSpec
<1>1. [Next]_vars => [LooseNext]_vars
  BY DEF LooseNext
<1> QED BY <1>1, PTL DEF Spec, LooseSpec

\* Every state reachable without empty commands is well typed.
THEOREM TypeCorrect == Spec => []TypeOK
BY LooseTypeCorrect, SpecIsLoose, PTL

-----------------------------------------------------------------------------
(* Safety with one command in flight. *)

LEMMA InitSafety == ASSUME Init PROVE SafetyInv
BY DEF Init, SafetyInv, ScreenInv, StagedInv, KeyInv, OutstandingIsAnswerable,
       PromptHoldsAnswer, PromptAnswersPending

\* Every command that shows a prompt is a command, and not NoCommand.
LEMMA PromptedIsSome == \A c \in Prompted : c # NoCommand
BY CommandFacts

\* A handler that asks the user establishes the invariant if it leaves the
\* answer in the buffer and the two keys equal.
LEMMA AskUserSafety ==
    ASSUME NEW c \in Prompted, TypeOK, SafetyInv, CanReceive, AskUser(c),
           key' \in Keys, view' = key',
           c.op \notin NoBytesOps => pd'.head = Answer(c, key')
    PROVE  SafetyInv'
<1>1. tx' = NoReply /\ screen' = "prompt" /\ prompt' = c /\ cmd' = c
  BY DEF AskUser, CanReceive
<1>2. c # NoCommand
  BY PromptedIsSome
<1> QED
  BY <1>1, <1>2 DEF SafetyInv, ScreenInv, StagedInv, KeyInv, OutstandingIsAnswerable,
     PromptHoldsAnswer, PromptAnswersPending

\* An exception establishes it: nothing was pending, so no prompt is shown.
LEMMA ThrowSafety ==
    ASSUME SingleFlight, NEW c \in Commands, NEW e, NEW bytes, TypeOK, SafetyInv,
           CanReceive, Throw(c, e, bytes), key' = key, view' = view,
           \/ StatusOf(e) = SwOk /\ c = Plain("version") /\ bytes = Bytes("version")
           \/ StatusOf(e) # SwOk /\ bytes = Absent
    PROVE  SafetyInv'
<1>1. cmd = NoCommand /\ screen # "off" /\ screen # "prompt" /\ prompt = NoCommand
  BY CommandFacts DEF CanReceive, SafetyInv, ScreenInv, PromptAnswersPending
<1>2. c # NoCommand
  BY CommandFacts
<1>3. /\ tx'.to = c /\ tx'.sw = StatusOf(e) /\ tx'.head = bytes
      /\ cmd' = c /\ screen' = screen /\ prompt' = prompt /\ ~async'
  BY DEF Throw, Reply, ui
<1>4. tx' # NoReply
  BY <1>2, <1>3 DEF NoReply, Reply
<1> QED
  BY <1>1, <1>2, <1>3, <1>4 DEF SafetyInv, ScreenInv, StagedInv, KeyInv,
     OutstandingIsAnswerable, PromptHoldsAnswer, PromptAnswersPending

\* A loop turn of main establishes it whatever was there before.
LEMMA StartLoopSafety == ASSUME StartLoop PROVE SafetyInv'
BY DEF StartLoop, UseKey, Keys, SafetyInv, ScreenInv, StagedInv, KeyInv,
   OutstandingIsAnswerable, PromptHoldsAnswer, PromptAnswersPending

LEMMA StopSafety == ASSUME Stop PROVE SafetyInv'
BY DEF Stop, SafetyInv, ScreenInv, StagedInv, KeyInv,
   OutstandingIsAnswerable, PromptHoldsAnswer, PromptAnswersPending

\* An answer that is sent leaves nothing pending and nothing on the screen.
LEMMA SendResponseSafety ==
    ASSUME NEW to, NEW sw, NEW head, NEW tail, TypeOK, SafetyInv, screen # "off",
           tx = NoReply, SendResponse(to, sw, head, tail), key' = key, view' = view
    PROVE  SafetyInv'
BY DEF SendResponse, SafetyInv, ScreenInv, StagedInv, KeyInv,
   OutstandingIsAnswerable, PromptHoldsAnswer, PromptAnswersPending

LEMMA ReceiveSafety == ASSUME SingleFlight, TypeOK, SafetyInv, Receive PROVE SafetyInv'
<1> USE CommandFacts
<1>0. ASSUME CanReceive PROVE key \in Keys /\ view = key
  BY <1>0 DEF CanReceive, SafetyInv, KeyInv
<1>1. CASE HandleVersion
  BY <1>1, StatusFacts, ThrowSafety DEF HandleVersion, ram
<1>2. ASSUME NEW c \in Refused, HandleRefused(c) PROVE SafetyInv'
  <2> DEFINE e == IF c.op = "badCla" THEN SwClaNotSupported ELSE SwInsNotSupported
  <2>1. Throw(c, e, Absent) /\ CanReceive /\ UNCHANGED ram /\ c \in Commands
    BY <1>2 DEF HandleRefused
  <2>2. StatusOf(e) # SwOk
    BY StatusFacts DEF SwOk, SwClaNotSupported, SwInsNotSupported
  <2> HIDE DEF e
  <2> QED BY <2>1, <2>2, ThrowSafety DEF ram
<1>3. CASE HandleGetAddress
  <2>1. Plain("address") \in Prompted /\ key \in Keys /\ view = key
    BY <1>0, <1>3 DEF HandleGetAddress, Exports
  <2>2. pd'.head = Answer(Plain("address"), key)
    BY <2>1, <1>3 DEF HandleGetAddress, AddressBytes, Answer, Plain, Command, Content
  <2> QED BY <1>3, <2>1, <2>2, AskUserSafety DEF HandleGetAddress
<1>4. CASE HandleGetPrivate
  <2>1. Plain("private") \in Prompted /\ key \in Keys /\ view = key
    BY <1>0, <1>4 DEF HandleGetPrivate, Exports
  <2>2. pd'.head = Answer(Plain("private"), key)
    BY <1>4 DEF HandleGetPrivate, Answer, Plain, Command, Content
  <2> QED BY <1>4, <2>1, <2>2, AskUserSafety DEF HandleGetPrivate
<1>5. CASE HandleGetView
  <2>1. Plain("view") \in Prompted /\ key \in Keys /\ view = key
    BY <1>0, <1>5 DEF HandleGetView, Exports
  <2>2. pd'.head = Answer(Plain("view"), key)
    BY <2>1, <1>5 DEF HandleGetView, Answer, Plain, Command, Content
  <2> QED BY <1>5, <2>1, <2>2, AskUserSafety DEF HandleGetView
<1>6. CASE HandleGetOTA
  <2>1. Plain("ota") \in Prompted /\ key \in Keys /\ view = key
    BY <1>0, <1>6 DEF HandleGetOTA, Exports
  <2>2. pd'.head = Answer(Plain("ota"), key)
    BY <1>6 DEF HandleGetOTA, Answer, Plain, Command, Content
  <2> QED BY <1>6, <2>1, <2>2, AskUserSafety DEF HandleGetOTA
<1>7. ASSUME NEW k \in Imports, HandleImportPrivate(k) PROVE SafetyInv'
  <2> DEFINE c == Command("import", k, NoCoin)
  <2>1. c \in Prompted /\ c.op \in NoBytesOps
    BY DEF Command, NoBytesOps
  <2>2. CanReceive /\ AskUser(c) /\ key' \in Keys /\ view' = key'
    BY <1>7 DEF HandleImportPrivate, UseKey, Keys
  <2> HIDE DEF c
  <2> QED BY <2>1, <2>2, AskUserSafety
<1>8. CASE HandleTrustDevice
  <2>1. Trust \in Prompted /\ Trust.op \in NoBytesOps
    BY DEF Trust, Plain, Command, NoBytesOps
  <2> QED BY <1>0, <1>8, <2>1, AskUserSafety DEF HandleTrustDevice, ram
<1>9. ASSUME NEW coin \in Coins, HandleGenKeyImage(coin) PROVE SafetyInv'
  <2> DEFINE c == Command("keyImage", NoKey, coin)
  <2>1. c \in Prompted /\ key \in Keys /\ view = key
    BY <1>0, <1>9 DEF HandleGenKeyImage
  <2>2. pd'.head = Answer(c, key)
    BY <1>9 DEF HandleGenKeyImage, KeyImageBuffer, Answer, Command, Content
  <2>3. CanReceive /\ AskUser(c) /\ key' = key /\ view' = view
    BY <1>9 DEF HandleGenKeyImage
  <2> HIDE DEF c
  <2> QED BY <2>1, <2>2, <2>3, AskUserSafety
<1>10. ASSUME NEW coin \in Coins, HandleGenKeyImageTrusted(coin) PROVE SafetyInv'
  <2>1. screen # "off" /\ tx = NoReply /\ key' = key /\ view' = view
    BY <1>10 DEF HandleGenKeyImageTrusted, CanReceive
  <2>2. PICK to, sw, head, tail : SendResponse(to, sw, head, tail)
    BY <1>10 DEF HandleGenKeyImageTrusted
  <2> QED BY <2>1, <2>2, SendResponseSafety
<1>11. ASSUME NEW coin \in Coins, HandleGenKeyImageFails(coin) PROVE SafetyInv'
  <2> DEFINE c == Command("keyImage", NoKey, coin)
  <2>1. /\ CanReceive /\ Throw(c, InvalidParameter, Absent) /\ c \in Commands
        /\ key' = key /\ view' = view
    BY <1>11 DEF HandleGenKeyImageFails
  <2>2. StatusOf(InvalidParameter) # SwOk
    BY StatusFacts DEF SwOk
  <2> HIDE DEF c
  <2> QED BY <2>1, <2>2, ThrowSafety
<1> QED
  BY <1>1, <1>2, <1>3, <1>4, <1>5, <1>6, <1>7, <1>8, <1>9, <1>10, <1>11
  DEF Receive

LEMMA NextSafety ==
    ASSUME SingleFlight, TypeOK, SafetyInv, [Next]_vars PROVE SafetyInv'
<1>1. CASE Launch \/ IoReset \/ ApproveUnsent
  BY <1>1, StartLoopSafety DEF Launch, IoReset, ApproveUnsent
<1>2. CASE PowerLoss \/ Quit
  BY <1>2, StopSafety DEF PowerLoss, Quit
<1>3. CASE Receive
  BY <1>3, ReceiveSafety
<1>4. CASE Transmit
  BY <1>4 DEF Transmit, ram, ui, SafetyInv, ScreenInv, StagedInv, KeyInv,
     OutstandingIsAnswerable, PromptHoldsAnswer, PromptAnswersPending
<1>5. CASE Approve
  BY <1>5, SendResponseSafety DEF Approve
<1>6. CASE Reject
  BY <1>6, SendResponseSafety DEF Reject, ram
<1>7. CASE OpenSettings \/ LeaveSettings
  BY <1>7 DEF OpenSettings, LeaveSettings, ram, io, SafetyInv, ScreenInv, StagedInv,
     KeyInv, OutstandingIsAnswerable, PromptHoldsAnswer, PromptAnswersPending
<1>8. CASE UNCHANGED vars
  BY <1>8 DEF vars, ram, ui, io, SafetyInv, ScreenInv, StagedInv, KeyInv,
     OutstandingIsAnswerable, PromptHoldsAnswer, PromptAnswersPending
<1> QED
  BY <1>1, <1>2, <1>3, <1>4, <1>5, <1>6, <1>7, <1>8 DEF Next, Decide

\* With one command in flight the safety invariant holds in every state.
THEOREM Safety == ASSUME SingleFlight PROVE Spec => []SafetyInv
BY TypeCorrect, InitSafety, NextSafety, PTL DEF Spec

\* With one command in flight the prompt on the screen always asks about the
\* command the host waits for, and an approval sends its answer.
THEOREM PromptsMatch ==
    ASSUME SingleFlight
    PROVE  Spec => [](PromptAnswersPending /\ PromptHoldsAnswer /\ OutstandingIsAnswerable)
<1>1. SafetyInv => PromptAnswersPending /\ PromptHoldsAnswer /\ OutstandingIsAnswerable
  BY DEF SafetyInv
<1> QED BY <1>1, Safety, PTL

\* With one command in flight no handler leaves the host waiting for nothing: the
\* command it waits for is on the screen, or its answer is staged.
THEOREM OutstandingAnswerable ==
    ASSUME SingleFlight PROVE Spec => []OutstandingIsAnswerable
<1>1. SafetyInv => OutstandingIsAnswerable
  BY DEF SafetyInv
<1> QED BY <1>1, Safety, PTL

-----------------------------------------------------------------------------
(* Consent, whether or not the host gives up on commands. *)

ExportKinds == {"address", "private", "view", "ota", "keyImage"}

\* No staged answer is an export, and what the buffer holds under the prompt
\* of an export is no export of another kind.
ConsentInv ==
    /\ tx.head.what \notin ExportKinds
    /\ (screen = "prompt" /\ prompt.op \notin NoBytesOps /\ pd.head.what \in ExportKinds)
         => pd.head.what = prompt.op

LEMMA BytesWhat ==
    /\ Absent.what = "absent" /\ Zero.what = "zero" /\ Scratch.what = "scratch"
    /\ Bytes("version").what = "version" /\ Bytes("mixed").what = "mixed"
    /\ NoReply.head = Absent
    /\ \A what, k, c : Content(what, k, c).what = what
    /\ \A to, sw, head, tail : Reply(to, sw, head, tail).head = head
    /\ \A op, k, c : Command(op, k, c).op = op
    /\ \A op : Plain(op).op = op
BY DEF Absent, Zero, Scratch, Bytes, Content, NoReply, Reply, Command, Plain

LEMMA NextConsent == ASSUME ConsentInv, [LooseNext]_vars PROVE ConsentInv'
<1> USE BytesWhat DEF ConsentInv
<1>1. CASE Launch \/ IoReset \/ ApproveUnsent
  <2>1. screen' = "idle" /\ tx' = NoReply
    BY <1>1 DEF Launch, IoReset, ApproveUnsent, StartLoop
  <2> QED BY <2>1 DEF ExportKinds
<1>2. CASE PowerLoss \/ Quit
  <2>1. screen' = "off" /\ tx' = NoReply
    BY <1>2 DEF PowerLoss, Quit, Stop
  <2> QED BY <2>1 DEF ExportKinds
<1>3. CASE HandleVersion
  <2>1. tx'.head = Bytes("version")
    BY <1>3 DEF HandleVersion, Throw
  <2> QED BY <1>3, <2>1 DEF HandleVersion, Throw, ui, ram, ExportKinds
<1>4. ASSUME NEW c \in Refused, HandleRefused(c) PROVE ConsentInv'
  <2>1. tx'.head = Absent
    BY <1>4 DEF HandleRefused, Throw
  <2> QED BY <1>4, <2>1 DEF HandleRefused, Throw, ui, ram, ExportKinds
<1>5. CASE HandleGetAddress
  <2>1. pd'.head.what \in {"address", "mixed"} /\ prompt'.op = "address" /\ tx' = tx
    BY <1>5 DEF HandleGetAddress, AddressBytes, AskUser
  <2> QED BY <2>1 DEF ExportKinds
<1>6. CASE HandleGetPrivate
  <2>1. pd'.head.what = "private" /\ prompt'.op = "private" /\ tx' = tx
    BY <1>6 DEF HandleGetPrivate, AskUser
  <2> QED BY <2>1
<1>7. CASE HandleGetView
  <2>1. pd'.head.what = "view" /\ prompt'.op = "view" /\ tx' = tx
    BY <1>7 DEF HandleGetView, AskUser
  <2> QED BY <2>1
<1>8. CASE HandleGetOTA
  <2>1. pd'.head.what = "ota" /\ prompt'.op = "ota" /\ tx' = tx
    BY <1>8 DEF HandleGetOTA, AskUser
  <2> QED BY <2>1
<1>9. ASSUME NEW k \in Imports, HandleImportPrivate(k) PROVE ConsentInv'
  <2>1. prompt'.op = "import" /\ tx' = tx
    BY <1>9 DEF HandleImportPrivate, AskUser
  <2> QED BY <2>1 DEF NoBytesOps
<1>10. CASE HandleTrustDevice
  <2>1. prompt'.op = "trust" /\ tx' = tx
    BY <1>10 DEF HandleTrustDevice, AskUser, Trust
  <2> QED BY <2>1 DEF NoBytesOps
<1>11. ASSUME NEW coin \in Coins, HandleGenKeyImage(coin) PROVE ConsentInv'
  <2>1. pd'.head.what = "keyImage" /\ prompt'.op = "keyImage" /\ tx' = tx
    BY <1>11 DEF HandleGenKeyImage, KeyImageBuffer, AskUser
  <2> QED BY <2>1
<1>12. ASSUME NEW coin \in Coins, HandleGenKeyImageTrusted(coin) PROVE ConsentInv'
  <2>1. screen' = "idle" /\ tx' = tx
    BY <1>12 DEF HandleGenKeyImageTrusted, SendResponse
  <2> QED BY <2>1
<1>13. ASSUME NEW coin \in Coins, HandleGenKeyImageFails(coin) PROVE ConsentInv'
  <2>1. tx'.head = Absent /\ (pd' = pd \/ pd'.head = Scratch)
    BY <1>13 DEF HandleGenKeyImageFails, Throw
  <2>2. screen' = screen /\ prompt' = prompt
    BY <1>13 DEF HandleGenKeyImageFails, Throw, ui
  <2> QED BY <2>1, <2>2 DEF ExportKinds
<1>14. CASE ReceiveNothing
  <2>1. tx'.head = Absent
    BY <1>14 DEF ReceiveNothing
  <2> QED BY <1>14, <2>1 DEF ReceiveNothing, ui, ram, ExportKinds
<1>15. CASE Transmit
  <2>1. tx'.head = Absent
    BY <1>15 DEF Transmit
  <2> QED BY <1>15, <2>1 DEF Transmit, ui, ram, ExportKinds
<1>16. CASE Approve \/ Reject
  <2>1. screen' = "idle" /\ tx' = tx
    BY <1>16 DEF Approve, Reject, SendResponse
  <2> QED BY <2>1
<1>17. CASE OpenSettings \/ LeaveSettings
  <2>1. screen' # "prompt" /\ tx' = tx
    BY <1>17 DEF OpenSettings, LeaveSettings, io
  <2> QED BY <2>1
<1>18. CASE UNCHANGED vars
  BY <1>18 DEF vars, ram, ui, io
<1> QED
  BY <1>1, <1>2, <1>3, <1>4, <1>5, <1>6, <1>7, <1>8, <1>9, <1>10, <1>11, <1>12, <1>13,
     <1>14, <1>15, <1>16, <1>17, <1>18 DEF LooseNext, Next, Receive, Decide

\* A step that sends an export has the consent of the user for it.
LEMMA StepConsent ==
    ASSUME ConsentInv, [LooseNext]_vars, reply' # reply, reply'.head.what \in ExportKinds
    PROVE  \/ screen = "prompt" /\ prompt.op = reply'.head.what
           \/ trust /\ reply'.head.what = "keyImage"
<1> USE BytesWhat
<1>1. reply' # NoReply
  BY DEF ExportKinds
<1>2. CASE Approve
  <2>1. screen = "prompt" /\ reply'.head = ResultHead(prompt)
    BY <1>2 DEF Approve, SendResponse
  <2>2. prompt.op \notin NoBytesOps /\ reply'.head = pd.head
    BY <2>1 DEF ResultHead, ExportKinds
  <2> QED BY <2>1, <2>2 DEF ConsentInv
<1>3. CASE Reject
  BY <1>3 DEF Reject, SendResponse, ExportKinds
<1>4. CASE Transmit
  BY <1>4 DEF Transmit, ConsentInv
<1>5. ASSUME NEW coin \in Coins, HandleGenKeyImageTrusted(coin)
      PROVE  trust /\ reply'.head.what = "keyImage"
  BY <1>5 DEF HandleGenKeyImageTrusted, KeyImageBuffer, SendResponse
<1>6. CASE /\ Receive
           /\ ~ \E coin \in Coins : HandleGenKeyImageTrusted(coin)
  <2>1. reply' \in {reply, NoReply}
    BY <1>6 DEF Receive, HandleVersion, HandleRefused, HandleGetAddress, HandleGetPrivate,
       HandleGetView, HandleGetOTA, HandleImportPrivate, HandleTrustDevice,
       HandleGenKeyImage, HandleGenKeyImageFails, AskUser, Throw
  <2> QED BY <1>1, <2>1
<1>7. CASE \/ Launch \/ IoReset \/ ApproveUnsent \/ PowerLoss \/ Quit \/ ReceiveNothing
           \/ OpenSettings \/ LeaveSettings \/ UNCHANGED vars
  <2>1. reply' \in {reply, NoReply}
    BY <1>7 DEF Launch, IoReset, ApproveUnsent, StartLoop, PowerLoss, Quit, Stop,
       OpenSettings, LeaveSettings, ReceiveNothing, vars, io
  <2> QED BY <1>1, <2>1
<1> QED
  BY <1>2, <1>3, <1>4, <1>5, <1>6, <1>7 DEF LooseNext, Next, Decide

\* Every export that leaves the device was approved as that export, or is a
\* key image for a host the user trusts; also when commands are abandoned, or
\* empty.
THEOREM Consent == LooseSpec => ExportNeedsConsent
<1>1. Init => ConsentInv
  BY BytesWhat DEF Init, ConsentInv, ExportKinds
<1>2. ConsentInv /\ [LooseNext]_vars
        => [ (reply' # reply /\ reply'.head.what \in {"address", "private", "view", "ota", "keyImage"})
             => \/ screen = "prompt" /\ prompt.op = reply'.head.what
                \/ trust /\ reply'.head.what = "keyImage" ]_vars
  BY StepConsent DEF ExportKinds
<1> QED BY <1>1, <1>2, NextConsent, PTL DEF LooseSpec, ExportNeedsConsent

-----------------------------------------------------------------------------
(* The flags and the trust, whether or not the host gives up on commands. *)

LEMMA StagedStep == ASSUME StagedReplyIsSent, [LooseNext]_vars PROVE StagedReplyIsSent'
<1> USE DEF StagedReplyIsSent
<1>1. CASE Launch \/ IoReset \/ ApproveUnsent
  BY <1>1 DEF Launch, IoReset, ApproveUnsent, StartLoop
<1>2. CASE PowerLoss \/ Quit
  BY <1>2 DEF PowerLoss, Quit, Stop
<1>3. CASE /\ Receive
           /\ ~ \E coin \in Coins : HandleGenKeyImageTrusted(coin)
  <2>1. tx' = NoReply \/ ~async'
    BY <1>3 DEF Receive, HandleVersion, HandleRefused, HandleGetAddress, HandleGetPrivate,
       HandleGetView, HandleGetOTA, HandleImportPrivate, HandleTrustDevice, CanReceive,
       HandleGenKeyImage, HandleGenKeyImageFails, AskUser, Throw
  <2> QED BY <2>1
<1>4. ASSUME NEW coin \in Coins, HandleGenKeyImageTrusted(coin) PROVE ~async'
  BY <1>4 DEF HandleGenKeyImageTrusted
<1>5. CASE Transmit
  BY <1>5 DEF Transmit
<1>6. CASE Decide \/ OpenSettings \/ LeaveSettings
  BY <1>6 DEF Decide, Approve, Reject, SendResponse, OpenSettings, LeaveSettings, io
<1>7. CASE ReceiveNothing
  BY <1>7 DEF ReceiveNothing
<1>8. CASE UNCHANGED vars
  BY <1>8 DEF vars, io
<1> QED BY <1>1, <1>2, <1>3, <1>4, <1>5, <1>6, <1>7, <1>8 DEF LooseNext, Next

\* No staged answer is ever swallowed by the flag of another command.
THEOREM StagedSent == LooseSpec => []StagedReplyIsSent
<1>1. Init => StagedReplyIsSent
  BY DEF Init, StagedReplyIsSent
<1> QED BY <1>1, StagedStep, PTL DEF LooseSpec

LEMMA StepTrust == ASSUME [LooseNext]_vars, trust', ~trust
    PROVE  screen = "prompt" /\ prompt = Trust
<1>1. CASE Launch \/ IoReset
  BY <1>1 DEF Launch, IoReset
<1>2. CASE PowerLoss \/ Quit
  BY <1>2 DEF PowerLoss, Quit, Stop
<1>3. CASE Receive
  BY <1>3 DEF Receive, HandleVersion, HandleRefused, HandleGetAddress, HandleGetPrivate,
     HandleGetView, HandleGetOTA, HandleImportPrivate, HandleTrustDevice, HandleGenKeyImage,
     HandleGenKeyImageFails, HandleGenKeyImageTrusted, ram
<1>4. CASE Transmit
  BY <1>4 DEF Transmit, ram
<1>5. CASE Approve \/ ApproveUnsent
  BY <1>5, Zenon DEF Approve, ApproveUnsent, SetResult
<1>6. CASE Reject \/ OpenSettings \/ LeaveSettings
  BY <1>6 DEF Reject, OpenSettings, LeaveSettings, ram
<1>7. CASE ReceiveNothing
  BY <1>7 DEF ReceiveNothing, ram
<1>8. CASE UNCHANGED vars
  BY <1>8 DEF vars, ram
<1> QED BY <1>1, <1>2, <1>3, <1>4, <1>5, <1>6, <1>7, <1>8 DEF LooseNext, Next, Decide

\* Trust is given by the approval of the trust prompt and by nothing else, also
\* when commands are abandoned.
THEOREM TrustByUser == LooseSpec => TrustIsGiven
<1>1. [LooseNext]_vars => [(trust' /\ ~trust) => (screen = "prompt" /\ prompt = Trust)]_vars
  BY StepTrust
<1> QED BY <1>1, PTL DEF LooseSpec, TrustIsGiven

-----------------------------------------------------------------------------
(* Refinement. *)

\* While nothing was answered the outcome of the service is empty.
LEMMA OutcomeOfNoReply ==
    reply = NoReply => Outcome = [to |-> NoCommand, granted |-> FALSE, answer |-> Absent]
BY DEF Outcome

\* The initial states of the application are initial states of the service.
THEOREM InitRefines == ASSUME Init PROVE Service!Init
BY OutcomeOfNoReply DEF Init, Service!Init, Service!Nothing

\* Receiving a command that is not answered at once is a request.
LEMMA RequestRefines ==
    ASSUME NEW c \in Commands, TypeOK, SafetyInv, SingleFlight, CanReceive,
           cmd' = c, reply' = NoReply, trust' = trust,
           key' = IF c.key = NoKey THEN key ELSE c.key
    PROVE  Service!Next
<1>1. Service!Running /\ cmd = NoCommand
  BY ConstantsAssumption DEF CanReceive, SafetyInv, KeyInv, Keys, Service!Running
<1>2. Outcome' = Service!Nothing
  BY OutcomeOfNoReply DEF Outcome, Service!Nothing
<1>3. Service!Request(c)
  BY <1>1, <1>2 DEF Service!Request, ImportOf
<1> QED BY <1>3 DEF Service!Next

LEMMA PlainKey ==
    /\ \A op : Plain(op).key = NoKey
    /\ \A op, k, c : Command(op, k, c).key = k
    /\ \A op, k, c : Command(op, k, c).coin = c
    /\ \A c \in Refused : c.key = NoKey
BY DEF Plain, Command, Refused

LEMMA ReceiveRefines ==
    ASSUME SingleFlight, TypeOK, SafetyInv, Receive PROVE Service!Next
<1> USE CommandFacts, PlainKey
<1>1. CASE HandleVersion
  BY <1>1, RequestRefines DEF HandleVersion, Throw, ram
<1>2. ASSUME NEW c \in Refused, HandleRefused(c) PROVE Service!Next
  BY <1>2, RequestRefines DEF HandleRefused, Throw, ram
<1>3. CASE HandleGetAddress
  BY <1>3, RequestRefines DEF HandleGetAddress, AskUser, Exports
<1>4. CASE HandleGetPrivate
  BY <1>4, RequestRefines DEF HandleGetPrivate, AskUser, Exports
<1>5. CASE HandleGetView
  BY <1>5, RequestRefines DEF HandleGetView, AskUser, Exports
<1>6. CASE HandleGetOTA
  BY <1>6, RequestRefines DEF HandleGetOTA, AskUser, Exports
<1>7. ASSUME NEW k \in Imports, HandleImportPrivate(k) PROVE Service!Next
  <2>1. k # NoKey
    BY ConstantsAssumption
  <2> QED BY <1>7, <2>1, RequestRefines DEF HandleImportPrivate, AskUser, UseKey
<1>8. CASE HandleTrustDevice
  BY <1>8, RequestRefines DEF HandleTrustDevice, AskUser, Trust, ram
<1>9. ASSUME NEW coin \in Coins, HandleGenKeyImage(coin) PROVE Service!Next
  BY <1>9, RequestRefines DEF HandleGenKeyImage, AskUser
<1>10. ASSUME NEW coin \in Coins, HandleGenKeyImageTrusted(coin) PROVE Service!Next
  <2> DEFINE c == Command("keyImage", NoKey, coin)
  <2>1. c \in KeyImageCommands /\ c # NoCommand
    BY DEF KeyImageCommands
  <2>2. Service!Running /\ cmd = NoCommand /\ cmd' = NoCommand
    BY <1>10, ConstantsAssumption
    DEF HandleGenKeyImageTrusted, SendResponse, CanReceive, SafetyInv, KeyInv, Keys,
        Service!Running
  <2>3. ServiceAnswer(c, key) = KeyImageBuffer(coin).head
    BY DEF ServiceAnswer, Answer, Command, KeyImageBuffer, NoBytesOps
  <2>4. Outcome' = [to |-> c, granted |-> TRUE, answer |-> KeyImageBuffer(coin).head]
    <3>1. reply' = Reply(c, SwOk, KeyImageBuffer(coin).head, KeyImageBuffer(coin).tail)
      BY <1>10 DEF HandleGenKeyImageTrusted, SendResponse
    <3>2. reply' # NoReply
      BY <2>1, <3>1 DEF NoReply, Reply
    <3> HIDE DEF c
    <3> QED BY <3>1, <3>2 DEF Outcome, Reply
  <2>5. trust /\ key' = key /\ trust' = trust
    BY <1>10 DEF HandleGenKeyImageTrusted
  <2> HIDE DEF c
  <2>6. Service!GrantUnattended(c)
    BY <2>2, <2>3, <2>4, <2>5 DEF Service!GrantUnattended, Service!Granted
  <2> QED BY <2>1, <2>6 DEF Service!Next
<1>11. ASSUME NEW coin \in Coins, HandleGenKeyImageFails(coin) PROVE Service!Next
  BY <1>11, RequestRefines DEF HandleGenKeyImageFails, Throw
<1> QED
  BY <1>1, <1>2, <1>3, <1>4, <1>5, <1>6, <1>7, <1>8, <1>9, <1>10, <1>11
  DEF Receive

\* Sending a staged answer grants the version and denies everything else.
LEMMA TransmitRefines == ASSUME TypeOK, SafetyInv, Transmit PROVE Service!Next
<1>1. /\ tx # NoReply /\ ~async /\ cmd # NoCommand /\ tx.to = cmd
      /\ reply' = tx /\ cmd' = NoCommand /\ key' = key /\ trust' = trust
  BY DEF Transmit, SafetyInv, StagedInv, ram
<1>2. Outcome' = [to |-> cmd, granted |-> tx.sw = SwOk, answer |-> tx.head]
  BY <1>1 DEF Outcome
<1>3. CASE tx.sw = SwOk /\ cmd = Plain("version") /\ tx.head = Bytes("version")
  <2>1. cmd \notin Refused /\ ServiceAnswer(cmd, key) = Bytes("version")
    BY <1>3 DEF Refused, Plain, Command, ServiceAnswer, NoBytesOps
  <2>2. trust' = (trust \/ cmd = Trust)
    BY <1>1, <1>3 DEF Trust, Plain, Command, TypeOK
  <2>3. Service!Grant
    BY <1>1, <1>2, <1>3, <2>1, <2>2 DEF Service!Grant, Service!Granted
  <2> QED BY <2>3 DEF Service!Next
<1>4. CASE tx.sw # SwOk /\ tx.head = Absent
  <2>1. Service!Deny
    BY <1>1, <1>2, <1>4 DEF Service!Deny, Service!Denied
  <2> QED BY <2>1 DEF Service!Next
<1> QED BY <1>1, <1>3, <1>4 DEF SafetyInv, StagedInv

\* A decision of the user grants or denies the outstanding command.
LEMMA DecideRefines == ASSUME TypeOK, SafetyInv, Decide PROVE Service!Next
<1>1. prompt = cmd /\ cmd # NoCommand /\ cmd \in Prompted
  BY DEF Decide, Approve, Reject, SafetyInv, PromptAnswersPending, ScreenInv, TypeOK
<1>2. CASE Approve
  <2>1. reply' = Reply(cmd, SwOk, ResultHead(cmd), ResultTail(cmd)) /\ cmd' = NoCommand
    BY <1>1, <1>2 DEF Approve, SendResponse
  <2>2. Outcome' = [to |-> cmd, granted |-> TRUE, answer |-> ResultHead(cmd)]
    <3>1. reply' # NoReply
      BY <1>1, <2>1 DEF NoReply, Reply
    <3> QED BY <2>1, <3>1 DEF Outcome, Reply
  <2>3. ResultHead(cmd) = ServiceAnswer(cmd, key)
    <3>1. cmd.op # "version"
      BY <1>1 DEF Prompted, Exports, ImportCommands, KeyImageCommands, Trust, Plain, Command
    <3>2. cmd.op \notin NoBytesOps => pd.head = Answer(cmd, key)
      BY <1>1, <1>2 DEF Approve, SafetyInv, PromptHoldsAnswer
    <3> QED BY <3>1, <3>2 DEF ResultHead, ServiceAnswer
  <2>4. cmd \notin Refused
    BY <1>1 DEF Prompted, Exports, ImportCommands, KeyImageCommands, Trust, Refused,
       Plain, Command
  <2>5. trust' = (trust \/ cmd = Trust) /\ key' = key
    BY <1>1, <1>2 DEF Approve, SetResult
  <2>6. Service!Grant
    BY <1>1, <2>1, <2>2, <2>3, <2>4, <2>5 DEF Service!Grant, Service!Granted
  <2> QED BY <2>6 DEF Service!Next
<1>3. CASE Reject
  <2>1. reply' = Reply(cmd, SwRejected, Absent, Absent) /\ cmd' = NoCommand
    BY <1>3 DEF Reject, SendResponse
  <2>2. Outcome' = [to |-> cmd, granted |-> FALSE, answer |-> Absent]
    <3>1. reply' # NoReply
      BY <1>1, <2>1 DEF NoReply, Reply
    <3>2. (SwRejected = SwOk) = FALSE
      BY DEF SwOk, SwRejected
    <3>3. Outcome' = [to |-> cmd, granted |-> SwRejected = SwOk, answer |-> Absent]
      BY <2>1, <3>1 DEF Outcome, Reply
    <3> QED BY <3>2, <3>3
  <2>3. Service!Deny
    BY <1>1, <1>3, <2>1, <2>2 DEF Reject, ram, Service!Deny, Service!Denied
  <2> QED BY <2>3 DEF Service!Next
<1> QED BY <1>2, <1>3 DEF Decide

\* Every step of the application is a step of the service, or invisible.
LEMMA StepRefines ==
    ASSUME SingleFlight, TypeOK, SafetyInv, [Next]_vars
    PROVE  [Service!Next]_Service!vars
<1> USE ConstantsAssumption
<1>1. screen # "off" => Service!Running
  BY DEF SafetyInv, KeyInv, Keys, Service!Running
<1>2. CASE Launch
  <2>1. /\ key = NoKey /\ cmd = NoCommand /\ reply = NoReply
        /\ key' = Derived /\ cmd' = NoCommand /\ reply' = NoReply /\ trust' = trust
    BY <1>2 DEF Launch, StartLoop, UseKey, SafetyInv, KeyInv
  <2>2. Outcome' = Outcome
    BY <2>1 DEF Outcome
  <2>3. Service!Start
    BY <2>1, <2>2 DEF Service!Start, Service!Running
  <2> QED BY <2>3 DEF Service!Next
<1>3. CASE IoReset \/ ApproveUnsent
  <2>1. screen # "off" /\ key' = Derived /\ cmd' = NoCommand /\ reply' = NoReply
    BY <1>3 DEF IoReset, ApproveUnsent, StartLoop, UseKey
  <2>2. trust' \in {trust, trust \/ cmd = Trust}
    <3>1. CASE IoReset
      BY <3>1 DEF IoReset
    <3>2. CASE ApproveUnsent
      BY <3>2 DEF ApproveUnsent, SetResult, SafetyInv, PromptAnswersPending
    <3> QED BY <1>3, <3>1, <3>2
  <2>3. Outcome' = Service!Nothing
    BY <2>1 DEF Outcome, Service!Nothing
  <2>4. Service!Reset
    BY <1>1, <2>1, <2>2, <2>3 DEF Service!Reset
  <2> QED BY <2>4 DEF Service!Next
<1>4. CASE PowerLoss \/ Quit
  <2>1. /\ screen # "off" /\ key' = NoKey /\ cmd' = NoCommand
        /\ reply' = NoReply /\ trust' = FALSE
    BY <1>4 DEF PowerLoss, Quit, Stop
  <2>2. Outcome' = Service!Nothing
    BY <2>1 DEF Outcome, Service!Nothing
  <2>3. Service!Halt
    BY <1>1, <2>1, <2>2 DEF Service!Halt
  <2> QED BY <2>3 DEF Service!Next
<1>5. CASE Receive
  BY <1>5, ReceiveRefines
<1>6. CASE Transmit
  BY <1>6, TransmitRefines
<1>7. CASE Decide
  BY <1>7, DecideRefines
<1>8. CASE OpenSettings \/ LeaveSettings \/ UNCHANGED vars
  <2>1. key' = key /\ trust' = trust /\ cmd' = cmd /\ reply' = reply
    BY <1>8 DEF OpenSettings, LeaveSettings, ram, io, vars
  <2>2. UNCHANGED Service!vars
    BY <2>1 DEF Outcome, Service!vars
  <2> QED BY <2>2
<1> QED
  BY <1>2, <1>3, <1>4, <1>5, <1>6, <1>7, <1>8 DEF Next

\* With one command in flight the application implements WalletService.
THEOREM Refinement == ASSUME SingleFlight PROVE Spec => ImplementsService
<1>1. Init => Service!Init
  BY InitRefines
<1>2. TypeOK /\ SafetyInv /\ [Next]_vars => [Service!Next]_Service!vars
  BY StepRefines
<1> QED
  BY <1>1, <1>2, TypeCorrect, Safety, PTL DEF Spec, ImplementsService, Service!Spec
=============================================================================
