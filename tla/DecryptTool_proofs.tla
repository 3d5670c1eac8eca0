------------------------ MODULE DecryptTool_proofs ------------------------
(***************************************************************************)
(* Proofs about DecryptTool, for any keys, any lists of coins and any      *)
(* number of commands of another program. The device of the composition is *)
(* the application of IncognitoApp, whose invariants carry over because    *)
(* every step of the composition is one of its steps or leaves it alone.   *)
(***************************************************************************)
EXTENDS DecryptTool, IncognitoApp_proofs

Cause == events \cap {"absent", "busy", "reset", "rejected", "refused"} # {}
Undisturbed == events \cap {"reset", "import"} = {}

\* The command the inner loop sends for the next coin.
CoinCommand == Command("keyImage", NoKey, Head(coins))

\* The loops have a key, and a coin, where they use one.
PlaceInv ==
    /\ at \in {"import?", "coin", "coin?"} => current \in DOMAIN CoinsOf
    /\ at = "coin?" => coins # <<>>
    /\ at = "done" => todo = {}

\* A coin of a key that was sent has its verdict or is still to come.
Judged(k, c) == \E v \in verdicts : v.key = k /\ v.coin = c
JudgedInv ==
    at # "panic" =>
        \A k \in DOMAIN CoinsOf \ todo : \A i \in DOMAIN CoinsOf[k] :
            \/ Judged(k, CoinsOf[k][i])
            \/ /\ at \in {"import?", "coin", "coin?"} /\ k = current
               /\ \E j \in DOMAIN coins : coins[j] = CoinsOf[k][i]

\* The command of the program is on the screen, or it has an answer.
Asked ==
    /\ cmd # NoCommand /\ prompt = cmd /\ screen = "prompt" /\ tx = NoReply
    /\ at = "coin?" => cmd.op = "keyImage"
Answered == cmd = NoCommand /\ reply # NoReply /\ (at = "coin?" => reply.head # Absent)
WaitInv ==
    /\ at \in {"trust?", "import?", "coin?"} => Cause \/ Asked \/ Answered
    /\ at = "panic" => Cause

\* The key the program sent is in use, and the image of its coin is made with it.
UseInv ==
    at \in {"import?", "coin", "coin?"} /\ Undisturbed =>
        /\ key = current /\ screen # "off"
        /\ at = "coin?" =>
              \/ cmd = CoinCommand
              \/ cmd = NoCommand /\ reply.head \in {Absent, Answer(CoinCommand, current)}

ToolInv == ToolTypeOK /\ SafetyInv /\ PlaceInv /\ JudgedInv /\ WaitInv /\ UseInv

LEMMA InitTool == ASSUME ToolInit PROVE ToolInv
<1>1. TypeOK /\ SafetyInv
  BY InitType, InitSafety DEF ToolInit
<1>2. ToolTypeOK
  <2>0. held \in BOOLEAN
    BY Zenon DEF ToolInit
  <2>1. others \in 0..MaxOther
    BY ToolConstantsAssumption DEF ToolInit
  <2>2. coins \in Seq(Coins) /\ verdicts \subseteq Verdicts /\ at \in Places
    BY DEF ToolInit, Places
  <2> QED BY <1>1, <2>0, <2>1, <2>2, Zenon DEF ToolInit, ToolTypeOK
<1>3. PlaceInv /\ JudgedInv /\ WaitInv /\ UseInv
  BY DEF ToolInit, PlaceInv, JudgedInv, WaitInv, UseInv
<1> QED BY <1>1, <1>2, <1>3 DEF ToolInv

\* The next coin of a list is a coin.
LEMMA NextCoin ==
    ASSUME ToolTypeOK, coins # <<>>
    PROVE  /\ Head(coins) \in Coins /\ Tail(coins) \in Seq(Coins)
           /\ \A j \in DOMAIN coins :
                 coins[j] = Head(coins) \/ \E i \in DOMAIN Tail(coins) : Tail(coins)[i] = coins[j]
<1>1. coins \in Seq(Coins)
  BY DEF ToolTypeOK
<1>2. Head(coins) \in Coins /\ Tail(coins) \in Seq(Coins) /\ Head(coins) = coins[1]
      /\ Len(Tail(coins)) = Len(coins) - 1 /\ \A i \in 1..Len(Tail(coins)) : Tail(coins)[i] = coins[i + 1]
  BY <1>1
<1>3. ASSUME NEW j \in DOMAIN coins, j # 1
      PROVE  j - 1 \in DOMAIN Tail(coins) /\ Tail(coins)[j - 1] = coins[j]
  BY <1>1, <1>2, <1>3
<1> QED BY <1>2, <1>3

\* Every step of the composition is a step of the application, or none.
LEMMA ToolStepIsNext == ASSUME ToolTypeOK, [ToolNext]_toolVars PROVE [Next]_vars
<1>1. CASE OpenFails \/ Finish \/ NextKey \/ Lost \/ GotStatus \/ GotImage \/ GotNoImage
  BY <1>1 DEF OpenFails, Finish, NextKey, Lost, GotStatus, GotImage, GotNoImage
<1>2. CASE SendTrust
  BY <1>2 DEF SendTrust, Next, Receive
<1>3. CASE SendImport
  BY <1>3, ToolConstantsAssumption DEF SendImport, Next, Receive, ToolTypeOK
<1>4. CASE SendCoin
  BY <1>4, NextCoin DEF SendCoin, Next, Receive
<1>5. CASE OtherProgram \/ OtherCloses
  BY <1>5 DEF OtherProgram, OtherCloses, Next, Receive
<1>6. CASE DeviceStep
  BY <1>6 DEF DeviceStep, Disturbance, Next, Decide
<1>7. CASE UNCHANGED toolVars
  BY <1>7 DEF toolVars
<1> QED BY <1>1, <1>2, <1>3, <1>4, <1>5, <1>6, <1>7 DEF ToolNext, ToolStep

-----------------------------------------------------------------------------
(* The device. *)

\* What a step of the device or its user does to what the program relies on.
LEMMA DeviceEffect ==
    ASSUME TypeOK, SafetyInv, DeviceStep
    PROVE  /\ UNCHANGED tool /\ UNCHANGED other /\ events \subseteq events'
           /\ events' \subseteq events \cup {"reset", "rejected"}
           /\ \/ "reset" \in events'
              \/ screen = "off"
              \/ /\ screen = "prompt" /\ cmd # NoCommand /\ cmd' = NoCommand
                 /\ reply' = Reply(cmd, SwRejected, Absent, Absent)
                 /\ key' = key /\ screen' = "idle"
                 /\ cmd.op = "keyImage" => "rejected" \in events'
              \/ /\ screen = "prompt" /\ cmd # NoCommand /\ cmd' = NoCommand
                 /\ \E tail : reply' = Reply(cmd, SwOk, ResultHead(cmd), tail)
                 /\ cmd.op \notin NoBytesOps => ResultHead(cmd) = Answer(cmd, key)
                 /\ key' = key /\ screen' = "idle"
              \/ /\ tx # NoReply /\ cmd # NoCommand /\ cmd' = NoCommand /\ reply' = tx
                 /\ tx.head = Absent \/ cmd = Plain("version")
                 /\ key' = key /\ screen' = screen
<1>1. UNCHANGED tool /\ UNCHANGED other
  BY DEF DeviceStep
<1>2. screen = "prompt" => prompt = cmd /\ cmd # NoCommand
  BY DEF SafetyInv, PromptAnswersPending, ScreenInv
<1>3. CASE Disturbance /\ Happened("reset")
  BY <1>1, <1>3 DEF Happened
<1>4. CASE Reject /\ IF prompt.op = "keyImage" THEN Happened("rejected") ELSE UNCHANGED events
  BY <1>1, <1>2, <1>4 DEF Reject, SendResponse, Happened, ram
<1>5. CASE Launch /\ UNCHANGED events
  BY <1>1, <1>5 DEF Launch
<1>6. CASE Transmit /\ UNCHANGED events
  BY <1>1, <1>6 DEF Transmit, ram, ui, SafetyInv, StagedInv
<1>7. CASE Approve /\ UNCHANGED events
  <2>1. /\ screen = "prompt" /\ cmd' = NoCommand /\ key' = key /\ screen' = "idle"
        /\ reply' = Reply(cmd, SwOk, ResultHead(prompt), ResultTail(prompt))
    BY <1>7 DEF Approve, SendResponse
  <2>2. cmd.op \notin NoBytesOps => ResultHead(cmd) = Answer(cmd, key)
    BY <1>2, <2>1 DEF SafetyInv, PromptHoldsAnswer, ResultHead
  <2> QED BY <1>1, <1>2, <1>7, <2>1, <2>2
<1> QED BY <1>3, <1>4, <1>5, <1>6, <1>7 DEF DeviceStep

LEMMA ReplyFields ==
    \A to, sw, head, tail : /\ Reply(to, sw, head, tail).to = to
                            /\ Reply(to, sw, head, tail).sw = sw
                            /\ Reply(to, sw, head, tail).head = head
BY DEF Reply

\* An answer the user gives to a prompt is not "no reply".
LEMMA AnswersAreReplies ==
    \A c, sw, head, tail : c # NoCommand => Reply(c, sw, head, tail) # NoReply
BY ReplyFields DEF NoReply

-----------------------------------------------------------------------------
(* Types, and the two loops. *)

\* The program prints one verdict, of the coin it sent.
LEMMA NewVerdict ==
    ASSUME ToolTypeOK, PlaceInv, GotImage
    PROVE  \E v \in Verdicts : /\ verdicts' = verdicts \cup {v}
                              /\ v.key = current /\ v.coin = Head(coins)
                              /\ v.ok = (reply.head = HostImage)
<1>1. current \in DOMAIN CoinsOf /\ Head(coins) \in Coins
  BY NextCoin DEF PlaceInv, GotImage
<1>2. PICK b \in BOOLEAN : b <=> reply.head = HostImage
  OBVIOUS
<1>3. \A v : v = [key |-> current, coin |-> Head(coins), ok |-> b] =>
             /\ v \in Verdicts /\ v.key = current /\ v.coin = Head(coins) /\ v.ok = b
  BY <1>1 DEF Verdicts
<1>4. verdicts' = verdicts \cup {[key |-> current, coin |-> Head(coins), ok |-> b]}
  BY <1>2, Zenon DEF GotImage, Judge
<1> QED BY <1>2, <1>3, <1>4

LEMMA ToolTypeStep ==
    ASSUME ToolTypeOK, PlaceInv, [ToolNext]_toolVars PROVE ToolTypeOK' /\ PlaceInv'
<1>0. TypeOK'
  BY ToolStepIsNext, NextType DEF ToolTypeOK, LooseNext
<1> USE DEF ToolTypeOK, PlaceInv, Places, Go, Happened, other
<1>1. CASE OpenFails
  BY <1>0, <1>1 DEF OpenFails
<1>2. CASE SendTrust
  BY <1>0, <1>2 DEF SendTrust
<1>3. CASE SendImport
  BY <1>0, <1>3, ToolConstantsAssumption DEF SendImport
<1>4. CASE SendCoin
  BY <1>0, <1>4 DEF SendCoin
<1>5. CASE Finish \/ NextKey
  BY <1>0, <1>5 DEF Finish, NextKey
<1>6. CASE Lost \/ GotStatus \/ GotNoImage
  BY <1>0, <1>6 DEF Lost, GotStatus, GotNoImage, Waiting
<1>7. CASE GotImage
  <2>1. /\ at = "coin?" /\ at' = "coin" /\ coins' = Tail(coins)
        /\ UNCHANGED <<todo, current, other, events>>
    BY <1>7 DEF GotImage
  <2>2. current \in DOMAIN CoinsOf /\ Head(coins) \in Coins /\ Tail(coins) \in Seq(Coins)
    BY <2>1, NextCoin
  <2>3. verdicts' \subseteq Verdicts
    BY <1>7, NewVerdict, Zenon
  <2> QED BY <1>0, <2>1, <2>2, <2>3
<1>8. CASE OtherProgram
  <2>1. /\ others' \in 0..MaxOther
    BY <1>8, ToolConstantsAssumption DEF OtherProgram
  <2> QED BY <1>0, <1>8, <2>1 DEF OtherProgram, tool
<1>9. CASE OtherCloses
  BY <1>0, <1>9 DEF OtherCloses, tool
<1>10. CASE DeviceStep
  BY <1>0, <1>10 DEF DeviceStep, tool
<1>11. CASE UNCHANGED toolVars
  BY <1>0, <1>11 DEF toolVars, tool
<1> QED BY <1>1, <1>2, <1>3, <1>4, <1>5, <1>6, <1>7, <1>8, <1>9, <1>10, <1>11
        DEF ToolNext, ToolStep

\* The application of the composition keeps its invariant.
LEMMA ToolSafetyStep ==
    ASSUME ToolTypeOK, SafetyInv, [ToolNext]_toolVars PROVE SafetyInv'
BY ToolStepIsNext, NextSafety, ToolConstantsAssumption DEF ToolTypeOK

LEMMA JudgedStep ==
    ASSUME ToolTypeOK, PlaceInv, JudgedInv, [ToolNext]_toolVars PROVE JudgedInv'
<1>1. CASE OpenFails \/ Lost \/ GotNoImage
  BY <1>1 DEF OpenFails, Lost, GotNoImage, Go, JudgedInv
<1>2. CASE SendTrust
  BY <1>2 DEF SendTrust, Go, JudgedInv, Judged
<1>3. CASE SendImport
  <2>1. PICK k \in todo : todo' = todo \ {k} /\ current' = k /\ coins' = CoinsOf[k]
    BY <1>3 DEF SendImport
  <2>2. at = "key" /\ at' = "import?" /\ verdicts' = verdicts
    BY <1>3 DEF SendImport, Go
  <2> SUFFICES ASSUME NEW q \in DOMAIN CoinsOf \ todo', NEW i \in DOMAIN CoinsOf[q]
               PROVE  \/ Judged(q, CoinsOf[q][i])'
                      \/ q = k /\ \E j \in DOMAIN CoinsOf[k] : CoinsOf[k][j] = CoinsOf[q][i]
    BY <2>1, <2>2 DEF JudgedInv
  <2>3. CASE q = k
    BY <2>3
  <2>4. CASE q # k
    <3>1. Judged(q, CoinsOf[q][i])
      BY <2>1, <2>2, <2>4 DEF JudgedInv
    <3> QED BY <2>2, <3>1 DEF Judged
  <2> QED BY <2>3, <2>4
<1>4. CASE SendCoin
  BY <1>4 DEF SendCoin, Go, JudgedInv, Judged
<1>5. CASE Finish
  BY <1>5 DEF Finish, Go, JudgedInv, Judged
<1>6. CASE NextKey
  <2>1. at = "coin" /\ coins = <<>> /\ UNCHANGED <<todo, verdicts>>
    BY <1>6 DEF NextKey
  <2>2. DOMAIN coins = {}
    BY <2>1
  <2>3. \A k \in DOMAIN CoinsOf \ todo : \A i \in DOMAIN CoinsOf[k] : Judged(k, CoinsOf[k][i])
    BY <2>1, <2>2 DEF JudgedInv
  <2> QED BY <2>1, <2>3 DEF JudgedInv, Judged
<1>7. CASE GotStatus
  <2>1. at # "coin?" /\ at' \in {"key", "coin"} /\ (at = "trust?" <=> at' = "key")
        /\ at \in {"trust?", "import?", "coin?"}
        /\ UNCHANGED <<todo, current, coins, verdicts>>
    BY <1>7 DEF GotStatus, Go, Waiting
  <2> QED BY <2>1 DEF JudgedInv, Judged
<1>8. CASE GotImage
  <2>1. /\ at = "coin?" /\ at' = "coin" /\ coins' = Tail(coins) /\ coins # <<>>
        /\ UNCHANGED <<todo, current>>
    BY <1>8 DEF GotImage, Go, PlaceInv
  <2>0. PICK w \in Verdicts : /\ verdicts' = verdicts \cup {w}
                              /\ w.key = current /\ w.coin = Head(coins)
    BY <1>8, NewVerdict, Zenon
  <2>2. \A k, c : k = current /\ c = Head(coins) => Judged(k, c)'
    BY <2>0 DEF Judged
  <2>3. \A k, c : Judged(k, c) => Judged(k, c)'
    BY <2>0 DEF Judged
  <2> SUFFICES ASSUME NEW k \in DOMAIN CoinsOf \ todo, NEW i \in DOMAIN CoinsOf[k]
               PROVE  \/ Judged(k, CoinsOf[k][i])'
                      \/ /\ k = current
                         /\ \E j \in DOMAIN Tail(coins) : Tail(coins)[j] = CoinsOf[k][i]
    BY <2>1 DEF JudgedInv
  <2>4. CASE Judged(k, CoinsOf[k][i])
    BY <2>3, <2>4
  <2>5. ASSUME k = current, NEW j \in DOMAIN coins, coins[j] = CoinsOf[k][i]
        PROVE  \/ Judged(k, CoinsOf[k][i])'
               \/ \E m \in DOMAIN Tail(coins) : Tail(coins)[m] = CoinsOf[k][i]
    <3>1. CASE coins[j] = Head(coins)
      BY <2>2, <2>5, <3>1
    <3>2. CASE coins[j] # Head(coins)
      BY <2>1, <2>5, <3>2, NextCoin
    <3> QED BY <3>1, <3>2
  <2> QED BY <2>1, <2>4, <2>5 DEF JudgedInv
<1>9. CASE OtherProgram \/ OtherCloses \/ DeviceStep
  <2>1. UNCHANGED tool
    BY <1>9 DEF OtherProgram, OtherCloses, DeviceStep
  <2> QED BY <2>1 DEF JudgedInv, Judged, tool
<1>10. CASE UNCHANGED toolVars
  BY <1>10 DEF toolVars, tool, JudgedInv, Judged
<1> QED BY <1>1, <1>2, <1>3, <1>4, <1>5, <1>6, <1>7, <1>8, <1>9, <1>10 DEF ToolNext, ToolStep

-----------------------------------------------------------------------------
(* Why the program panics. *)

\* A handler that asks the user puts the command of the program on the screen.
LEMMA AskIsAsked ==
    ASSUME NEW c \in Prompted, CanReceive, AskUser(c),
           at' = "coin?" => c.op = "keyImage"
    PROVE  Asked'
<1>1. cmd' = c /\ prompt' = c /\ screen' = "prompt" /\ tx' = NoReply /\ c # NoCommand
  BY PromptedIsSome DEF AskUser, CanReceive
<1> QED BY <1>1 DEF Asked

\* The commands of the program are prompted for.
LEMMA ToolCommands ==
    /\ Trust \in Prompted
    /\ \A k \in Imports : Command("import", k, NoCoin) \in Prompted
    /\ \A c \in Coins : /\ Command("keyImage", NoKey, c) \in Prompted
                        /\ Command("keyImage", NoKey, c) # NoCommand
                        /\ Command("keyImage", NoKey, c).op = "keyImage"
                        /\ \A k : Answer(Command("keyImage", NoKey, c), k) = Content("keyImage", k, c)
BY DEF Prompted, ImportCommands, KeyImageCommands, Command, NoCommand, Plain, Answer

\* What the device said while the program waits, or why it says nothing.
LEMMA WaitDevice ==
    ASSUME TypeOK, SafetyInv, WaitInv, DeviceStep PROVE WaitInv'
<1>1. /\ at' = at /\ events \subseteq events'
  BY DeviceEffect DEF tool
<1>2. Cause => Cause'
  BY <1>1 DEF Cause
<1>3. CASE at = "panic"
  BY <1>1, <1>2, <1>3 DEF WaitInv
<1>4. CASE at \in {"trust?", "import?", "coin?"}
  <2> SUFFICES ASSUME ~Cause, "reset" \notin events', ~Cause' PROVE Answered'
    BY <1>1, <1>2, <1>4 DEF WaitInv, Cause
  <2>1. Asked \/ Answered
    BY <1>4 DEF WaitInv
  <2>2. "rejected" \notin events'
    BY DEF Cause
  <2>3. screen # "off"
    BY <2>1 DEF Asked, Answered, SafetyInv, KeyInv
  <2>4. cmd # NoCommand
    BY <2>2, <2>3, DeviceEffect
  <2>5. Asked
    BY <2>1, <2>4 DEF Answered
  <2>6. CASE /\ cmd' = NoCommand /\ reply' = Reply(cmd, SwRejected, Absent, Absent)
             /\ cmd.op = "keyImage" => "rejected" \in events'
    <3>1. at # "coin?"
      BY <2>2, <2>5, <2>6 DEF Asked
    <3> QED BY <1>1, <2>4, <2>6, <3>1, AnswersAreReplies DEF Answered
  <2>7. CASE /\ cmd' = NoCommand /\ \E tail : reply' = Reply(cmd, SwOk, ResultHead(cmd), tail)
             /\ cmd.op \notin NoBytesOps => ResultHead(cmd) = Answer(cmd, key)
    <3>1. PICK tail : reply' = Reply(cmd, SwOk, ResultHead(cmd), tail)
      BY <2>7
    <3>2. reply' # NoReply /\ reply'.head = ResultHead(cmd)
      BY <2>4, <3>1, AnswersAreReplies, ReplyFields
    <3>3. at = "coin?" => ResultHead(cmd) # Absent
      <4>1. at = "coin?" => cmd.op = "keyImage"
        BY <2>5 DEF Asked
      <4>2. cmd.op = "keyImage" => cmd.op \notin NoBytesOps
        BY DEF NoBytesOps
      <4>3. Answer(cmd, key) = Content(cmd.op, key, cmd.coin)
        BY DEF Answer
      <4>4. cmd.op = "keyImage" => Answer(cmd, key) # Absent
        BY <4>3, BytesWhat
      <4> QED BY <2>7, <4>1, <4>2, <4>4
    <3> QED BY <1>1, <2>7, <3>2, <3>3 DEF Answered
  <2>8. tx = NoReply
    BY <2>5 DEF Asked
  <2> QED BY <2>3, <2>6, <2>7, <2>8, DeviceEffect
<1> QED BY <1>1, <1>3, <1>4 DEF WaitInv

LEMMA WaitStep ==
    ASSUME ToolTypeOK, SafetyInv, PlaceInv, WaitInv, [ToolNext]_toolVars PROVE WaitInv'
<1>1. CASE OpenFails
  BY <1>1 DEF OpenFails, Go, Happened, WaitInv, Cause
<1>2. CASE SendTrust
  <2>1. at' = "trust?" /\ CanReceive /\ AskUser(Trust)
    BY <1>2 DEF SendTrust, Go, HandleTrustDevice
  <2>2. Asked'
    BY <2>1, ToolCommands, AskIsAsked
  <2> QED BY <2>1, <2>2 DEF WaitInv
<1>3. CASE SendImport
  <2>1. PICK k \in todo : HandleImportPrivate(k)
    BY <1>3 DEF SendImport
  <2>2. at' = "import?" /\ CanReceive /\ AskUser(Command("import", k, NoCoin))
    BY <1>3, <2>1 DEF SendImport, Go, HandleImportPrivate
  <2>3. k \in Imports
    BY ToolConstantsAssumption DEF ToolTypeOK
  <2>4. Asked'
    BY <2>2, <2>3, ToolCommands, AskIsAsked
  <2> QED BY <2>2, <2>4 DEF WaitInv
<1>4. CASE SendCoin
  <2>1. at' = "coin?" /\ Head(coins) \in Coins
    BY <1>4, NextCoin DEF SendCoin, Go
  <2>2. CASE HandleGenKeyImage(Head(coins))
    <3>1. CanReceive /\ AskUser(Command("keyImage", NoKey, Head(coins)))
      BY <2>2 DEF HandleGenKeyImage
    <3>2. Asked'
      BY <2>1, <3>1, ToolCommands, AskIsAsked
    <3> QED BY <2>1, <3>2 DEF WaitInv
  <2>3. CASE HandleGenKeyImageTrusted(Head(coins))
    <3>1. /\ cmd' = NoCommand
          /\ reply' = Reply(Command("keyImage", NoKey, Head(coins)), SwOk,
                            Content("keyImage", key, Head(coins)), Scratch)
      BY <2>3 DEF HandleGenKeyImageTrusted, SendResponse, KeyImageBuffer
    <3>2. reply' # NoReply /\ reply'.head # Absent
      BY <2>1, <3>1, ToolCommands, AnswersAreReplies, ReplyFields, BytesWhat
    <3> QED BY <2>1, <3>1, <3>2 DEF WaitInv, Answered
  <2>4. CASE Happened("refused")
    BY <2>1, <2>4 DEF Happened, WaitInv, Cause
  <2> QED BY <1>4, <2>2, <2>3, <2>4 DEF SendCoin
<1>5. CASE Finish \/ NextKey
  BY <1>5 DEF Finish, NextKey, Go, WaitInv
<1>6. CASE Lost \/ GotNoImage
  <2>1. /\ at \in {"trust?", "import?", "coin?"} /\ cmd = NoCommand
        /\ reply = NoReply \/ (at = "coin?" /\ reply.head = Absent)
        /\ at' = "panic" /\ events' = events
    BY <1>6 DEF Lost, GotNoImage, Waiting, Go
  <2>2. Cause
    BY <2>1 DEF WaitInv, Asked, Answered
  <2> QED BY <2>1, <2>2 DEF WaitInv, Cause
<1>7. CASE GotStatus \/ GotImage
  BY <1>7 DEF GotStatus, GotImage, Go, WaitInv
<1>8. CASE OtherProgram
  BY <1>8 DEF OtherProgram, tool, WaitInv
<1>9. CASE DeviceStep
  BY <1>9, WaitDevice DEF ToolTypeOK
<1>10. CASE OtherCloses \/ UNCHANGED toolVars
  BY <1>10 DEF OtherCloses, toolVars, vars, ui, io, tool, WaitInv, Cause, Asked, Answered
<1> QED BY <1>1, <1>2, <1>3, <1>4, <1>5, <1>6, <1>7, <1>8, <1>9, <1>10 DEF ToolNext, ToolStep

-----------------------------------------------------------------------------
(* Which key an image is made with. *)

LEMMA UseDevice ==
    ASSUME ToolTypeOK, SafetyInv, PlaceInv, UseInv, DeviceStep PROVE UseInv'
<1>1. /\ at' = at /\ coins' = coins /\ current' = current /\ events \subseteq events'
  BY DeviceEffect DEF tool, ToolTypeOK
<1> SUFFICES ASSUME at \in {"import?", "coin", "coin?"}, events' \cap {"reset", "import"} = {}
             PROVE  /\ key' = current /\ screen' # "off"
                    /\ at = "coin?" =>
                          \/ cmd' = CoinCommand
                          \/ cmd' = NoCommand /\ reply'.head \in {Absent, Answer(CoinCommand, current)}
  BY <1>1 DEF UseInv, Undisturbed, CoinCommand, Answer
<1>2. Undisturbed
  BY <1>1 DEF Undisturbed
<1>3. /\ key = current /\ screen # "off" /\ "reset" \notin events'
      /\ at = "coin?" =>
            \/ cmd = CoinCommand
            \/ cmd = NoCommand /\ reply.head \in {Absent, Answer(CoinCommand, current)}
  BY <1>2 DEF UseInv
<1>4. at = "coin?" => Head(coins) \in Coins
  BY NextCoin DEF PlaceInv
<1>5. CASE /\ cmd # NoCommand /\ cmd' = NoCommand
           /\ reply' = Reply(cmd, SwRejected, Absent, Absent)
           /\ key' = key /\ screen' = "idle"
  BY <1>3, <1>5, ReplyFields
<1>6. CASE /\ cmd # NoCommand /\ cmd' = NoCommand
           /\ \E tail : reply' = Reply(cmd, SwOk, ResultHead(cmd), tail)
           /\ cmd.op \notin NoBytesOps => ResultHead(cmd) = Answer(cmd, key)
           /\ key' = key /\ screen' = "idle"
  <2>1. reply'.head = ResultHead(cmd)
    BY <1>6, ReplyFields
  <2>2. CASE at = "coin?"
    <3>1. cmd = CoinCommand /\ CoinCommand.op = "keyImage"
      BY <1>3, <1>4, <1>6, <2>2, ToolCommands DEF CoinCommand
    <3>2. ResultHead(cmd) = Answer(CoinCommand, current)
      BY <1>3, <1>6, <3>1 DEF NoBytesOps
    <3> QED BY <1>3, <1>6, <2>1, <3>2
  <2> QED BY <1>3, <1>6, <2>2
<1>7. CASE /\ tx # NoReply /\ cmd # NoCommand /\ cmd' = NoCommand /\ reply' = tx
           /\ tx.head = Absent \/ cmd = Plain("version")
           /\ key' = key /\ screen' = screen
  <2>1. at = "coin?" => cmd # Plain("version")
    <3>1. at = "coin?" => cmd = CoinCommand /\ CoinCommand.op = "keyImage"
      BY <1>3, <1>4, <1>7, ToolCommands DEF CoinCommand
    <3>2. Plain("version").op = "version"
      BY DEF Plain, Command
    <3> QED BY <3>1, <3>2
  <2> QED BY <1>3, <1>7, <2>1
<1> QED BY <1>3, <1>5, <1>6, <1>7, DeviceEffect DEF ToolTypeOK

LEMMA UseStep ==
    ASSUME ToolTypeOK, SafetyInv, PlaceInv, UseInv, [ToolNext]_toolVars PROVE UseInv'
<1>1. CASE OpenFails \/ SendTrust
  BY <1>1 DEF OpenFails, SendTrust, Go, UseInv
<1>2. CASE SendImport
  BY <1>2 DEF SendImport, HandleImportPrivate, AskUser, UseKey, Go, UseInv
<1>3. CASE SendCoin
  <2>1. /\ at = "coin" /\ at' = "coin?" /\ UNCHANGED <<current, coins>> /\ CanReceive
        /\ key' = key /\ Undisturbed' = Undisturbed
    BY <1>3 DEF SendCoin, Go, HandleGenKeyImage, HandleGenKeyImageTrusted,
               HandleGenKeyImageFails, Happened, Undisturbed
  <2>2. CASE HandleGenKeyImage(Head(coins)) \/ HandleGenKeyImageFails(Head(coins))
    <3>1. cmd' = CoinCommand /\ screen' # "off"
      BY <2>1, <2>2 DEF HandleGenKeyImage, HandleGenKeyImageFails, AskUser, Throw, ui,
                        CoinCommand, CanReceive
    <3>2. CoinCommand' = CoinCommand
      BY <2>1 DEF CoinCommand
    <3> QED BY <2>1, <3>1, <3>2 DEF UseInv
  <2>3. CASE HandleGenKeyImageTrusted(Head(coins))
    <3>1. /\ cmd' = NoCommand /\ screen' = "idle"
          /\ reply'.head = Content("keyImage", key, Head(coins))
      BY <2>3, ReplyFields DEF HandleGenKeyImageTrusted, SendResponse, KeyImageBuffer
    <3>2. Head(coins) \in Coins
      BY <1>3, NextCoin DEF SendCoin
    <3>3. Answer(CoinCommand, current)' = Content("keyImage", current, Head(coins))
      BY <2>1 DEF Answer, CoinCommand, Command
    <3> QED BY <2>1, <3>1, <3>3 DEF UseInv
  <2> QED BY <1>3, <2>2, <2>3 DEF SendCoin
<1>4. CASE Finish \/ NextKey \/ Lost \/ GotNoImage
  BY <1>4 DEF Finish, NextKey, Lost, GotNoImage, Go, UseInv
<1>5. CASE GotStatus \/ GotImage
  <2>1. /\ at \in {"trust?", "import?", "coin?"} /\ at' \in {"key", "coin"}
        /\ at = "trust?" => at' = "key"
        /\ UNCHANGED <<vars, current, events>>
    BY <1>5 DEF GotStatus, GotImage, Go, Waiting
  <2> QED BY <2>1 DEF UseInv, Undisturbed, vars, ui, ram
<1>6. CASE OtherProgram
  <2>1. UNCHANGED tool /\ at \in {"trust", "key", "coin"}
    BY <1>6 DEF OtherProgram
  <2>2. CASE \E k \in Imports : HandleImportPrivate(k) /\ Happened("import")
    BY <2>1, <2>2 DEF Happened, UseInv, Undisturbed
  <2>3. CASE HandleGetOTA /\ UNCHANGED events
    BY <2>1, <2>3 DEF HandleGetOTA, AskUser, tool, UseInv, Undisturbed
  <2> QED BY <1>6, <2>2, <2>3 DEF OtherProgram
<1>7. CASE DeviceStep
  BY <1>7, UseDevice
<1>8. CASE OtherCloses \/ UNCHANGED toolVars
  BY <1>8 DEF OtherCloses, toolVars, vars, ui, ram, io, tool, UseInv, Undisturbed, CoinCommand
<1> QED BY <1>1, <1>2, <1>3, <1>4, <1>5, <1>6, <1>7, <1>8 DEF ToolNext, ToolStep

-----------------------------------------------------------------------------
(* The theorems. *)

LEMMA ToolStepInv == ASSUME ToolInv, [ToolNext]_toolVars PROVE ToolInv'
BY ToolTypeStep, ToolSafetyStep, JudgedStep, WaitStep, UseStep DEF ToolInv

\* A failed verdict is printed of an image that was not made with the key of the
\* program, or of bytes that are none.
LEMMA ErrorStep ==
    ASSUME ToolInv, [ToolNext]_toolVars, NEW v \in verdicts' \ verdicts, ~v.ok
    PROVE  events \cap {"reset", "import"} # {}
<1>1. GotImage
  <2>1. verdicts' # verdicts
    OBVIOUS
  <2>2. CASE ToolStep
    BY <2>1, <2>2 DEF ToolStep, OpenFails, SendTrust, SendImport, SendCoin, Finish, NextKey,
                      Lost, GotStatus, GotNoImage
  <2>3. CASE OtherProgram \/ OtherCloses \/ DeviceStep \/ UNCHANGED toolVars
    BY <2>1, <2>3 DEF OtherProgram, OtherCloses, DeviceStep, toolVars, tool
  <2> QED BY <2>2, <2>3 DEF ToolNext
<1>2. reply.head # HostImage
  <2>1. PICK w \in Verdicts : verdicts' = verdicts \cup {w} /\ w.ok = (reply.head = HostImage)
    BY <1>1, NewVerdict, Zenon DEF ToolInv
  <2>2. w = v
    BY <2>1
  <2> QED BY <2>1, <2>2
<1>3. at = "coin?" /\ cmd = NoCommand /\ reply.head # Absent /\ Head(coins) \in Coins
  BY <1>1, NextCoin DEF GotImage, Waiting, ToolInv, PlaceInv
<1>4. HostImage = Answer(CoinCommand, current)
  BY DEF HostImage, CoinCommand
<1>5. cmd # CoinCommand
  BY <1>3, ToolCommands DEF CoinCommand
<1> QED BY <1>2, <1>3, <1>4, <1>5 DEF ToolInv, UseInv, Undisturbed

\* The program, the device and the user keep ToolInv, whatever another program
\* does between two exchanges.
THEOREM ToolSafety == ToolSpec => []ToolInv
BY InitTool, ToolStepInv, PTL DEF ToolSpec

\* Every variable of the composition keeps its type.
THEOREM ToolTypeCorrect == ToolSpec => []ToolTypeOK
<1>1. ToolInv => ToolTypeOK
  BY DEF ToolInv
<1> QED BY <1>1, ToolSafety, PTL

\* The program is a host like any other: what it makes of the application is a
\* behaviour of the application.
THEOREM ToolIsHost == ToolSpec => Spec
<1>1. ToolInit => Init
  BY DEF ToolInit
<1>2. ToolInv /\ [ToolNext]_toolVars => [Next]_vars
  BY ToolStepIsNext DEF ToolInv
<1> QED BY <1>1, <1>2, ToolSafety, PTL DEF ToolSpec, Spec

\* A panic has one of five causes, for any keys, coins and interference: the device
\* is away, another program has it open, it was reset, or it gave no image since the
\* user rejected or the command failed. Refused trust and a refused import are none.
THEOREM PanicsHaveCauses == ToolSpec => []PanicHasCause
<1>1. ToolInv => PanicHasCause
  BY DEF ToolInv, WaitInv, Cause, PanicHasCause
<1> QED BY <1>1, ToolSafety, PTL

\* When the program is done every coin of every key was judged: no coin is lost
\* in the two loops, and no key when another program uses the device.
THEOREM AllCoinsJudged == ToolSpec => []EveryCoinJudged
<1>1. ToolInv => EveryCoinJudged
  BY DEF ToolInv, PlaceInv, JudgedInv, Judged, EveryCoinJudged
<1> QED BY <1>1, ToolSafety, PTL

\* "decrypt err" of a coin of the key that was sent needs a reset or a foreign
\* import after it was sent.
THEOREM ErrorsHaveCauses == ToolSpec => ErrorHasCause
<1>1. ToolInv /\ [ToolNext]_toolVars
         => [(\E v \in verdicts' \ verdicts : ~v.ok) => events \cap {"reset", "import"} # {}]_toolVars
  BY ErrorStep
<1> QED BY <1>1, ToolSafety, PTL DEF ToolSpec, ErrorHasCause
=============================================================================
