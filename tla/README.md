# A TLA+ model of nanoledger101

nanoledger101 is a wallet for the Incognito chain on a Ledger Nano: an application on the
device that keeps the private key, command line programs on the host that talk to it over
USB, and a daemon that collects the coins of the chain. This directory holds TLA+ modules of
its parts, the configurations with which TLC checks them, and proofs for TLAPS.

Paths are relative to the root of the repository, which is `src/`; so `src/src/main.c` is the
file of the device application and `src/cli/nanos.go` one of the host.

1. [Inventory](#1-inventory)
2. [Plan](#2-plan)
3. [The modules and the code](#3-the-modules-and-the-code)
4. [The runs](#4-the-runs)
5. [Fairness](#5-fairness)
6. [Proofs](#6-proofs)
7. [Findings](#7-findings)
8. [What is not modelled](#8-what-is-not-modelled)

## 1. Inventory

| Part | Source | State it keeps | Operations |
|---|---|---|---|
| Command loop | `src/src/main.c` | `rx`, `tx`, `flags` of `app_main`; `G_io_apdu_buffer` | receive an APDU, dispatch it, send what is staged, restart on `EXCEPTION_IO_RESET`, exit |
| Handlers | `src/src/api_*.c`, `sendResponse` | `processData`, `trust_host`, `G_crypto_state_t`, the UX flow on the screen | version, address, private key, view key, OTA key, import, key image, trust; approve and reject |
| Keys | `src/src/key.c` | `G_crypto_state_t.key`, `.a` | derive, import, clear, compute the view key |
| Arithmetic | `src/src/crypto.c` | none but scratch space in `processData` | scalars modulo the order, points, hashes to scalars and points, key images, derivations; amounts |
| Base58 | `src/src/utils.c` | none | `encodeBase58` |
| Settings | `src/src/menu.c` | `N_storage` (non-volatile), `setting_1..4` (RAM) | open menu and lists, choose, initialise the storage |
| Transport | `src/cli/nanos.go`, `src/tools/coin-decrypt-test/nanos.go` | `hidFramer.seq`, `buf`, `pos` | write an APDU in packets, read the answer from packets |
| CLI | `src/cli/main.go`, `cmdHandlers.go` | none, a process per command; what the device sends waits in a queue | open the device, one exchange, print |
| Test tool | `src/tools/coin-decrypt-test/main.go` | loop variables | trust, import a key, ask for key images, compare |
| Coin service | `src/cli/coin-daemon/coinservice.go` | `ShardProcessedState`, `TransactionStateDB`; on disk tries, shard views, `coin-processed-N` | start, apply a block, make it durable, reload, `GetCoins` |
| Accounts, transactions, HTTP | rest of `src/cli/coin-daemon` | `accountList`, which nothing fills | stubs |

**How they interact.** A host process writes an APDU in 64 byte packets; the SDK of the device
assembles it and `io_exchange` of `app_main` returns it. The handler either throws a status
word, which the next `io_exchange` sends, or computes its answer into the one buffer
`processData`, shows a prompt, sets `IO_ASYNCH_REPLY` and returns. The user's button press is an
event *inside* the next `io_exchange`: its callback copies `processData` to the APDU buffer, calls
`io_exchange` a second time to send it, and shows the idle screen. The host reads the packets of
the answer. The daemon does not talk to the device; the node calls it back with blocks, and
HTTP clients ask it for coins.

**What is hard about it.**

* Interleaving: commands, button presses, resets and power loss arrive in any order, and one
  buffer, one screen, one flag word and one key serve all commands. A host can give up and
  another command arrive while a prompt is displayed.
* Time of check and time of use: an answer is computed before the user is asked, and sent after.
* Resets: `EXCEPTION_IO_RESET` runs the loop of `main` again with the globals kept.
* Framing: answers end anywhere in a packet; processes die between packets.
* Durability: the daemon makes three things durable one after the other and may die in between.
* Numbers: eight bit indices and sixteen bit intermediates in the Base58 encoder; byte strings
  turned around for every operation on scalars, keys that are reduced or not, a square root with
  four cases.
* No identity: nothing in an answer says which command it answers, and a killed process leaves
  its command, its prompt and its answer to the next one.

**What makes the parts correct.**

* Application: exports need the approval of a prompt for that export, or trust given by the
  user; an approval sends the answer to the question on the screen, from the key in use; every
  command is answered.
* Transport: an exchange returns the whole answer to its own command, or an error; the device
  never sees half an APDU, and no answer is put together from two.
* CLI: a process reads the answer to its own command, as far as the processes before it were
  left to end, and never waits for nothing.
* Arithmetic: the device's private key for a coin is that of the coin's public key, and its key
  image is what the definition of the map of a digest to a point says.
* Settings: a stored flag changes by a choice in its own list and by nothing else.
* Base58: the text stands for the number of the bytes, leading zeros included.
* Test tool: it never reports an error of a coin that was computed right, and it ends.
* Daemon: whatever it finds on disk after a death is a complete state no older than the height
  it claims to have processed, and it catches up.

`PROJECT.json` lists, per component, what is modelled and why the rest is not, and under
`hazards` the places in the code where these things can go wrong.

## 2. Plan

The most important behaviour is that of the device with its user, so it comes first and has
an abstract specification; then what is around it; then the daemon.

| Module | Models | Uses | State |
|---|---|---|---|
| `WalletService` | what the application promises | | done |
| `IncognitoApp` | the device application | instance of `WalletService` | done, proved |
| `IncognitoApp_proofs` | its proofs | `IncognitoApp`, `TLAPS` | done |
| `HidExchange` | framing between host and device | instance of `Exchange` | done, proved |
| `HidExchange_proofs` | its proofs | `HidExchange`, `TLAPS` | done |
| `SettingsMenu` | settings and their storage | | done, proved |
| `SettingsMenu_proofs` | its proofs | `SettingsMenu`, `TLAPS` | done |
| `Base58` | `encodeBase58` | | done, proved |
| `Base58_proofs` | its proofs | `Base58`, `WellFoundedInduction`, `TLAPS` | done |
| `CoinService` | the daemon | | done, proved |
| `CoinService_proofs` | its proofs | `CoinService`, `TLAPS` | done |
| `DecryptTool` | test tool, device, another program | extends `IncognitoApp` | done, proved |
| `DecryptTool_proofs` | its proofs | `DecryptTool`, `IncognitoApp_proofs` | done |
| `HostCli` | CLI processes, one after the other, and the device | extends `IncognitoApp` | done, proved |
| `HostCli_proofs` | its proofs | `HostCli`, `IncognitoApp_proofs` | done |
| `Exchange` | what the transport promises | | done |
| `Curve` | scalars, points and the map of a digest to a point | | done, proved |
| `CoinKeys` | keys, coins and key images of device, sender and host | extends `Curve` | done, proved |
| `CoinKeys_proofs` | proofs about both | `CoinKeys`, `WellFoundedInduction`, `TLAPS` | done |

Every invariant that a run checks is a theorem of its specification, and so are both refinements
and the action properties; the four liveness properties and the progress of the daemon are not.
Still worth proving is what the theorems on the curve assume: Fermat's little theorem, and that
addition is closed and associative. The amounts of `crypto.c` and their text are the arithmetic
that is left to model.

**Conventions.** Actions and helpers carry the names of the code where TLA+ allows it.
`MCx.tla` with its `.cfg` files instantiates `x` for TLC. An operator `X_Y` is a *faulty* variant
of `X`, marked `fault:`; no action uses it, and it documents a fault a property would notice.

## 3. The modules and the code

### IncognitoApp

Each APDU is one action: `io_exchange` returns it, `app_main` clears the flags, the handler runs
to its end (`HandleGetAddress`, `HandleImportPrivate`, ...). `Throw` is the path through
`CATCH_OTHER` that stages a status word in `tx`; `AskUser` the path with `ux_flow_init` and
`IO_ASYNCH_REPLY`; `SendResponse` is `sendResponse`. `Transmit` is the next turn of the loop,
which sends what is staged. `Approve` and `Reject` are the callbacks of the buttons; they are
enabled only when nothing is staged, because a button is an event inside `io_exchange`.
`ApproveUnsent` is an approval whose `io_exchange` throws `EXCEPTION_IO_RESET` after the
result was set. `IoReset` runs the loop of `main` again, `PowerLoss` and `Quit` clear the memory.

| Variable | Code |
|---|---|
| `screen`, `prompt` | the UX flow displayed, and the command it asks about |
| `key`, `view` | `G_crypto_state_t.key`, and the key `.a` was computed from |
| `trust` | `trust_host` |
| `pd.head`, `pd.tail` | `processData`, bytes 0 to 31 and the rest |
| `async` | `IO_ASYNCH_REPLY` in `flags` |
| `tx` | the answer staged in `G_io_apdu_buffer` |
| `cmd`, `reply` | the command the host waits for, the last answer sent |

A byte string is what it says and of which key: `Answer(c, k)` is the answer to command `c`
computed from key `k`. That is enough to tell a right answer from a stale, foreign, partial or
cleared one, which is what the properties are about. Cryptography is thereby ideal: equal
inputs give equal outputs and different ones different. `encodeBase58` is taken here to return
the encoding of its input; what it really does is the subject of `Base58`.

`SingleFlight` selects the transport: TRUE delivers a command only when no other waits for its
answer, which is how the host programs use the device when none of them is killed; FALSE also
delivers commands under the prompt of another. `LooseSpec` adds a transport that hands over empty
commands (`ReceiveNothing`); `HostCli` is the run in which both happen.

### WalletService

The promise: requests, at most one pending; a grant computes the answer from the key in use *at
that moment*; only the grant of the trust request gives trust; only a trusted host is answered
unattended. It has no buffer, screen, flags or staging. `ImplementsService` instantiates it with
`pending <- cmd` and `outcome <- Outcome`, an abstraction of `reply`. It states openly that a
request to import changes the key at once, because the code does.

### HidExchange

`hidFramer.Write` is `WriteChunk`, one packet at a time; `hidFramer.Read` is `Drain` (its first
branch) and `ReadPacket`; `io.ReadFull` and the two reads of `apduFramer.Exchange` are `Fill`;
`Finish` is the end of `NanoS.Exchange`. The device assembles packets (`DeviceTake`) and answers
with a data length of its choice and `0x9000`, or with `0x6985` (`Replies`). `Die` ends the host process
anywhere, leaving unread packets or not; `Unplug` fails the read or write in progress. Bytes
carry the number of the exchange they belong to, so that a mix of two answers shows. `calm`
records that nothing was disturbed so far.

`Exchange` is the same without packets: an exchange ends with an error, with cleared bytes, or
with the answer to this or an earlier one, and answers are returned once and in order. A mix of
two answers would be an outcome of the kind `"mixed"`, which `Exchange` does not have.
`ImplementsExchange` instantiates it with `busy <- phase # "idle"` and `outcome <- Outcome`, an
abstraction of `result`; the history `newest` is the newest exchange whose answer was returned.
Exactly the sequence numbers of the packets, reset by every exchange, give this order. A status
word alone is an answer too, whatever the data lengths are (`IsAnswer`).

### HostCli

A process of the CLI (`Open`, `Send`, `Read`, `Lost`, `Kill`) beside the device application, whose
actions it uses. `Send(sub)` is the table of `main`: the subcommand's `Exchange` and, on the device,
the handler of that command to its end. `ota` sends the code of the validator key, because the
case of `main` calls `GetValidatorKey`; like the stubs it gets `0x6D00`. `wire` holds the answers
nobody has read; with a handle closed, or the device gone, they may be dropped. `Kill` ends the
process anywhere, `EmptyCommand` is the transport that hands over no byte, `Gone` the resets and
the end of the application. Two histories: `late`, that an answer may come which is not the next
process's own, and `granted`, that the user granted the address or private key that was last
written to `processData`.

### Curve and CoinKeys

`Curve` is the arithmetic of `crypto.c` on byte strings: little-endian outside, turned around for
the big-endian functions of the SDK, which are modelled by what they compute. Field, order,
coefficient and width are constants, and `CurveAssumption` says what the formulas need of them;
`2^255 - 19`, `486662` and 32 bytes satisfy it. `FieldAssumption` and `GroupAssumption` are known
facts of that field and curve, which TLC evaluates on the small one. The constants `C_fe_*` are given by the formulas in
the comments beside them (for `C_fe_sqrtm1` the comment repeats another formula; it is the root
of -1). `Projective` and `ge_fromfe_frombytes` are `incognito_ge_fromfe_frombytes` up to and from
the affine coordinates; `ElligatorPoint` is the definition of the map it is compared with.

`CoinKeys` walks one key through its life: loaded (derived, or imported without reduction),
exported as an address, paid to by a sender, and used for a key image, or for the derivations
that no command of the application reaches yet. The sender and the host's `extractCoinData`
(`kOTA`) are the other parties. The hash is a constant operator with a salt, so that a run goes
through many hash functions.

### SettingsMenu

`storage`, `ready` and `copy` are `N_storage` and the RAM copies, `list` and `cursor` the list on
the screen and the highlighted line, `item` the last item chosen. It has no constants.

### Base58

One step of `Divide` is one pass of the outer loop of `encodeBase58`; the inner loop is
`Division`, with the recursive function `Remainders` for what it carries. `j` is an index of eight bits. A digit outside the buffer, leading ones
outside it (`TextFits`) and a search for the first digit that starts from a wrapped index end in
the state `"undefined"`, which has no text; that the code leaves its arrays for some arguments
that it admits is the finding `base58_address`.

### DecryptTool

The program is a control state `at` over the actions of `IncognitoApp`: sending a command is the
handler itself, with the program waiting until `cmd = NoCommand`. The device is otherwise free:
resets, power loss, rejections, failing computations, and up to `MaxOther` commands of another
program, which can open the device because the tool closes it after each exchange. `held` says that
it has it open. `OpenFails` is `OpenNanoS` without a device, or with a device that is held and whose
`Open` fails; whether a second `Open` fails is up to the operating system, so the tool may also go
on. What arrives under the prompt of another program is the subject of `HostCli`. A user without
the right to open the device is left out, who would not come past the first exchange. `events`
records what went wrong since the current key was sent.

### CoinService

Per shard the callback `OnNewShardBlock` is a sequence of steps, `pc`: read or skip the block
(lines 30-38), apply it (42-47), commit the trie (49-57), back up the views (58-66), store the
height (67-74), and at every `RestoreEvery`-th height replace the shard chain (78) and read the
views back (79-84). `Crash` may come between any two; it also stands for the panics of the
callback and for the end of the process by the Go runtime when two callbacks use the map
`TransactionStateDB` at once. A state is the sequence of heights applied to it, so that a block
that is missing or applied twice shows. `Deliver` is the node: one block after the other per
shard, from the height registered or the one after it. The genesis block is in every state.

## 4. The runs

| Run | Checks | Shows |
|---|---|---|
| `app_single` | `TypeOK`, `OutstandingIsAnswerable`, `PromptHoldsAnswer`, `ImplementsService`, `EveryCommandEnds` | screen, buffer, key and waiting host agree at any moment; the application is a `WalletService`; every command ends |
| `cli` | `CliTypeOK`, `WaitHasEnd`, `AnswerIsOwn`, `ExportNeedsConsent`, `LeftoverNotGranted` | CLI processes that are killed under their prompts: none waits for nothing or reads another's answer without cause, exports still need consent, and nothing that was granted is left over in the buffer |
| `hid` | `TypeOK`, `ExchangeReturnsAnswer`, `RequestArrivesWhole`, `ExchangeEnds`, `ImplementsExchange` | framing, over dying processes and pulled cables; it implements `Exchange` |
| `settings` | `TypeOK`, `CursorShowsStored`, `ChangesByChoice` | stored flags survive everything but a choice |
| `base58` | `TypeOK`, `EncodesInput`, `LoopKeepsValue`, `Terminates` | the encoder is right wherever it has a result, and its loops end |
| `tool` | `ToolTypeOK`, `PanicHasCause`, `EveryCoinJudged`, `ErrorHasCause`, `ToolEnds` | the test tool with the device and a program that may hold it: it ends, and what goes wrong has a cause |
| `coin` | `TypeOK`, `Restorable`, `MarkIsBacked`, `OneBlockAhead`, `RepeatsAreRestarts`, `ShownInTime`, `RestoreKeepsState`, `CatchesUp` | the daemon over crashes |
| `curve` | `CoinTypeOK`, `SecretOpensCoin`, `ImageOfCoin`, `DigestHasPoint`, `DerivedKeysMatch` | keys, key images and the map of a digest to a point agree with their definitions |
| `app_import`, `hid_status`, `settings_items`, `base58_address` | one property each | a counterexample: see [Findings](#7-findings) |

**Bounds, and why they are enough.**

* `IncognitoApp`: two importable keys and two coins. A property relates the key or coin of an
  answer to that of the prompt and the one in use; two of a kind, and the derived key as a third,
  are enough for any of them to differ. Nothing is counted, so the state space is complete
  (about 5,000 states). The proofs remove the bound.
* `HidExchange`: three payload bytes per packet instead of 59. With the two bytes of the length
  before them, answers of 2, 3, 4, 5, 7 and 8 bytes end inside the second packet (2, 3), at the end
  of the second (4) and of the third (7), and one byte after one (5, 8). Three exchanges: one to be
  left behind, one to meet its rest and one to follow. The proofs hold for any packet size, any
  lengths below 65536 and any number of exchanges.
* `HostCli`: the one key and the one coin that are written into the program, and the derived key,
  which a reset brings back. `MaxQueue = 1`: one answer left behind is enough to be read by the
  next process, and an answer that meets a full queue is dropped, which a full queue of the
  operating system does too. With one process at a time a second one can only come from a
  second killed process.
* `CoinKeys`: the field of 37 elements, the curve of 40 points with cofactor 8 and order 5, and
  three bytes of three bits. The field has a root of -1 and 2 is no square, as in the real one,
  so all four cases of the map occur, as do the digests 0 and -1, digests above the field and
  images that are the neutral element. A byte counts 3 modulo the order, so that a wrong byte
  order gives a wrong scalar (with bytes of four bits it would count 1 and not show). 128 hash
  functions, six keys of which four are not reduced, three random scalars, an index on either
  side of a one byte varint. The proofs hold for any field, curve, width and hash of the assumptions.
* `SettingsMenu` is finite as it is.
* `Base58`: the constants of the code (256, 58, 164), all sequences of up to three bytes from
  twelve values around multiples of 58, 128 and the ends of the range. Longer arguments give
  numbers TLC has no integers for; the proofs cover them. Long arguments are zeros and at most a
  final one: 82 and 83 bytes, where the leading ones of the result just fit the buffer and no more;
  128 and 140, where twice the length has no index of eight bits; and 165, which the length check
  rejects. `MaxOut = 4` lets some results be too long for the caller. `base58_address` uses the
  lengths of the two callers, 80 and 109.
* `DecryptTool`: two keys with two and one coin, so that each loop repeats and the outer loop
  comes back to a device in another state; one command of another program, before, under and after which
  the device may be found held. The proofs hold for any keys, coins and number of such commands.
* `CoinService`: five heights with transactions in three of them, views read back every second
  height, two crashes: enough for a crash during the catch up from a crash, and for blocks
  between, at and after the reload. One shard: shards share nothing but the process, and the
  proofs hold for any number.

`CHECK_DEADLOCK FALSE` is given where the system really stops: an exchange bound reached, a
result returned, the program ended, the key image computed, the chain at its height. `IncognitoApp`,
`HostCli` and `SettingsMenu` never stop, and deadlock is checked.

## 5. Fairness

* `IncognitoApp!Fairness`: `WF(Transmit)`, because `app_main` always comes back to `io_exchange`,
  which sends first; and `WF(Decide)`, an assumption on the *user*: no prompt stays unanswered for
  ever. The code has no timeout, so without it a host waits as long as the user does.
* `HidExchange`: `WF` of the steps of a running process and of the device's answer, which is what
  `EveryCommandEnds` gives. Deaths and pulled cables are never forced.
* `Base58`: `WF(Next)`; it is a function call.
* `HostCli` and `CoinKeys` assume none. That a process which waits has somebody to wait for is the
  invariant `WaitHasEnd`; that this somebody goes on is `EveryCommandEnds`.
* `DecryptTool`: the program is scheduled; the device and user as above. Disturbances are not
  fair, so the program cannot count on them to end.
* `CoinService`: the daemon is started again after a death (it is not the code that does it), and
  each shard's goroutine gets its turn. Crashes are bounded and not forced; that a block is
  readable is not assumed.

## 6. Proofs

| Module | Theorem | Statement |
|---|---|---|
| `IncognitoApp_proofs` | `TypeCorrect`, `LooseTypeCorrect` | `Spec => []TypeOK`, `LooseSpec => []TypeOK` |
| | `Safety` | `SingleFlight` gives `Spec => []SafetyInv` |
| | `PromptsMatch` | `SingleFlight` gives the three invariants of the prompt |
| | `OutstandingAnswerable` | `SingleFlight` gives `Spec => []OutstandingIsAnswerable` |
| | `Consent` | `LooseSpec => ExportNeedsConsent` |
| | `StagedSent` | `LooseSpec => []StagedReplyIsSent` |
| | `TrustByUser` | `LooseSpec => TrustIsGiven` |
| | `Refinement` | `SingleFlight` gives `Spec => ImplementsService` |
| `HostCli_proofs` | `DeviceRunsAsSpecified` | `CliSpec => LooseSpec` |
| | `ConsentAmongProcesses` | `CliSpec => ExportNeedsConsent` |
| | `CliTypeCorrect` | `CliSpec => []CliTypeOK` |
| | `Waiting` | `CliSpec => []WaitHasEnd` |
| | `Leftover` | `CliSpec => LeftoverNotGranted` |
| | `OwnAnswers` | `CliSpec => AnswerIsOwn` |
| `HidExchange_proofs` | `StreamOfAnswers` | `Spec => []Inv` |
| | `TypeCorrect` | `Spec => []TypeOK` |
| | `RequestsWhole` | `Spec => []RequestArrivesWhole` |
| | `AnswerReturned` | `Spec => []ExchangeReturnsAnswer` |
| | `Refinement` | `Spec => ImplementsExchange` |
| `DecryptTool_proofs` | `ToolSafety` | `ToolSpec => []ToolInv` |
| | `ToolTypeCorrect` | `ToolSpec => []ToolTypeOK` |
| | `ToolIsHost` | `ToolSpec => Spec` of `IncognitoApp` |
| | `PanicsHaveCauses` | `ToolSpec => []PanicHasCause` |
| | `AllCoinsJudged` | `ToolSpec => []EveryCoinJudged` |
| | `ErrorsHaveCauses` | `ToolSpec => ErrorHasCause` |
| `SettingsMenu_proofs` | `MenuSafety` | `Spec => [](TypeOK /\ CursorShowsStored)` |
| | `TypeCorrect` | `Spec => []TypeOK` |
| | `OnlyByChoice` | `Spec => ChangesByChoice` |
| `Base58_proofs` | `EncoderSafety` | `Spec => []IInv` |
| | `TypeCorrect` | `Spec => []TypeOK` |
| | `PassesKeepValue` | `Spec => []LoopKeepsValue` |
| | `TextIsRight` | `Spec => []EncodesInput` |
| `CoinKeys_proofs` | `KeysSafety` | `CoinSpec => []IInv` |
| | `TypeCorrect` | `HashHolds` gives `CoinSpec => []CoinTypeOK` |
| | `SecretIsRight` | `HashHolds` gives `CoinSpec => []SecretOpensCoin` |
| | `DerivedKeysAreRight` | `HashHolds` gives `CoinSpec => []DerivedKeysMatch` |
| | `MapReachesCurve` | `HashHolds` gives `CoinSpec => []DigestHasPoint` |
| | `ImageIsRight` | `HashHolds` gives `CoinSpec => []ImageOfCoin` |
| `CoinService_proofs` | `TypeCorrect` | `Spec => []TypeOK` |
| | `DiskComplete` | `Spec => []DiskInv` |
| | `ViewsRestorable` | `Spec => []Restorable` |
| | `MarkNeverAhead` | `Spec => []MarkIsBacked` |
| | `ViewsHoldState` | `Spec => []BackupInv` |
| | `RestoreIsIdentity` | `Spec => RestoreKeepsState` |
| | `CoinsAreShown` | `Spec => []ShownInTime` |
| | `MarkNotFarBehind` | `~MarkUnreadable` gives `Spec => []OneBlockAhead` |
| | `RepeatsBounded` | `~MarkUnreadable` gives `Spec => []RepeatsAreRestarts` |

They hold for any sets of keys and coins, any length of the queue of answers, any packet size
and answer lengths, any set of shards, any chain, any number of crashes, exchanges and commands.
The assumptions are `ConstantsAssumption` of each module: the derived key is not one of the
imported ones and "no key" is no key; the bounds are natural numbers; a packet carries more than
the two bytes of a length; blocks with transactions lie on the chain; a byte has at most two
digits, and an index that wraps around lies behind the buffer. Where a theorem needs more it is in
its statement: one command in flight (`SingleFlight`), a stored height that can be read
(`~MarkUnreadable`), or that the hash returns strings of the width of a key (`HashHolds`).

`Curve` assumes more, because it is about a field and a group. `CurveAssumption` bounds the
constants, and says that `A + 2` is a square and `A` and `A - 2` are none. `FieldAssumption` is Fermat's little theorem, and that `-1`, `2A(A + 2)` and
`iA(A + 2)` are squares, without which the constants `C_fe_*` would not exist.
`GroupAssumption` is that the addition of points is closed and associative, that there is a
generator, and that cofactor times order annuls every point. All are facts of Ed25519; TLC
evaluates them on the small curve, and the prover has no theory to derive them from.

**IncognitoApp.** That an approval sends the right answer (`PromptHoldsAnswer`) is not inductive:
it needs to know that the prompt is that of the waiting command, that nothing is staged under a
prompt, and that the key and the view key belong together, or `HandleGetView` would write a
view key that is not that of the key in use. `SafetyInv` is the conjunction: `ScreenInv` (a prompt
is on the screen exactly while it is recorded), `StagedInv` (what is staged belongs to the
waiting command, which has no prompt), `KeyInv` (the view key is that of the key, and a stopped
application has none), and the three properties. Each action is a step; the handlers share lemmas
on `AskUser`, `Throw`, `SendResponse`, `StartLoop` and `Stop`. It needs `SingleFlight`: with commands
under a prompt, `PromptAnswersPending` is false.

`Consent`, `StagedSent` and `TrustByUser` do not need it, and hold under `LooseSpec`. The invariant of
`Consent`, `ConsentInv`, says that a staged answer is no export, and that what the buffer holds
under the prompt of an export is no export of another kind; that an export leaves by an approval
then follows step by step.

`Refinement` maps each action: a handler to `Request` or, for a trusted key image, to
`GrantUnattended`; `Transmit` and `Approve` to `Grant` or `Deny`; resets to `Reset` and `Halt`; menus to
stuttering. `SafetyInv` is what makes the grant's answer that of the key in use.

**HostCli.** `AppStep` shows that each step beside the processes is a step of the application or
none, so what holds of `LooseSpec` holds here. `RunInv` adds that a handle belongs to a running
application, whose key is a key. `Waiting` rests on it and on `StagedReplyIsSent`: a staged answer
that the flag held back would leave the process without one. For `Leftover`, `LeftoverInv` says that
after a grant no address or private key is behind the first 32 bytes of the buffer. For
`OwnAnswers`, `OwnInv` says where the answer of a process can be while nothing is late: in its own
question on the screen, staged, or arrived, in exactly one of the three; and nowhere between two
processes. The case that needs care is the device that goes away: `handle` is part of the first
two places, because a process without its device reads only what has arrived.

**HidExchange.** `ExchangeReturnsAnswer` speaks of the end of an exchange, so the invariant has to
follow the answer through the packets to the reader. `Inv` is about the packets on their way
(`Stream`): they are the rest of one answer and then whole answers, none missing but at the
front, those of later exchanges behind those of earlier ones; and what was read so far is the
beginning of an answer newer than all those returned, of which they are the rest (`ReadInv`). So
a reader that starts at packet 0 collects the bytes of one answer, or meets an error. `WriteInv`
says the same of the request and the device, `OrderInv` that no answer on its way was returned
before, `CalmInv` that undisturbed there is the current exchange and nothing else. `Multiples`, on
chunk numbers, and the lemmas on packets carry the arithmetic. `Refinement` maps the end of an
exchange to `Return` or `Fill` of `Exchange`, its start to `Begin` and all else to stuttering; that
answers are returned once and in order is `OrderInv`. The proof first failed on a fault of the
model: `IsAnswer` knew the answers with data only, and a status word alone was one only because 2
was among the sizes of the run.

**DecryptTool.** A step of the composition is a step of the application or leaves it alone, so
`ToolIsHost` carries `SafetyInv` over. `ToolInv` adds what the program knows at each place of its
control: `PlaceInv`, that its loops have a key and a coin; `JudgedInv`, that every coin of a key
that was sent has its verdict or is still in the loop; `WaitInv`, that its command is on the
screen or answered unless `events` holds a cause for a panic; and `UseInv`, that without a reset
or an import of the other program the key it sent is in use, and what it waits for is the image
of its coin under that key. `ErrorHasCause` is then one step: a wrong image needs `UseInv` to be
void.

**SettingsMenu.** Loading the settings clears a storage that was never initialised. `StorageInv`
says that such a storage is still clear: a list opens only in a started application.

**Base58.** The result is right because each pass divides the number by the radix and writes the
remainder: `LoopKeepsValue`, which `DivisionFacts` gives for one pass over bytes of any length.
It is not inductive alone. `StartInv` says that before the first pass nothing is written, and
`PassInv`, during the passes, that the bytes in front of `startAt` are zero and that the digits
written are at most twice the bytes that have been worked on. For the latter, and so for an
index that never runs below 0, a pass that leaves its first byte leaves it below the radix
(`Base <= Radix * Radix`), so that the next pass clears it. At the end the quotient is zero, the
digits are the number, and `TextFacts` lets leading zeros come and go. Nothing is assumed of the
length of an argument: the invariant counts from `End`, the index that twice the length wraps around to.
Only an index that has wrapped can run below 0, and then it is one behind the buffer. The values are recursive
functions over sequences of any length. The induction theorems of the library take operators as
parameters, which the provers cannot instantiate; `Induction` is stated on sets of numbers
instead, from the theorem on minimal elements, and `RecursionExists` gives the functions.

**CoinKeys.** The invariant is the small part: `IInv` says of each value in the state which
function of the others it is, which each action keeps. The theorems say that those functions
agree, and rest on lemmas about them. `NumberFacts` and `BigEndianFacts` make strings of any
width and base the numbers below `Strings`. `TimesSum`, `TimesTimes` and `TimesModulo` are the laws of
multiples for multiplication by doubling, so that a scalar may be reduced modulo the order or not:
with `addmTimes` they give `SecretIsRight`. That the sum of points commutes, has a neutral element
and inverses, and never divides by zero (`CoefficientNoSquare`, `DenominatorNotZero`) is proved from the
formulas, as is that a point is determined by its string (`PointOfString`), on which every
decompression rests.

For the map of a digest, an equation in the field is the statement that a difference is a
multiple of the prime (`Zero`), which leaves identities of polynomials to the solver.
`PowerHalf` and `PowerNext` make `Power` a power and `InverseFacts` makes `Inv` an inverse.
`DivPowM1Facts` says that `fe_divpowm1` of the code computes a root of a quotient up to a fourth root of one;
the four fourth roots of one are the four branches, and `BranchFacts` shows that the constant each multiplies
by makes it a root, and which sign it asks for. `MapDenominators` and `SumNotZero` exclude division by
zero, because 2 and `A - 2` are no squares. `MontgomeryForm`, `OddIsSquare` and `EvenIsNoSquare` say which of the
two candidates of the definition each branch has found, so that `ElligatorFacts` can equate the
code with `ElligatorPoint`; `ecmul_8Facts` adds the three doublings.

**CoinService.** `MarkIsBacked` needs what the callback has in memory between its steps. `ShardInv`
says, per step, which readable blocks the state in memory and the views on disk hold: all below
the block when it is delivered, the block too once it is applied, the views too once they are
backed up; and that the next height to be delivered is never more than one ahead, so that
nothing is left out. `DiskInv` is `ShardInv` of all shards. `BackupInv` says that from the backup
to the end of the callback the views on disk are the state in memory, which makes the reload of
the views (`RestoreIsIdentity`) an identity. `ShownInv` adds that between the height processed
last and the one at hand there are skipped heights only, so that no height at which the views
are read back was passed unnoticed.

`OneBlockAhead` needs the same of the stored height: between it and any readable block in the
views, in the state or in the callback lie only skipped blocks (`AheadInv`). For
`RepeatsAreRestarts` a number has to be bounded over all deaths: `RepeatInv` gives a log a weight,
the repeated applications it holds and those its heights may still cause, and bounds it by two
for each death: the block that was backed up but not marked, and the one that was marked, which
a restart may deliver again. Both assume that the stored height can be read: if it cannot, the
daemon begins at the first block and applies every block of the views again.

**Only model-checked.** Liveness (`EveryCommandEnds`, `ExchangeEnds`, `Terminates`, `ToolEnds`,
`CatchesUp`), which is out of the reach of the prover. **Only proved**, and in no run because they are parts of what the runs check or of the
proofs: `SafetyInv`, `PromptAnswersPending`, `StagedReplyIsSent`, `TrustIsGiven`, `DiskInv`,
`BackupInv`, `Inv` of `HidExchange`, `IInv` of `Base58` and of `CoinKeys`, `ToolInv`, and that the test tool and the processes of the CLI
use the device as `IncognitoApp` specifies.

## 7. Findings

Each is a run in which TLC finds a behaviour of the code that contradicts what a comment, a
text or a check of the repository says.

* `app_import`: the key to import is in use before the question "Importing privatekey?" is
  answered, and stays after Reject (`src/src/api_importPriv.c:75`).
* `settings_items`: "Delete Account" opens the list of "Reset all", by a missing `break`
  (`src/src/menu.c:202`).
* `base58_address`: an address of 109 bytes passes the length check, and its digits are written
  behind the buffer of 164 (`src/src/utils.c:35`).
* `hid_status`: an answer cut off by a read error is a success (`src/cli/nanos.go:113`).

Facts met on the way that contradict no statement of the repository: an IO reset replaces an
imported key by the derived one and keeps trust; a view key answer and a key image answer carry a
33rd byte left over from an earlier command; a rejection is a success with no data, because
`NanoS.Exchange` cuts the status word off and `errUserRejected` is returned by nothing
(`src/cli/nanos.go:151`); the subcommand `ota` asks for the validator key, which the device refuses,
and `GetOTAKey` is called by nothing; the index of `addr` is not sent, and a zero hash is printed
after the answer; a whole answer of an abandoned command can be
read by the next process as its own; a restart of the daemon applies up to two blocks again; a
block that could not be read is never tried again unless the mark is still before it.

## 8. What is not modelled

* Cryptography is opaque except in `Curve` and `CoinKeys`, and there the hash is any function: what
  is hard to compute is not the subject. The parts of `crypto.c` that no command reaches and
  `CoinKeys` does not need: amounts and their text, `decode_varint`, scalar range checks,
  subaddress secrets, commitment masks and ECDH hashes, `ecmul_H`, random numbers and AES keys.
* The length of an APDU: host programs send what the handlers expect.
* `api_gen*.c`, `api_getValidator.c`, `api_signMetadata.c`: `handleApdu` refuses their codes.
* The files of the CLI that `main` does not reach, and what its commands print.
* The daemon's accounts, transactions, HTTP and database modules: stubs that keep no state.
* `usbtool`, build files, images, the data of the simulated node and module checksums.
* External code - the device SDK, the Go runtime, the Incognito node and its databases - is
  modelled from how the repository uses it, and marked external in `PROJECT.json`.
