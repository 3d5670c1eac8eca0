---------------------------- MODULE CoinService ----------------------------
(***************************************************************************)
(* The coin service of the daemon (src/cli/coin-daemon/coinservice.go):    *)
(* per shard, a callback applies each finalized block to a transaction     *)
(* state and makes three things durable one after the other - the trie of  *)
(* the state, the shard views that name its root, and the height up to     *)
(* which blocks are processed. The process may die between any two of      *)
(* them, and initCoinService resumes from what it finds.                   *)
(*                                                                         *)
(* A transaction state is the sequence of the heights whose transactions   *)
(* were stored in it; its root hash stands for the same sequence.          *)
(* Operators named X_Y are faulty variants of X, which no action uses.     *)
(***************************************************************************)
EXTENDS Integers, FiniteSets, SequencesExt

CONSTANTS
    Shards,         \* the active shards
    TxBlocks,       \* heights whose blocks have transactions to apply; the genesis
                    \* block, at height 1, is part of every state
    RestoreEvery,   \* shard views are read back every so many heights (100)
    NoView,         \* the best view of a shard chain that holds none
    MaxHeight,      \* bound: height of the chain of every shard
    MaxCrashes,     \* bound: deaths of the process
    MarkUnreadable  \* whether reading the stored height may fail

ASSUME ConstantsAssumption ==
    /\ MaxHeight \in Nat \ {0} /\ MaxCrashes \in Nat
    /\ RestoreEvery \in Nat \ {0} /\ TxBlocks \subseteq 2..MaxHeight
    /\ MarkUnreadable \in BOOLEAN /\ NoView \notin Seq(Nat)

VARIABLES
    up,         \* whether the process runs
    crashes,    \* how often it died
    next,       \* the height the node delivers next to the callback of a shard
    pc,         \* where that callback is
    cur,        \* the height of its block
    state,      \* TransactionStateDB
    root,       \* TransactionStateDBRootHash of the best state of the shard
    view,       \* the transaction state the best state itself has open
    processed,  \* ShardProcessedState
    tries,      \* durable: the roots whose tries are committed
    views,      \* durable: the root in the backed up shard views
    stored,     \* durable: "coin-processed", 0 when absent
    skipped     \* history: heights whose block could not be read

memory == <<next, pc, cur, state, root, view, processed>>
disk == <<tries, views, stored>>
vars == <<up, crashes, memory, disk, skipped>>

Heights == 1..MaxHeight
Steps == {"idle", "called", "applied", "rooted", "backed", "marked", "emptied"}

TypeOK ==
    /\ up \in BOOLEAN /\ crashes \in 0..MaxCrashes
    /\ next \in [Shards -> 1..(MaxHeight + 1)]
    /\ pc \in [Shards -> Steps] /\ cur \in [Shards -> 0..MaxHeight]
    /\ state \in [Shards -> Seq(TxBlocks)] /\ root \in [Shards -> Seq(TxBlocks)]
    /\ view \in [Shards -> Seq(TxBlocks) \cup {NoView}]
    /\ processed \in [Shards -> 0..MaxHeight]
    /\ tries \in [Shards -> SUBSET Seq(TxBlocks)]
    /\ views \in [Shards -> Seq(TxBlocks)] /\ stored \in [Shards -> 0..MaxHeight]
    /\ skipped \in [Shards -> SUBSET Heights]
    /\ \A s \in Shards : pc[s] # "idle" => cur[s] \in Heights

\* A fresh database: the views of the genesis block, no height stored, and the
\* process not started yet.
Init ==
    /\ up = FALSE /\ crashes = 0
    /\ next = [s \in Shards |-> 1]
    /\ pc = [s \in Shards |-> "idle"] /\ cur = [s \in Shards |-> 0]
    /\ state = [s \in Shards |-> <<>>] /\ root = [s \in Shards |-> <<>>]
    /\ view = [s \in Shards |-> <<>>] /\ processed = [s \in Shards |-> 0]
    /\ tries = [s \in Shards |-> {<<>>}]
    /\ views = [s \in Shards |-> <<>>] /\ stored = [s \in Shards |-> 0]
    /\ skipped = [s \in Shards |-> {}]

-----------------------------------------------------------------------------
(* Start and end of the process. *)

\* The height to resume from; an error of the database counts as "absent".
Resume(s) ==
    IF stored[s] = 0 THEN {1} ELSE {stored[s]} \cup (IF MarkUnreadable THEN {1} ELSE {})

\* faults: the views are not loaded; the stored height is not used
Start_Genesis ==
    /\ ~up /\ up' = TRUE
    /\ processed' \in {p \in [Shards -> Heights] : \A s \in Shards : p[s] \in Resume(s)}
    /\ next' = processed'
    /\ state' = [s \in Shards |-> <<>>] /\ root' = state' /\ view' = state'
    /\ UNCHANGED <<crashes, pc, cur, disk, skipped>>
Start_FromOne ==
    /\ ~up /\ up' = TRUE
    /\ processed' = [s \in Shards |-> 1]
    /\ next' = processed'
    /\ state' = views /\ root' = views /\ view' = views
    /\ UNCHANGED <<crashes, pc, cur, disk, skipped>>

\* initCoinService: the states are opened from the views on disk and the
\* callbacks registered at the processed heights. The node may begin with that
\* height or with the one after it.
Start ==
    /\ ~up /\ up' = TRUE
    /\ processed' \in {p \in [Shards -> Heights] : \A s \in Shards : p[s] \in Resume(s)}
    /\ \E first \in {0, 1} : next' = [s \in Shards |-> processed'[s] + first]
    /\ state' = views /\ root' = views /\ view' = views
    /\ UNCHANGED <<crashes, pc, cur, disk, skipped>>

\* The process is stopped, panics on an error of the database, or is ended by
\* the runtime because two callbacks use the map TransactionStateDB at once:
\* coinservice.go:40 reads it without the lock that coinservice.go:83 writes it under.
Crash ==
    /\ up /\ crashes < MaxCrashes
    /\ up' = FALSE /\ crashes' = crashes + 1
    /\ pc' = [s \in Shards |-> "idle"] /\ cur' = [s \in Shards |-> 0]
    /\ UNCHANGED <<next, state, root, view, processed, disk, skipped>>

-----------------------------------------------------------------------------
(* OnNewShardBlock. *)

\* The node calls back, one block of a shard after the other.
Deliver(s) ==
    /\ up /\ pc[s] = "idle" /\ next[s] <= MaxHeight
    /\ cur' = [cur EXCEPT ![s] = next[s]]
    /\ next' = [next EXCEPT ![s] = @ + 1]
    /\ pc' = [pc EXCEPT ![s] = "called"]
    /\ UNCHANGED <<up, crashes, state, root, view, processed, disk, skipped>>

\* The block is not in the user database or does not parse: the callback
\* returns, and the node goes on with the next height.
Skip(s) ==
    /\ up /\ pc[s] = "called"
    /\ pc' = [pc EXCEPT ![s] = "idle"]
    /\ skipped' = [skipped EXCEPT ![s] = @ \cup {cur[s]}]
    /\ UNCHANGED <<up, crashes, next, cur, state, root, view, processed, disk>>

Apply(s) ==
    /\ up /\ pc[s] = "called"
    /\ state' = [state EXCEPT ![s] = IF cur[s] \in TxBlocks THEN Append(@, cur[s]) ELSE @]
    /\ pc' = [pc EXCEPT ![s] = "applied"]
    /\ UNCHANGED <<up, crashes, next, cur, root, view, processed, disk, skipped>>

\* faults: the trie stays in memory; the best state keeps its old root hash
CommitTrie_InMemory(s) ==
    /\ up /\ pc[s] = "applied"
    /\ root' = [root EXCEPT ![s] = state[s]]
    /\ pc' = [pc EXCEPT ![s] = "rooted"]
    /\ UNCHANGED <<up, crashes, next, cur, state, view, processed, disk, skipped>>
CommitTrie_OldRoot(s) ==
    /\ up /\ pc[s] = "applied"
    /\ tries' = [tries EXCEPT ![s] = @ \cup {state[s]}]
    /\ pc' = [pc EXCEPT ![s] = "rooted"]
    /\ UNCHANGED <<up, crashes, next, cur, state, root, view, processed, views, stored, skipped>>

\* The state is committed to its trie, the trie to disk, and the best state
\* gets the root hash.
CommitTrie(s) ==
    /\ up /\ pc[s] = "applied"
    /\ tries' = [tries EXCEPT ![s] = @ \cup {state[s]}]
    /\ root' = [root EXCEPT ![s] = state[s]]
    /\ pc' = [pc EXCEPT ![s] = "rooted"]
    /\ UNCHANGED <<up, crashes, next, cur, state, view, processed, views, stored, skipped>>

\* BackupShardViews into a batch, and one write of the batch.
BackupViews(s) ==
    /\ up /\ pc[s] = "rooted"
    /\ views' = [views EXCEPT ![s] = root[s]]
    /\ pc' = [pc EXCEPT ![s] = "backed"]
    /\ UNCHANGED <<up, crashes, next, cur, state, root, view, processed, tries, stored, skipped>>

\* faults: the views are never read back; the height stored is the one before,
\* the one after, or none
MarkProcessed_NoRestore(s) ==
    /\ up /\ pc[s] = "backed"
    /\ stored' = [stored EXCEPT ![s] = cur[s]]
    /\ processed' = [processed EXCEPT ![s] = cur[s]]
    /\ pc' = [pc EXCEPT ![s] = "idle"]
    /\ UNCHANGED <<up, crashes, next, cur, state, root, view, tries, views, skipped>>
MarkProcessed_Before(s) ==
    /\ up /\ pc[s] = "backed"
    /\ stored' = [stored EXCEPT ![s] = cur[s] - 1]
    /\ processed' = [processed EXCEPT ![s] = cur[s]]
    /\ pc' = [pc EXCEPT ![s] = IF cur[s] % RestoreEvery = 0 THEN "marked" ELSE "idle"]
    /\ UNCHANGED <<up, crashes, next, cur, state, root, view, tries, views, skipped>>
MarkProcessed_After(s) ==
    /\ up /\ pc[s] = "backed"
    /\ stored' = [stored EXCEPT ![s] = cur[s] + 1]
    /\ processed' = [processed EXCEPT ![s] = cur[s]]
    /\ pc' = [pc EXCEPT ![s] = IF cur[s] % RestoreEvery = 0 THEN "marked" ELSE "idle"]
    /\ UNCHANGED <<up, crashes, next, cur, state, root, view, tries, views, skipped>>
MarkProcessed_InMemory(s) ==
    /\ up /\ pc[s] = "backed"
    /\ stored' = [stored EXCEPT ![s] = @]
    /\ processed' = [processed EXCEPT ![s] = cur[s]]
    /\ pc' = [pc EXCEPT ![s] = IF cur[s] % RestoreEvery = 0 THEN "marked" ELSE "idle"]
    /\ UNCHANGED <<up, crashes, next, cur, state, root, view, tries, views, skipped>>

\* The height is stored, and kept in memory under stateLock.
MarkProcessed(s) ==
    /\ up /\ pc[s] = "backed"
    /\ stored' = [stored EXCEPT ![s] = cur[s]]
    /\ processed' = [processed EXCEPT ![s] = cur[s]]
    /\ pc' = [pc EXCEPT ![s] = IF cur[s] % RestoreEvery = 0 THEN "marked" ELSE "idle"]
    /\ UNCHANGED <<up, crashes, next, cur, state, root, view, tries, views, skipped>>

\* Every RestoreEvery heights the shard chain is replaced by one without views
NewShardChain(s) ==
    /\ up /\ pc[s] = "marked"
    /\ view' = [view EXCEPT ![s] = NoView]
    /\ pc' = [pc EXCEPT ![s] = "emptied"]
    /\ UNCHANGED <<up, crashes, next, cur, state, root, processed, disk, skipped>>

\* and filled from disk; the callback goes on with a copy of what that opens.
RestoreViews(s) ==
    /\ up /\ pc[s] = "emptied"
    /\ view' = [view EXCEPT ![s] = views[s]]
    /\ state' = [state EXCEPT ![s] = views[s]]
    /\ root' = [root EXCEPT ![s] = views[s]]
    /\ pc' = [pc EXCEPT ![s] = "idle"]
    /\ UNCHANGED <<up, crashes, next, cur, processed, disk, skipped>>

Read(s) == Skip(s) \/ Apply(s)
Persist(s) == CommitTrie(s) \/ BackupViews(s) \/ MarkProcessed(s)
Reload(s) == NewShardChain(s) \/ RestoreViews(s)
Callback(s) == Deliver(s) \/ Read(s) \/ Persist(s) \/ Reload(s)

Next == Start \/ Crash \/ \E s \in Shards : Callback(s)

\* The daemon is started again when it died, and the goroutine of each shard
\* gets its turn. Nothing forces a crash, nor a block to be readable.
Spec == Init /\ [][Next]_vars
FairSpec == Spec /\ WF_vars(Start) /\ \A s \in Shards : WF_vars(Callback(s))

-----------------------------------------------------------------------------
(* Properties. *)

\* GetCoins: the heights whose coins an account is shown, those of the state
\* the best state has open; there is none while the chain is being replaced.
HasBestState(s) == view[s] # NoView
ShownHeights(s) == ToSet(view[s])

\* The views on disk always name a trie that is on disk, so that
\* RestoreShardViews and a restart find their state at any moment.
Restorable == \A s \in Shards : views[s] \in tries[s]

\* The stored height never runs ahead of the state: every block up to it that
\* could be read has its coins in the views a restart will load.
MarkIsBacked ==
    \A s \in Shards : \A h \in TxBlocks \ skipped[s] :
        h <= stored[s] => h \in ToSet(views[s])

\* Nor far behind it: at most one block is in the views but not marked, so that
\* a restart repeats at most that one. (A block that was skipped and can be read
\* after the restart is a second one.)
OneBlockAhead ==
    \A s \in Shards :
        Cardinality({h \in ToSet(views[s]) \ skipped[s] : h > stored[s]}) <= 1

\* A block is applied again only after a restart, and then at most two of them:
\* the marked one and the one that was backed up but not marked.
RepeatsAreRestarts ==
    \A s \in Shards : Len(state[s]) - Cardinality(ToSet(state[s])) <= 2 * crashes

\* Reading the views back every RestoreEvery heights changes nothing: the state
\* the callbacks continue from is the one they wrote.
RestoreKeepsState == [][up /\ up' => \A s \in Shards : RestoreViews(s) => UNCHANGED state]_vars

\* A coin that is processed is shown after at most RestoreEvery heights, unless
\* the block at which the views are read back was among those skipped.
ShownInTime ==
    \A s \in Shards : up /\ HasBestState(s) =>
        \A h \in ToSet(state[s]) \ ShownHeights(s) :
            \A r \in Heights : h <= r /\ r <= processed[s] /\ r % RestoreEvery = 0
                                 => r \in skipped[s] \/ (r = processed[s] /\ pc[s] = "marked")

\* The daemon catches up with the chain whatever crashes and unreadable blocks
\* it meets on the way.
CatchesUp ==
    \A s \in Shards : <>[](stored[s] = MaxHeight \/ MaxHeight \in skipped[s])

-----------------------------------------------------------------------------
(* The inductive invariant behind Restorable and MarkIsBacked.              *)

\* A state that holds every readable block of a shard up to a height.
Covers(log, s, height) ==
    \A h \in TxBlocks \ skipped[s] : h <= height => h \in ToSet(log)

\* What is on disk, and what the callback has in memory at each of its steps.
ShardInv(s) ==
    /\ views[s] \in tries[s]
    /\ Covers(views[s], s, stored[s])
    /\ up => Covers(state[s], s, stored[s])
    /\ pc[s] # "idle" => up /\ next[s] = cur[s] + 1
    /\ up /\ pc[s] = "idle" => Covers(state[s], s, next[s] - 1)
    /\ pc[s] = "called" => Covers(state[s], s, cur[s] - 1)
    /\ pc[s] \in Steps \ {"idle", "called"} => Covers(state[s], s, cur[s])
    /\ pc[s] = "rooted" => root[s] = state[s] /\ root[s] \in tries[s]
    /\ pc[s] \in {"backed", "marked", "emptied"} => Covers(views[s], s, cur[s])

\* At any step of any callback a restart would find a complete state.
DiskInv == \A s \in Shards : ShardInv(s)
=============================================================================
