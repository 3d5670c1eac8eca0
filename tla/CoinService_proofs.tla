------------------------- MODULE CoinService_proofs -------------------------
(***************************************************************************)
(* Proofs about CoinService, for any shards, any chain and any number of   *)
(* crashes: what is on disk can be opened and holds every block the stored *)
(* height claims, reading the views back changes nothing, and accounts are *)
(* shown what was processed, whether or not the stored height can be read. *)
(* Where it can, at most one block is in the views and not marked, and a   *)
(* crash lets at most two blocks be applied again.                         *)
(***************************************************************************)
EXTENDS CoinService, FiniteSetTheorems, TLAPS

\* Appending a height adds it to the heights a state holds, and no other.
LEMMA AppendHolds ==
    ASSUME NEW T, NEW log \in Seq(T), NEW h \in T
    PROVE  ToSet(Append(log, h)) = ToSet(log) \cup {h}
<1>1. ASSUME NEW x \in ToSet(Append(log, h)) PROVE x \in ToSet(log) \cup {h}
  BY DEF ToSet
<1>2. ASSUME NEW x \in ToSet(log) PROVE x \in ToSet(Append(log, h))
  <2>1. PICK i \in DOMAIN log : x = log[i]
    BY DEF ToSet
  <2>2. i \in DOMAIN Append(log, h) /\ Append(log, h)[i] = x
    BY <2>1
  <2> QED BY <2>2 DEF ToSet
<1>3. h \in ToSet(Append(log, h))
  <2>1. Len(log) + 1 \in DOMAIN Append(log, h) /\ Append(log, h)[Len(log) + 1] = h
    OBVIOUS
  <2> QED BY <2>1 DEF ToSet
<1> QED BY <1>1, <1>2, <1>3

\* Where a restart may resume.
LEMMA ResumeHeights ==
    ASSUME TypeOK, NEW s \in Shards
    PROVE  /\ Resume(s) \subseteq Heights
           /\ \A h \in Resume(s) : h <= stored[s] \/ h = 1
BY ConstantsAssumption DEF TypeOK, Resume, Heights

-----------------------------------------------------------------------------
(* Types. *)

LEMMA InitType == ASSUME Init PROVE TypeOK
<1>1. \A T : <<>> \in Seq(T)
  OBVIOUS
<1>2. /\ \A c \in {state, root, view, views} : c = [s \in Shards |-> <<>>]
      /\ tries = [s \in Shards |-> {<<>>}] /\ skipped = [s \in Shards |-> {}]
  BY DEF Init
<1>3. /\ \A c \in {state, root, view, views} : c \in [Shards -> Seq(TxBlocks)]
      /\ tries \in [Shards -> SUBSET Seq(TxBlocks)] /\ skipped \in [Shards -> SUBSET Heights]
  BY <1>1, <1>2
<1>4. view \in [Shards -> Seq(TxBlocks) \cup {NoView}]
  BY <1>1, <1>2
<1>5. /\ next \in [Shards -> 1..(MaxHeight + 1)] /\ cur \in [Shards -> 0..MaxHeight]
      /\ processed \in [Shards -> 0..MaxHeight] /\ stored \in [Shards -> 0..MaxHeight]
      /\ crashes \in 0..MaxCrashes
  BY ConstantsAssumption DEF Init
<1>6. /\ up \in BOOLEAN /\ pc \in [Shards -> Steps]
      /\ \A s \in Shards : pc[s] # "idle" => cur[s] \in Heights
  BY DEF Init, Steps
<1> QED BY <1>3, <1>4, <1>5, <1>6 DEF TypeOK

\* Every step keeps the variables in their types, whatever the chain is.
LEMMA StepType == ASSUME TypeOK, [Next]_vars PROVE TypeOK'
<1>1. CASE Start
  <2>1. /\ processed' \in [Shards -> Heights]
        /\ \E first \in {0, 1} : next' = [s \in Shards |-> processed'[s] + first]
    BY <1>1 DEF Start
  <2>2. next' \in [Shards -> 1..(MaxHeight + 1)] /\ processed' \in [Shards -> 0..MaxHeight]
    BY <2>1, ConstantsAssumption DEF Heights
  <2>3. state' = views /\ root' = views /\ view' = views /\ UNCHANGED <<crashes, pc, cur>>
        /\ up' = TRUE /\ UNCHANGED <<tries, views, stored, skipped>>
    BY <1>1 DEF Start, disk
  <2>4. view' \in [Shards -> Seq(TxBlocks) \cup {NoView}]
    BY <2>3 DEF TypeOK
  <2> QED BY <2>2, <2>3, <2>4 DEF TypeOK
<1>2. CASE Crash
  <2>1. /\ pc' = [s \in Shards |-> "idle"] /\ cur' = [s \in Shards |-> 0]
        /\ up' = FALSE /\ crashes' = crashes + 1 /\ crashes < MaxCrashes
        /\ UNCHANGED <<next, state, root, view, processed, tries, views, stored, skipped>>
    BY <1>2 DEF Crash, disk
  <2>2. /\ pc' \in [Shards -> Steps] /\ cur' \in [Shards -> 0..MaxHeight]
        /\ \A s \in Shards : pc'[s] = "idle"
    BY <2>1, ConstantsAssumption DEF Steps
  <2>3. crashes' \in 0..MaxCrashes
    BY <2>1, ConstantsAssumption DEF TypeOK
  <2>4. up' \in BOOLEAN
    BY <2>1
  <2> QED BY <2>1, <2>2, <2>3, <2>4 DEF TypeOK
<1>3. ASSUME NEW s \in Shards, Callback(s) PROVE TypeOK'
  <2>1. CASE Deliver(s)
    BY <2>1, ConstantsAssumption DEF TypeOK, Deliver, Steps, Heights, disk
  <2>2. CASE Skip(s)
    BY <2>2 DEF TypeOK, Skip, Steps, Heights, disk
  <2>3. CASE Apply(s)
    BY <2>3 DEF TypeOK, Apply, Steps, Heights, disk
  <2>4. CASE CommitTrie(s)
    BY <2>4 DEF TypeOK, CommitTrie, Steps, Heights
  <2>5. CASE BackupViews(s)
    BY <2>5 DEF TypeOK, BackupViews, Steps, Heights
  <2>6. CASE MarkProcessed(s)
    BY <2>6 DEF TypeOK, MarkProcessed, Steps, Heights
  <2>7. CASE NewShardChain(s)
    BY <2>7 DEF TypeOK, NewShardChain, Steps, Heights, disk
  <2>8. CASE RestoreViews(s)
    BY <2>8 DEF TypeOK, RestoreViews, Steps, Heights, disk
  <2> QED BY <1>3, <2>1, <2>2, <2>3, <2>4, <2>5, <2>6, <2>7, <2>8
          DEF Callback, Read, Persist, Reload
<1>4. CASE UNCHANGED vars
  BY <1>4 DEF TypeOK, vars, memory, disk
<1> QED BY <1>1, <1>2, <1>3, <1>4 DEF Next

\* The variables of the daemon keep their types.
THEOREM TypeCorrect == Spec => []TypeOK
BY InitType, StepType, PTL DEF Spec

-----------------------------------------------------------------------------
(* The state on disk. *)

LEMMA InitDisk == ASSUME Init PROVE DiskInv
<1> SUFFICES ASSUME NEW s \in Shards PROVE ShardInv(s)
  BY DEF DiskInv
<1>1. /\ views[s] = <<>> /\ tries[s] = {<<>>} /\ stored[s] = 0
      /\ up = FALSE /\ pc[s] = "idle"
  BY DEF Init
<1>2. Covers(views[s], s, stored[s])
  BY <1>1, ConstantsAssumption DEF Covers
<1> QED BY <1>1, <1>2 DEF ShardInv, Steps

\* A step of the callback of one shard leaves the others alone.
LEMMA OtherShard ==
    ASSUME NEW s \in Shards, ShardInv(s), up' = up, next'[s] = next[s], pc'[s] = pc[s],
           cur'[s] = cur[s], state'[s] = state[s], root'[s] = root[s],
           tries'[s] = tries[s], views'[s] = views[s], stored'[s] = stored[s],
           skipped'[s] = skipped[s]
    PROVE  ShardInv(s)'
BY DEF ShardInv, Covers

\* A restart resumes where the views it loads are complete.
LEMMA StartDisk == ASSUME TypeOK, DiskInv, Start PROVE DiskInv'
<1> SUFFICES ASSUME NEW s \in Shards PROVE ShardInv(s)'
  BY DEF DiskInv
<1>1. /\ state'[s] = views[s] /\ up' = TRUE /\ ~up
      /\ UNCHANGED <<pc, cur, tries, views, stored, skipped>>
  BY DEF Start, disk
<1>2. ShardInv(s) /\ pc[s] = "idle"
  BY <1>1 DEF DiskInv, ShardInv
<1>3. /\ processed' \in [Shards -> Heights] /\ processed'[s] \in Resume(s)
      /\ \E first \in {0, 1} : next' = [t \in Shards |-> processed'[t] + first]
  BY DEF Start
<1>4. PICK first \in {0, 1} : next'[s] = processed'[s] + first
  BY <1>3
<1>5. /\ processed'[s] \in Nat /\ stored[s] \in Nat
      /\ processed'[s] <= stored[s] \/ processed'[s] = 1
  <2>1. stored[s] \in Nat
    BY ConstantsAssumption DEF TypeOK
  <2>2. PICK p : p = processed'[s] /\ p \in Heights /\ p \in Resume(s)
    BY <1>3
  <2>3. p <= stored[s] \/ p = 1
    BY <2>2, ResumeHeights
  <2> QED BY <2>1, <2>2, <2>3 DEF Heights
<1>6. \A h \in TxBlocks \ skipped[s] : h <= next'[s] - 1 => h \in ToSet(views[s])
  <2> SUFFICES ASSUME NEW h \in TxBlocks \ skipped[s], h <= next'[s] - 1
               PROVE  h \in ToSet(views[s])
    OBVIOUS
  <2>1. h \in Nat /\ h >= 2
    BY ConstantsAssumption
  <2>2. h <= stored[s]
    BY <1>4, <1>5, <2>1
  <2> QED BY <1>2, <2>2 DEF ShardInv, Covers
<1> QED BY <1>1, <1>2, <1>6 DEF ShardInv, Covers, Steps

\* A death leaves nothing but the disk.
LEMMA CrashDisk == ASSUME TypeOK, DiskInv, Crash PROVE DiskInv'
<1> SUFFICES ASSUME NEW s \in Shards PROVE ShardInv(s)'
  BY DEF DiskInv
<1>1. /\ up' = FALSE /\ pc'[s] = "idle"
      /\ UNCHANGED <<tries, views, stored, skipped>>
  BY DEF Crash, disk
<1> QED BY <1>1 DEF DiskInv, ShardInv, Covers, Steps

\* Each step of a callback keeps the disk complete, and the memory ahead of it.
LEMMA CallbackDisk ==
    ASSUME TypeOK, DiskInv, NEW s \in Shards, Callback(s) PROVE DiskInv'
<1>1. ASSUME NEW t \in Shards, t # s PROVE ShardInv(t)'
  <2>1. ShardInv(t)
    BY DEF DiskInv
  <2>2. /\ up' = up /\ next'[t] = next[t] /\ pc'[t] = pc[t] /\ cur'[t] = cur[t]
        /\ state'[t] = state[t] /\ root'[t] = root[t] /\ tries'[t] = tries[t]
        /\ views'[t] = views[t] /\ stored'[t] = stored[t] /\ skipped'[t] = skipped[t]
    <3>1. CASE Deliver(s)
      BY <1>1, <3>1 DEF TypeOK, Deliver, disk
    <3>2. CASE Skip(s)
      BY <1>1, <3>2 DEF TypeOK, Skip, disk
    <3>3. CASE Apply(s)
      BY <1>1, <3>3 DEF TypeOK, Apply, disk
    <3>4. CASE CommitTrie(s)
      BY <1>1, <3>4 DEF TypeOK, CommitTrie
    <3>5. CASE BackupViews(s)
      BY <1>1, <3>5 DEF TypeOK, BackupViews
    <3>6. CASE MarkProcessed(s)
      BY <1>1, <3>6 DEF TypeOK, MarkProcessed
    <3>7. CASE NewShardChain(s)
      BY <1>1, <3>7 DEF TypeOK, NewShardChain, disk
    <3>8. CASE RestoreViews(s)
      BY <1>1, <3>8 DEF TypeOK, RestoreViews, disk
    <3> QED BY <3>1, <3>2, <3>3, <3>4, <3>5, <3>6, <3>7, <3>8
            DEF Callback, Read, Persist, Reload
  <2> QED BY <2>1, <2>2, OtherShard
<1>2. ShardInv(s)'
  <2> USE DEF ShardInv, Covers
  <2>1. ShardInv(s)
    BY DEF DiskInv
  <2>2. /\ next[s] \in Nat /\ cur[s] \in Nat /\ stored[s] \in Nat
        /\ \A h \in TxBlocks : h \in Nat
    BY ConstantsAssumption DEF TypeOK, Heights
  <2>3. CASE Deliver(s)
    <3>1. /\ up' = up /\ up /\ pc[s] = "idle" /\ pc'[s] = "called"
          /\ cur'[s] = next[s] /\ next'[s] = next[s] + 1
          /\ UNCHANGED <<state, tries, views, stored, skipped>>
      BY <2>3 DEF TypeOK, Deliver, disk
    <3> QED BY <2>1, <2>2, <3>1
  <2>4. CASE Skip(s)
    <3>1. /\ up' = up /\ up /\ pc[s] = "called" /\ pc'[s] = "idle"
          /\ skipped'[s] = skipped[s] \cup {cur[s]}
          /\ UNCHANGED <<next, cur, state, tries, views, stored>>
      BY <2>4 DEF TypeOK, Skip, disk
    <3>2. \A h \in TxBlocks \ skipped'[s] : h <= next[s] - 1 => h <= cur[s] - 1
      BY <2>1, <2>2, <3>1
    <3> QED BY <2>1, <2>2, <3>1, <3>2
  <2>5. CASE Apply(s)
    <3>1. /\ up' = up /\ up /\ pc[s] = "called" /\ pc'[s] = "applied"
          /\ state'[s] = IF cur[s] \in TxBlocks THEN Append(state[s], cur[s]) ELSE state[s]
          /\ UNCHANGED <<next, cur, tries, views, stored, skipped>>
      BY <2>5 DEF TypeOK, Apply, disk
    <3>2. ToSet(state[s]) \subseteq ToSet(state'[s])
          /\ (cur[s] \in TxBlocks => cur[s] \in ToSet(state'[s]))
      BY <3>1, AppendHolds DEF TypeOK
    <3>3. \A h \in TxBlocks \ skipped[s] : h <= cur[s] => h \in ToSet(state'[s])
      BY <2>1, <2>2, <3>1, <3>2
    <3> QED BY <2>1, <2>2, <3>1, <3>2, <3>3
  <2>6. CASE CommitTrie(s)
    <3>1. /\ up' = up /\ up /\ pc[s] = "applied" /\ pc'[s] = "rooted"
          /\ tries'[s] = tries[s] \cup {state[s]} /\ root'[s] = state[s]
          /\ UNCHANGED <<next, cur, state, views, stored, skipped>>
      BY <2>6 DEF TypeOK, CommitTrie
    <3> QED BY <2>1, <2>2, <3>1 DEF Steps
  <2>7. CASE BackupViews(s)
    <3>1. /\ up' = up /\ up /\ pc[s] = "rooted" /\ pc'[s] = "backed"
          /\ views'[s] = root[s]
          /\ UNCHANGED <<next, cur, state, root, tries, stored, skipped>>
      BY <2>7 DEF TypeOK, BackupViews
    <3> QED BY <2>1, <2>2, <3>1 DEF Steps
  <2>8. CASE MarkProcessed(s)
    <3>1. /\ up' = up /\ up /\ pc[s] = "backed" /\ pc'[s] \in {"marked", "idle"}
          /\ stored'[s] = cur[s]
          /\ UNCHANGED <<next, cur, state, root, tries, views, skipped>>
      BY <2>8 DEF TypeOK, MarkProcessed
    <3> QED BY <2>1, <2>2, <3>1 DEF Steps
  <2>9. CASE NewShardChain(s)
    <3>1. /\ up' = up /\ up /\ pc[s] = "marked" /\ pc'[s] = "emptied"
          /\ UNCHANGED <<next, cur, state, root, tries, views, stored, skipped>>
      BY <2>9 DEF TypeOK, NewShardChain, disk
    <3> QED BY <2>1, <2>2, <3>1 DEF Steps
  <2>10. CASE RestoreViews(s)
    <3>1. /\ up' = up /\ up /\ pc[s] = "emptied" /\ pc'[s] = "idle"
          /\ state'[s] = views[s]
          /\ UNCHANGED <<next, cur, tries, views, stored, skipped>>
      BY <2>10 DEF TypeOK, RestoreViews, disk
    <3> QED BY <2>1, <2>2, <3>1 DEF Steps
  <2> QED BY <2>3, <2>4, <2>5, <2>6, <2>7, <2>8, <2>9, <2>10
          DEF Callback, Read, Persist, Reload
<1> QED BY <1>1, <1>2 DEF DiskInv

LEMMA StepDisk == ASSUME TypeOK, DiskInv, [Next]_vars PROVE DiskInv'
<1>1. CASE UNCHANGED vars
  BY <1>1 DEF DiskInv, ShardInv, Covers, vars, memory, disk
<1> QED BY <1>1, StartDisk, CrashDisk, CallbackDisk DEF Next

\* Whatever step the daemon dies in, disk and memory agree as DiskInv says.
THEOREM DiskComplete == Spec => []DiskInv
<1>1. Init => TypeOK /\ DiskInv
  BY InitType, InitDisk
<1>2. TypeOK /\ DiskInv /\ [Next]_vars => (TypeOK /\ DiskInv)'
  BY StepType, StepDisk
<1> QED BY <1>1, <1>2, PTL DEF Spec

\* RestoreShardViews and a restart always find the trie of the views on disk.
THEOREM ViewsRestorable == Spec => []Restorable
<1>1. DiskInv => Restorable
  BY DEF DiskInv, ShardInv, Restorable
<1> QED BY <1>1, DiskComplete, PTL

\* The stored height never claims a readable block that the views do not hold.
THEOREM MarkNeverAhead == Spec => []MarkIsBacked
<1>1. DiskInv => MarkIsBacked
  BY DEF DiskInv, ShardInv, Covers, MarkIsBacked
<1> QED BY <1>1, DiskComplete, PTL

-----------------------------------------------------------------------------
(* Steps of one shard. *)

\* What a step of the callback of a shard does to that shard.
Effect(s) ==
    \/ /\ pc[s] = "idle" /\ pc'[s] = "called" /\ next[s] \in Heights
       /\ cur'[s] = next[s] /\ next'[s] = next[s] + 1
       /\ UNCHANGED <<state, root, view, processed, tries, views, stored, skipped>>
    \/ /\ pc[s] = "called" /\ pc'[s] = "idle" /\ skipped'[s] = skipped[s] \cup {cur[s]}
       /\ UNCHANGED <<next, cur, state, root, view, processed, tries, views, stored>>
    \/ /\ pc[s] = "called" /\ pc'[s] = "applied"
       /\ state'[s] = IF cur[s] \in TxBlocks THEN Append(state[s], cur[s]) ELSE state[s]
       /\ UNCHANGED <<next, cur, root, view, processed, tries, views, stored, skipped>>
    \/ /\ pc[s] = "applied" /\ pc'[s] = "rooted" /\ root'[s] = state[s]
       /\ UNCHANGED <<next, cur, state, view, processed, views, stored, skipped>>
    \/ /\ pc[s] = "rooted" /\ pc'[s] = "backed" /\ views'[s] = root[s]
       /\ UNCHANGED <<next, cur, state, root, view, processed, tries, stored, skipped>>
    \/ /\ pc[s] = "backed" /\ stored'[s] = cur[s] /\ processed'[s] = cur[s]
       /\ pc'[s] = IF cur[s] % RestoreEvery = 0 THEN "marked" ELSE "idle"
       /\ UNCHANGED <<next, cur, state, root, view, tries, views, skipped>>
    \/ /\ pc[s] = "marked" /\ pc'[s] = "emptied" /\ view'[s] = NoView
       /\ UNCHANGED <<next, cur, state, root, processed, tries, views, stored, skipped>>
    \/ /\ pc[s] = "emptied" /\ pc'[s] = "idle" /\ view'[s] = views[s]
       /\ state'[s] = views[s] /\ root'[s] = views[s]
       /\ UNCHANGED <<next, cur, processed, tries, views, stored, skipped>>

LEMMA CallbackEffect ==
    ASSUME TypeOK, NEW s \in Shards, Callback(s)
    PROVE  up /\ up' = up /\ crashes' = crashes /\ Effect(s)
<1>1. CASE Deliver(s)
  BY <1>1 DEF TypeOK, Deliver, Effect, disk, Heights
<1>2. CASE Skip(s)
  BY <1>2 DEF TypeOK, Skip, Effect, disk
<1>3. CASE Apply(s)
  BY <1>3 DEF TypeOK, Apply, Effect, disk
<1>4. CASE CommitTrie(s)
  BY <1>4 DEF TypeOK, CommitTrie, Effect
<1>5. CASE BackupViews(s)
  BY <1>5 DEF TypeOK, BackupViews, Effect
<1>6. CASE MarkProcessed(s)
  BY <1>6 DEF TypeOK, MarkProcessed, Effect
<1>7. CASE NewShardChain(s)
  BY <1>7 DEF TypeOK, NewShardChain, Effect, disk
<1>8. CASE RestoreViews(s)
  BY <1>8 DEF TypeOK, RestoreViews, Effect, disk
<1> QED BY <1>1, <1>2, <1>3, <1>4, <1>5, <1>6, <1>7, <1>8 DEF Callback, Read, Persist, Reload

\* Nothing of shard t changes.
Still(t) ==
    /\ next'[t] = next[t] /\ pc'[t] = pc[t] /\ cur'[t] = cur[t]
    /\ state'[t] = state[t] /\ root'[t] = root[t] /\ view'[t] = view[t]
    /\ processed'[t] = processed[t] /\ tries'[t] = tries[t] /\ views'[t] = views[t]
    /\ stored'[t] = stored[t] /\ skipped'[t] = skipped[t]

LEMMA CallbackStill ==
    ASSUME TypeOK, NEW s \in Shards, Callback(s), NEW t \in Shards, t # s
    PROVE  Still(t)
<1>1. CASE Deliver(s)
  BY <1>1 DEF TypeOK, Deliver, Still, disk
<1>2. CASE Skip(s)
  BY <1>2 DEF TypeOK, Skip, Still, disk
<1>3. CASE Apply(s)
  BY <1>3 DEF TypeOK, Apply, Still, disk
<1>4. CASE CommitTrie(s)
  BY <1>4 DEF TypeOK, CommitTrie, Still
<1>5. CASE BackupViews(s)
  BY <1>5 DEF TypeOK, BackupViews, Still
<1>6. CASE MarkProcessed(s)
  BY <1>6 DEF TypeOK, MarkProcessed, Still
<1>7. CASE NewShardChain(s)
  BY <1>7 DEF TypeOK, NewShardChain, Still, disk
<1>8. CASE RestoreViews(s)
  BY <1>8 DEF TypeOK, RestoreViews, Still, disk
<1> QED BY <1>1, <1>2, <1>3, <1>4, <1>5, <1>6, <1>7, <1>8 DEF Callback, Read, Persist, Reload

\* What a start and a death of the process do to a shard.
LEMMA StartEffect ==
    ASSUME TypeOK, DiskInv, Start, NEW s \in Shards
    PROVE  /\ ~up /\ up' = TRUE /\ crashes' = crashes /\ pc[s] = "idle" /\ pc'[s] = "idle"
           /\ state'[s] = views[s] /\ root'[s] = views[s] /\ view'[s] = views[s]
           /\ processed'[s] \in Heights /\ processed'[s] \in Resume(s)
           /\ next'[s] \in {processed'[s], processed'[s] + 1}
           /\ UNCHANGED <<views, stored, skipped>>
<1>1. ~up /\ up' = TRUE /\ UNCHANGED <<crashes, pc, views, stored, skipped>>
      /\ state' = views /\ root' = views /\ view' = views
  BY DEF Start, disk
<1>2. pc[s] = "idle"
  BY <1>1 DEF DiskInv, ShardInv
<1>3. /\ processed' \in [Shards -> Heights] /\ processed'[s] \in Resume(s)
      /\ \E first \in {0, 1} : next' = [t \in Shards |-> processed'[t] + first]
  BY DEF Start
<1>4. processed'[s] \in Heights /\ processed'[s] \in Nat
  BY <1>3 DEF Heights
<1>5. next'[s] \in {processed'[s], processed'[s] + 1}
  BY <1>3, <1>4
<1> QED BY <1>1, <1>2, <1>3, <1>4, <1>5

LEMMA CrashEffect ==
    ASSUME TypeOK, Crash, NEW s \in Shards
    PROVE  /\ up' = FALSE /\ crashes' = crashes + 1 /\ pc'[s] = "idle"
           /\ UNCHANGED <<state, root, view, views, stored, skipped>>
BY DEF Crash, disk

-----------------------------------------------------------------------------
(* Reading the views back. *)

\* From the backup of the views to the end of the callback they hold the state.
RestoreInv(s) == pc[s] \in {"backed", "marked", "emptied"} => views[s] = state[s]

BackupInv == \A s \in Shards : RestoreInv(s)

LEMMA StepBackup == ASSUME TypeOK, DiskInv, BackupInv, [Next]_vars PROVE BackupInv'
<1> SUFFICES ASSUME NEW t \in Shards PROVE RestoreInv(t)'
  BY DEF BackupInv
<1>0. RestoreInv(t)
  BY DEF BackupInv
<1>1. CASE Start
  BY <1>1, StartEffect DEF RestoreInv
<1>2. CASE Crash
  BY <1>2, CrashEffect DEF RestoreInv
<1>3. ASSUME NEW s \in Shards, Callback(s) PROVE RestoreInv(t)'
  <2>1. CASE t = s
    <3>1. Effect(t)
      BY <1>3, <2>1, CallbackEffect
    <3>2. pc[t] = "rooted" => root[t] = state[t]
      BY DEF DiskInv, ShardInv
    <3> QED BY <1>0, <3>1, <3>2 DEF Effect, RestoreInv
  <2>2. CASE t # s
    <3>1. Still(t)
      BY <1>3, <2>2, CallbackStill
    <3> QED BY <1>0, <3>1 DEF Still, RestoreInv
  <2> QED BY <2>1, <2>2
<1>4. CASE UNCHANGED vars
  BY <1>0, <1>4 DEF RestoreInv, vars, memory, disk
<1> QED BY <1>1, <1>2, <1>3, <1>4 DEF Next

\* Whatever restarts came before, the views that were backed up last are the
\* state of the callback until it ends.
THEOREM ViewsHoldState == Spec => []BackupInv
<1>1. Init => BackupInv
  BY DEF Init, BackupInv, RestoreInv
<1>2. TypeOK /\ DiskInv /\ BackupInv /\ [Next]_vars => BackupInv'
  BY StepBackup
<1> QED BY <1>1, <1>2, TypeCorrect, DiskComplete, PTL DEF Spec

\* Reading the views back does not change the state the callbacks continue from.
THEOREM RestoreIsIdentity == Spec => RestoreKeepsState
<1>1. ASSUME TypeOK, BackupInv, NEW s \in Shards, RestoreViews(s) PROVE UNCHANGED state
  <2>1. pc[s] = "emptied" /\ state' = [state EXCEPT ![s] = views[s]]
    BY <1>1 DEF RestoreViews
  <2>2. views[s] = state[s]
    BY <1>1, <2>1 DEF BackupInv, RestoreInv
  <2> QED BY <1>1, <2>1, <2>2 DEF TypeOK
<1>2. TypeOK /\ BackupInv /\ [Next]_vars =>
         [up /\ up' => \A s \in Shards : RestoreViews(s) => UNCHANGED state]_vars
  BY <1>1
<1> QED BY <1>2, TypeCorrect, ViewsHoldState, PTL DEF Spec, RestoreKeepsState

-----------------------------------------------------------------------------
(* What an account is shown. *)

\* Every height between the two was skipped.
AllSkipped(s, low, top) == \A h \in Heights : low < h /\ h < top => h \in skipped[s]

\* Heights h and r of ShownInTime.
Late(s, h, r) ==
    /\ h <= r /\ r <= processed[s] /\ r % RestoreEvery = 0
    /\ r \notin skipped[s] /\ ~(r = processed[s] /\ pc[s] = "marked")

\* The processed height is delivered again.
AtProcessed(s) ==
    \/ pc[s] = "idle" /\ next[s] = processed[s]
    \/ pc[s] = "called" /\ cur[s] = processed[s]

\* The callback is at the processed height, or before the one after it; between
\* it and the processed height there are skipped heights only. A height that is
\* delivered again after a restart is in the views the restart loaded.
ShownInv(s) ==
    /\ up => processed[s] \in Heights
    /\ up /\ pc[s] = "idle" =>
          processed[s] <= next[s] /\ AllSkipped(s, processed[s], next[s])
    /\ pc[s] # "idle" => processed[s] <= cur[s] /\ AllSkipped(s, processed[s], cur[s])
    /\ pc[s] \in {"marked", "emptied"} => processed[s] = cur[s]
    /\ up /\ HasBestState(s) =>
          /\ AtProcessed(s) => Covers(view[s], s, processed[s])
          /\ \A h \in ToSet(state[s]) \ ShownHeights(s), r \in Heights : ~Late(s, h, r)
ShowInv == \A s \in Shards : ShownInv(s)

LEMMA StillShown ==
    ASSUME NEW s \in Shards, ShownInv(s), up' = up, Still(s) PROVE ShownInv(s)'
BY DEF ShownInv, Still, AllSkipped, Late, AtProcessed, Covers, HasBestState, ShownHeights

\* After a restart everything there is, is shown.
LEMMA StartShown ==
    ASSUME TypeOK, DiskInv, Start, NEW s \in Shards PROVE ShownInv(s)'
<1>1. /\ up' = TRUE /\ pc[s] = "idle" /\ pc'[s] = "idle"
      /\ state'[s] = views[s] /\ view'[s] = views[s]
      /\ next'[s] \in {processed'[s], processed'[s] + 1}
      /\ UNCHANGED <<views, stored, skipped>>
  BY StartEffect
<1>2. PICK p : p = processed'[s] /\ p \in Heights /\ p \in Resume(s)
  BY StartEffect
<1>3. p \in Nat /\ (p <= stored[s] \/ p = 1) /\ stored[s] \in Nat
  <2>1. stored[s] \in Nat
    BY ConstantsAssumption DEF TypeOK
  <2>2. p <= stored[s] \/ p = 1
    BY <1>2, ResumeHeights
  <2> QED BY <1>2, <2>1, <2>2 DEF Heights
<1>4. Covers(views[s], s, p)
  <2>1. Covers(views[s], s, stored[s])
    BY DEF DiskInv, ShardInv
  <2>2. \A h \in TxBlocks : h \in Nat /\ h >= 2
    BY ConstantsAssumption
  <2> QED BY <1>3, <2>1, <2>2 DEF Covers
<1>5. /\ processed'[s] <= next'[s]
      /\ \A h \in Heights : ~(processed'[s] < h /\ h < next'[s])
  BY <1>1, <1>2, <1>3 DEF Heights
<1> QED BY <1>1, <1>2, <1>4, <1>5 DEF ShownInv, AllSkipped, AtProcessed, Covers, ShownHeights

\* A step of the callback.
LEMMA CallbackShown ==
    ASSUME TypeOK, DiskInv, BackupInv, NEW s \in Shards, ShownInv(s), Callback(s)
    PROVE  ShownInv(s)'
<1>1. up /\ up' = up /\ Effect(s)
  BY CallbackEffect
<1>2. /\ processed[s] \in Heights /\ next[s] \in Nat /\ cur[s] \in Nat /\ processed[s] \in Nat
      /\ pc[s] # "idle" => next[s] = cur[s] + 1 /\ cur[s] \in Heights
  BY <1>1, ConstantsAssumption DEF TypeOK, ShownInv, DiskInv, ShardInv, Heights
<1>3. \A h \in Heights : h \in Nat
  BY DEF Heights
<1>4. CASE pc[s] = "idle"
  <2>1. /\ pc'[s] = "called" /\ cur'[s] = next[s]
        /\ UNCHANGED <<state, view, processed, skipped>>
    BY <1>1, <1>4 DEF Effect
  <2>2. HasBestState(s)' = HasBestState(s) /\ ShownHeights(s)' = ShownHeights(s)
    BY <2>1 DEF HasBestState, ShownHeights
  <2> QED BY <1>1, <1>4, <2>1, <2>2 DEF ShownInv, AllSkipped, AtProcessed, Covers, Late
<1>5. CASE pc[s] = "called" /\ pc'[s] = "idle"
  <2>1. /\ skipped'[s] = skipped[s] \cup {cur[s]}
        /\ UNCHANGED <<next, cur, state, view, processed>>
    BY <1>1, <1>5 DEF Effect
  <2>2. processed'[s] <= next'[s] /\ processed'[s] < next'[s]
    BY <1>2, <1>5, <2>1 DEF ShownInv
  <2>3. AllSkipped(s, processed[s], cur[s])
    BY <1>5 DEF ShownInv
  <2>4. \A h \in Heights : processed[s] < h /\ h < next[s] => h \in skipped'[s]
    BY <1>2, <1>3, <1>5, <2>1, <2>3 DEF AllSkipped
  <2>5. \A h, r : Late(s, h, r)' => Late(s, h, r)
    BY <1>5, <2>1 DEF Late
  <2>6. HasBestState(s)' = HasBestState(s) /\ ShownHeights(s)' = ShownHeights(s)
    BY <2>1 DEF HasBestState, ShownHeights
  <2>7. HasBestState(s) => \A h \in ToSet(state[s]) \ ShownHeights(s), r \in Heights : ~Late(s, h, r)'
    BY <1>1, <2>5 DEF ShownInv
  <2>8. ~AtProcessed(s)'
    BY <1>2, <1>5, <2>1, <2>2 DEF AtProcessed
  <2> QED BY <1>2, <1>5, <2>1, <2>2, <2>4, <2>6, <2>7, <2>8 DEF ShownInv, AllSkipped
<1>6. CASE pc[s] = "called" /\ pc'[s] = "applied"
  <2>1. /\ state'[s] = IF cur[s] \in TxBlocks THEN Append(state[s], cur[s]) ELSE state[s]
        /\ UNCHANGED <<next, cur, view, processed, skipped>>
    BY <1>1, <1>6 DEF Effect
  <2>2. \A h \in ToSet(state'[s]) : h \in ToSet(state[s]) \/ (h = cur[s] /\ h \in TxBlocks)
    BY <2>1, AppendHolds DEF TypeOK
  <2>3. \A h, r : Late(s, h, r)' => Late(s, h, r)
    BY <1>6, <2>1 DEF Late
  <2>4. ASSUME HasBestState(s), NEW h \in ToSet(state'[s]) \ ShownHeights(s), NEW r \in Heights,
               Late(s, h, r)
        PROVE  FALSE
    <3>1. h = cur[s] /\ h \in TxBlocks /\ h \notin ToSet(state[s])
      BY <1>1, <2>2, <2>4 DEF ShownInv
    <3>2. r = cur[s] /\ cur[s] = processed[s] /\ r \notin skipped[s]
      BY <1>2, <1>3, <1>6, <2>4, <3>1 DEF ShownInv, Late
    <3>3. Covers(view[s], s, processed[s])
      BY <1>1, <1>6, <2>4, <3>2 DEF ShownInv, AtProcessed
    <3>4. h \in ToSet(view[s])
      BY <1>2, <3>1, <3>2, <3>3 DEF Covers
    <3> QED BY <2>4, <3>4 DEF ShownHeights
  <2>5. HasBestState(s)' = HasBestState(s) /\ ShownHeights(s)' = ShownHeights(s)
    BY <2>1 DEF HasBestState, ShownHeights
  <2> QED BY <1>1, <1>6, <2>1, <2>3, <2>4, <2>5 DEF ShownInv, AllSkipped, AtProcessed
<1>7. CASE pc[s] \in {"applied", "rooted"}
  <2>1. /\ pc'[s] \in {"rooted", "backed"}
        /\ UNCHANGED <<next, cur, state, view, processed, skipped>>
    BY <1>1, <1>7 DEF Effect
  <2>2. HasBestState(s)' = HasBestState(s) /\ ShownHeights(s)' = ShownHeights(s)
    BY <2>1 DEF HasBestState, ShownHeights
  <2> QED BY <1>1, <1>7, <2>1, <2>2 DEF ShownInv, AllSkipped, AtProcessed, Late
<1>8. CASE pc[s] = "backed"
  <2>1. /\ processed'[s] = cur[s]
        /\ pc'[s] = IF cur[s] % RestoreEvery = 0 THEN "marked" ELSE "idle"
        /\ UNCHANGED <<next, cur, state, view, skipped>>
    BY <1>1, <1>8 DEF Effect
  <2>2. next[s] = cur[s] + 1 /\ processed[s] <= cur[s] /\ AllSkipped(s, processed[s], cur[s])
        /\ cur[s] \in Heights
    BY <1>2, <1>8 DEF ShownInv
  <2>3. AllSkipped(s, cur[s], cur[s] + 1) /\ AllSkipped(s, cur[s], cur[s])
    BY <1>2, <1>3 DEF AllSkipped
  <2>4. ASSUME NEW h, NEW r \in Heights, Late(s, h, r)' PROVE Late(s, h, r)
    <3>1. /\ h <= r /\ r <= cur[s] /\ r % RestoreEvery = 0 /\ r \notin skipped[s]
          /\ ~(r = cur[s] /\ pc'[s] = "marked")
      BY <2>1, <2>4 DEF Late
    <3>2. r # cur[s]
      BY <2>1, <3>1
    <3>3. r <= processed[s]
      BY <1>2, <1>3, <2>2, <3>1, <3>2 DEF AllSkipped
    <3> QED BY <1>8, <3>1, <3>3 DEF Late
  <2>5. HasBestState(s)' = HasBestState(s) /\ ShownHeights(s)' = ShownHeights(s)
    BY <2>1 DEF HasBestState, ShownHeights
  <2>6. processed'[s] # next'[s] /\ processed'[s] <= next'[s]
    BY <1>2, <2>1, <2>2
  <2>7. HasBestState(s) => \A h \in ToSet(state[s]) \ ShownHeights(s), r \in Heights : ~Late(s, h, r)'
    BY <1>1, <2>4 DEF ShownInv
  <2>8. ~AtProcessed(s)'
    BY <2>1, <2>6 DEF AtProcessed
  <2>9. AllSkipped(s, processed[s], next[s])' /\ AllSkipped(s, processed[s], cur[s])'
    BY <2>1, <2>2, <2>3 DEF AllSkipped
  <2>10. processed'[s] \in Heights /\ processed'[s] = cur'[s] /\ processed'[s] <= cur'[s]
    BY <1>2, <2>1, <2>2
  <2> QED BY <2>1, <2>5, <2>6, <2>7, <2>8, <2>9, <2>10 DEF ShownInv
<1>9. CASE pc[s] = "marked"
  <2>1. pc'[s] = "emptied" /\ view'[s] = NoView /\ UNCHANGED <<next, cur, state, processed, skipped>>
    BY <1>1, <1>9 DEF Effect
  <2>2. ~HasBestState(s)'
    BY <2>1 DEF HasBestState
  <2> QED BY <1>1, <1>9, <2>1, <2>2 DEF ShownInv, AllSkipped
<1>10. CASE pc[s] = "emptied"
  <2>1. /\ pc'[s] = "idle" /\ view'[s] = views[s] /\ state'[s] = views[s]
        /\ UNCHANGED <<next, cur, processed, skipped>>
    BY <1>1, <1>10 DEF Effect
  <2>2. next[s] = cur[s] + 1 /\ processed[s] = cur[s]
    BY <1>2, <1>10 DEF ShownInv
  <2>3. AllSkipped(s, processed[s], next[s]) /\ processed[s] <= next[s] /\ processed[s] # next[s]
    BY <1>2, <1>3, <2>2 DEF AllSkipped
  <2>4. ToSet(state'[s]) \ ShownHeights(s)' = {}
    BY <2>1 DEF ShownHeights
  <2> QED BY <1>1, <1>2, <2>1, <2>3, <2>4 DEF ShownInv, AllSkipped, AtProcessed
<1> QED BY <1>1, <1>4, <1>5, <1>6, <1>7, <1>8, <1>9, <1>10 DEF Effect

LEMMA StepShown == ASSUME TypeOK, DiskInv, BackupInv, ShowInv, [Next]_vars PROVE ShowInv'
<1> SUFFICES ASSUME NEW t \in Shards PROVE ShownInv(t)'
  BY DEF ShowInv
<1>0. ShownInv(t)
  BY DEF ShowInv
<1>1. CASE Start
  BY <1>1, StartShown
<1>2. CASE Crash
  BY <1>2, CrashEffect DEF ShownInv
<1>3. ASSUME NEW s \in Shards, Callback(s) PROVE ShownInv(t)'
  BY <1>0, <1>3, CallbackShown, CallbackStill, CallbackEffect, StillShown
<1>4. CASE UNCHANGED vars
  BY <1>0, <1>4 DEF vars, memory, disk, ShownInv, AllSkipped, AtProcessed, Late, Covers, HasBestState, ShownHeights
<1> QED BY <1>1, <1>2, <1>3, <1>4 DEF Next

\* What is processed is shown after at most RestoreEvery heights, unless the one
\* at which the views are read back was skipped, for any chain and any crashes.
THEOREM CoinsAreShown == Spec => []ShownInTime
<1>1. Init => ShowInv
  BY DEF Init, ShowInv, ShownInv
<1>2. TypeOK /\ DiskInv /\ BackupInv /\ ShowInv /\ [Next]_vars => ShowInv'
  BY StepShown
<1>3. ShowInv => ShownInTime
  BY DEF ShowInv, ShownInv, ShownInTime, Late
<1> QED BY <1>1, <1>2, <1>3, TypeCorrect, DiskComplete, ViewsHoldState, PTL DEF Spec

-----------------------------------------------------------------------------
(* How far the stored height may be behind, when it can be read.           *)

\* Every height with transactions between the two was skipped.
Passed(s, low, top) == \A h \in TxBlocks : low < h /\ h < top => h \in skipped[s]

\* Between the stored height and a readable block of the views, of the state, or
\* the one the callback is at, there are skipped blocks only.
AheadInv(s) ==
    /\ \A b \in ToSet(views[s]) \ skipped[s] : Passed(s, stored[s], b)
    /\ up => \A b \in ToSet(state[s]) \ skipped[s] : Passed(s, stored[s], b)
    /\ up /\ pc[s] = "idle" => stored[s] <= next[s] /\ Passed(s, stored[s], next[s])
    /\ pc[s] # "idle" => stored[s] <= cur[s] /\ Passed(s, stored[s], cur[s])
    /\ pc[s] \in {"marked", "emptied"} => stored[s] = cur[s]
AllAhead == \A s \in Shards : AheadInv(s)

\* A restart resumes at the stored height or next to it.
LEMMA StartResumes ==
    ASSUME TypeOK, DiskInv, ~MarkUnreadable, Start, NEW s \in Shards
    PROVE  /\ next'[s] \in Nat /\ stored[s] <= next'[s]
           /\ \A h \in TxBlocks : ~(stored[s] < h /\ h < next'[s])
<1>1. PICK p : p = processed'[s] /\ p \in Heights /\ p \in Resume(s)
  BY StartEffect
<1>2. next'[s] = p \/ next'[s] = p + 1
  BY <1>1, StartEffect
<1>3. p \in Nat /\ stored[s] \in Nat /\ \A h \in TxBlocks : h \in Nat /\ h >= 2
  BY <1>1, ConstantsAssumption DEF TypeOK, Heights
<1>4. p = stored[s] \/ (p = 1 /\ stored[s] = 0)
  BY <1>1 DEF Resume
<1> QED BY <1>2, <1>3, <1>4

LEMMA StartAhead ==
    ASSUME TypeOK, DiskInv, ~MarkUnreadable, Start, NEW s \in Shards, AheadInv(s)
    PROVE  AheadInv(s)'
<1>1. /\ pc'[s] = "idle" /\ state'[s] = views[s] /\ UNCHANGED <<views, stored, skipped>>
  BY StartEffect
<1>2. stored[s] <= next'[s] /\ \A h \in TxBlocks : ~(stored[s] < h /\ h < next'[s])
  BY StartResumes
<1> QED BY <1>1, <1>2 DEF AheadInv, Passed

LEMMA CallbackAhead ==
    ASSUME TypeOK, DiskInv, BackupInv, NEW s \in Shards, AheadInv(s), Callback(s)
    PROVE  AheadInv(s)'
<1>1. up /\ up' = up /\ Effect(s)
  BY CallbackEffect
<1>2. /\ next[s] \in Nat /\ cur[s] \in Nat /\ stored[s] \in Nat
      /\ \A h \in TxBlocks : h \in Nat
      /\ pc[s] # "idle" => next[s] = cur[s] + 1
      /\ ToSet(views[s]) \subseteq TxBlocks /\ ToSet(state[s]) \subseteq TxBlocks
  BY ConstantsAssumption DEF TypeOK, DiskInv, ShardInv, ToSet
<1>3. CASE pc[s] = "idle"
  <2>1. /\ pc'[s] = "called" /\ cur'[s] = next[s]
        /\ UNCHANGED <<state, views, stored, skipped>>
    BY <1>1, <1>3 DEF Effect
  <2> QED BY <1>1, <1>3, <2>1 DEF AheadInv, Passed
<1>4. CASE pc[s] = "called" /\ pc'[s] = "idle"
  <2>1. /\ skipped'[s] = skipped[s] \cup {cur[s]}
        /\ UNCHANGED <<next, cur, state, views, stored>>
    BY <1>1, <1>4 DEF Effect
  <2>2. stored[s] <= cur[s] /\ Passed(s, stored[s], cur[s])
    BY <1>4 DEF AheadInv
  <2>3. \A h \in TxBlocks : stored[s] < h /\ h < next[s] => h \in skipped'[s]
    BY <1>2, <1>4, <2>1, <2>2 DEF Passed
  <2>4. stored[s] <= next[s]
    BY <1>2, <1>4, <2>2
  <2>5. \A b : Passed(s, stored[s], b) => Passed(s, stored[s], b)'
    BY <2>1 DEF Passed
  <2> QED BY <1>1, <1>4, <2>1, <2>3, <2>4, <2>5 DEF AheadInv, Passed
<1>5. CASE pc[s] = "called" /\ pc'[s] = "applied"
  <2>1. /\ state'[s] = IF cur[s] \in TxBlocks THEN Append(state[s], cur[s]) ELSE state[s]
        /\ UNCHANGED <<next, cur, views, stored, skipped>>
    BY <1>1, <1>5 DEF Effect
  <2>2. \A h \in ToSet(state'[s]) : h \in ToSet(state[s]) \/ h = cur[s]
    BY <2>1, AppendHolds DEF TypeOK
  <2> QED BY <1>1, <1>5, <2>1, <2>2 DEF AheadInv, Passed
<1>6. CASE pc[s] = "applied"
  <2>1. pc'[s] = "rooted" /\ UNCHANGED <<cur, state, views, stored, skipped>>
    BY <1>1, <1>6 DEF Effect
  <2> QED BY <1>1, <1>6, <2>1 DEF AheadInv, Passed
<1>7. CASE pc[s] = "rooted"
  <2>1. pc'[s] = "backed" /\ views'[s] = root[s] /\ UNCHANGED <<cur, state, stored, skipped>>
    BY <1>1, <1>7 DEF Effect
  <2>2. root[s] = state[s]
    BY <1>7 DEF DiskInv, ShardInv
  <2> QED BY <1>1, <1>7, <2>1, <2>2 DEF AheadInv, Passed
<1>8. CASE pc[s] = "backed"
  <2>1. /\ stored'[s] = cur[s] /\ pc'[s] \in {"marked", "idle"}
        /\ UNCHANGED <<next, cur, state, views, skipped>>
    BY <1>1, <1>8 DEF Effect
  <2>2. stored[s] <= cur[s] /\ next[s] = cur[s] + 1
    BY <1>2, <1>8 DEF AheadInv
  <2>3. \A b \in TxBlocks : Passed(s, stored[s], b) => Passed(s, stored[s], b)'
    <3> SUFFICES ASSUME NEW b \in TxBlocks, Passed(s, stored[s], b),
                        NEW h \in TxBlocks, cur[s] < h, h < b
                 PROVE  h \in skipped[s]
      BY <2>1 DEF Passed
    <3> QED BY <1>2, <2>2 DEF Passed
  <2>4. \A h \in TxBlocks : /\ ~(cur[s] < h /\ h < next[s])
                            /\ ~(cur[s] < h /\ h < cur[s])
    BY <1>2, <2>2
  <2>5. \A b \in ToSet(views[s]) \ skipped[s] : Passed(s, stored[s], b)'
    BY <1>2, <2>3 DEF AheadInv
  <2>6. \A b \in ToSet(state[s]) \ skipped[s] : Passed(s, stored[s], b)'
    BY <1>1, <1>2, <2>3 DEF AheadInv
  <2>7. cur[s] <= next[s] /\ cur[s] <= cur[s]
    BY <1>2, <2>2
  <2> QED BY <2>1, <2>4, <2>5, <2>6, <2>7 DEF AheadInv, Passed
<1>9. CASE pc[s] = "marked"
  <2>1. pc'[s] = "emptied" /\ UNCHANGED <<cur, state, views, stored, skipped>>
    BY <1>1, <1>9 DEF Effect
  <2> QED BY <1>1, <1>9, <2>1 DEF AheadInv, Passed
<1>10. CASE pc[s] = "emptied"
  <2>1. /\ pc'[s] = "idle" /\ state'[s] = views[s]
        /\ UNCHANGED <<next, cur, views, stored, skipped>>
    BY <1>1, <1>10 DEF Effect
  <2>2. stored[s] = cur[s] /\ next[s] = cur[s] + 1
    BY <1>2, <1>10 DEF AheadInv
  <2>3. stored[s] <= next[s] /\ \A h \in TxBlocks : ~(stored[s] < h /\ h < next[s])
    BY <1>2, <2>2
  <2> QED BY <1>1, <1>10, <2>1, <2>3 DEF AheadInv, Passed
<1> QED BY <1>1, <1>3, <1>4, <1>5, <1>6, <1>7, <1>8, <1>9, <1>10 DEF Effect

LEMMA StepAhead ==
    ASSUME TypeOK, DiskInv, BackupInv, ~MarkUnreadable, AllAhead, [Next]_vars
    PROVE  AllAhead'
<1> SUFFICES ASSUME NEW t \in Shards PROVE AheadInv(t)'
  BY DEF AllAhead
<1>0. AheadInv(t)
  BY DEF AllAhead
<1>1. CASE Start
  BY <1>0, <1>1, StartAhead
<1>2. CASE Crash
  BY <1>0, <1>2, CrashEffect DEF AheadInv, Passed
<1>3. ASSUME NEW s \in Shards, Callback(s) PROVE AheadInv(t)'
  <2>1. CASE t = s
    BY <1>0, <1>3, <2>1, CallbackAhead
  <2>2. CASE t # s
    <3>1. Still(t) /\ up' = up
      BY <1>3, <2>2, CallbackStill, CallbackEffect
    <3> QED BY <1>0, <3>1 DEF Still, AheadInv, Passed
  <2> QED BY <2>1, <2>2
<1>4. CASE UNCHANGED vars
  BY <1>0, <1>4 DEF vars, memory, disk, AheadInv, Passed
<1> QED BY <1>1, <1>2, <1>3, <1>4 DEF Next

\* A set whose members are all equal has at most one.
LEMMA AtMostOne ==
    ASSUME NEW S, \A a, b \in S : a = b PROVE Cardinality(S) <= 1
<1>1. CASE S = {}
  BY <1>1, FS_EmptySet
<1>2. CASE S # {}
  <2>1. PICK a : S = {a}
    BY <1>2
  <2> QED BY <2>1, FS_Singleton
<1> QED BY <1>1, <1>2

\* As long as the stored height can be read, a crash between any two steps leaves
\* at most one readable block in the views that is not marked.
THEOREM MarkNotFarBehind == ASSUME ~MarkUnreadable PROVE Spec => []OneBlockAhead
<1>1. Init => AllAhead
  <2> SUFFICES ASSUME Init, NEW s \in Shards PROVE AheadInv(s)
    BY DEF AllAhead
  <2>1. views[s] = <<>> /\ ~up /\ pc[s] = "idle"
    BY DEF Init
  <2>2. ToSet(views[s]) = {}
    BY <2>1 DEF ToSet
  <2> QED BY <2>1, <2>2 DEF AheadInv
<1>2. TypeOK /\ DiskInv /\ BackupInv /\ AllAhead /\ [Next]_vars => AllAhead'
  BY StepAhead
<1>3. ASSUME TypeOK, AllAhead PROVE OneBlockAhead
  <2> SUFFICES ASSUME NEW s \in Shards
               PROVE  Cardinality({h \in ToSet(views[s]) \ skipped[s] : h > stored[s]}) <= 1
    BY DEF OneBlockAhead
  <2>1. ASSUME NEW a \in ToSet(views[s]) \ skipped[s], a > stored[s],
               NEW b \in ToSet(views[s]) \ skipped[s], b > stored[s]
        PROVE  a = b
    <3>1. Passed(s, stored[s], a) /\ Passed(s, stored[s], b)
      BY <1>3 DEF AllAhead, AheadInv
    <3>2. a \in TxBlocks /\ b \in TxBlocks
      BY <1>3 DEF TypeOK, ToSet
    <3>3. a \in Nat /\ b \in Nat /\ stored[s] \in Nat
      BY <1>3, <3>2, ConstantsAssumption DEF TypeOK
    <3>4. ~(a < b) /\ ~(b < a)
      BY <2>1, <3>1, <3>2, <3>3 DEF Passed
    <3> QED BY <3>3, <3>4
  <2> QED BY <2>1, AtMostOne
<1> QED BY <1>1, <1>2, <1>3, TypeCorrect, DiskComplete, ViewsHoldState, PTL DEF Spec

-----------------------------------------------------------------------------
(* How often a block may be applied again, when the stored height can be   *)
(* read.                                                                   *)

\* The applications of a log that are repeats, and those that the heights of a
\* set would be if each of them were applied once more.
Weight(log, S) == Len(log) - Cardinality(ToSet(log)) + Cardinality(S)

\* The heights of a log that a callback before height n may still apply again,
\* when m is the stored height; those it may after it applied n; those a restart
\* may; and those the stored height does not cover.
Pending(log, m, n) == {h \in ToSet(log) : h > m \/ h >= n}
PendingAfter(log, m, n) == {h \in ToSet(log) : h # n /\ (h > m \/ h > n)}
OnRestart(log, m) == {h \in ToSet(log) : h >= m}
Unmarked(log, m) == {h \in ToSet(log) : h > m}

\* Every death of the process pays for two repeats: the block that is backed up
\* but not marked, and the one that is marked, which a restart may deliver again.
RepeatInv(s) ==
    /\ Weight(state[s], {}) <= 2 * crashes
    /\ Weight(views[s], Unmarked(views[s], stored[s])) <= 2 * crashes + 1
    /\ ~up => Weight(views[s], OnRestart(views[s], stored[s])) <= 2 * crashes
    /\ up /\ pc[s] = "idle" =>
          Weight(state[s], Pending(state[s], stored[s], next[s])) <= 2 * crashes
    /\ pc[s] = "called" =>
          Weight(state[s], Pending(state[s], stored[s], cur[s])) <= 2 * crashes
    /\ pc[s] \in Steps \ {"idle", "called"} =>
          Weight(state[s], PendingAfter(state[s], stored[s], cur[s])) <= 2 * crashes
AllRepeats == \A s \in Shards : RepeatInv(s)

\* The heights of a log are finitely many.
LEMMA LogIsFinite ==
    ASSUME NEW log \in Seq(TxBlocks)
    PROVE  /\ IsFiniteSet(ToSet(log)) /\ ToSet(log) \subseteq TxBlocks
           /\ \A S \in SUBSET ToSet(log) : IsFiniteSet(S) /\ Cardinality(S) \in Nat
<1>1. ToSet(log) \subseteq 2..MaxHeight /\ ToSet(log) \subseteq TxBlocks
  <2>1. ToSet(log) \subseteq TxBlocks
    BY DEF ToSet
  <2> QED BY <2>1, ConstantsAssumption
<1>2. IsFiniteSet(2..MaxHeight)
  BY ConstantsAssumption, FS_Interval
<1>3. IsFiniteSet(ToSet(log))
  BY <1>1, <1>2, FS_Subset
<1>4. \A S \in SUBSET ToSet(log) : IsFiniteSet(S)
  BY <1>3, FS_Subset
<1> QED BY <1>1, <1>3, <1>4, FS_CardinalityType

\* A smaller set weighs no more, and one more height one more.
LEMMA WeightGrows ==
    ASSUME NEW log \in Seq(TxBlocks), NEW T \in SUBSET ToSet(log)
    PROVE  /\ Weight(log, T) \in Int
           /\ \A S : S \subseteq T => Weight(log, S) <= Weight(log, T)
           /\ \A S, x : S \subseteq T \cup {x} => Weight(log, S) <= Weight(log, T) + 1
<1>1. /\ Len(log) \in Nat /\ Cardinality(ToSet(log)) \in Nat
      /\ Cardinality(T) \in Nat /\ IsFiniteSet(T)
  BY LogIsFinite
<1>2. ASSUME NEW S, S \subseteq T
      PROVE  Cardinality(S) \in Nat /\ Cardinality(S) <= Cardinality(T)
  BY <1>1, <1>2, FS_Subset, FS_CardinalityType
<1>3. ASSUME NEW S, NEW x, S \subseteq T \cup {x}
      PROVE  Cardinality(S) \in Nat /\ Cardinality(S) <= Cardinality(T) + 1
  <2>1. /\ IsFiniteSet(T \cup {x}) /\ Cardinality(T \cup {x}) \in Nat
        /\ Cardinality(T \cup {x}) <= Cardinality(T) + 1
    <3>1. /\ IsFiniteSet(T \cup {x})
          /\ Cardinality(T \cup {x}) = IF x \in T THEN Cardinality(T) ELSE Cardinality(T) + 1
      BY <1>1, FS_AddElement
    <3> QED BY <1>1, <3>1
  <2>2. IsFiniteSet(S) /\ Cardinality(S) <= Cardinality(T \cup {x})
    BY <1>3, <2>1, FS_Subset
  <2> QED BY <1>1, <2>1, <2>2, FS_CardinalityType
<1>4. Weight(log, T) \in Int
  BY <1>1 DEF Weight
<1>5. ASSUME NEW S, S \subseteq T PROVE Weight(log, S) <= Weight(log, T)
  <2>1. Cardinality(S) \in Nat /\ Cardinality(S) <= Cardinality(T)
    BY <1>2, <1>5
  <2> QED BY <1>1, <2>1 DEF Weight
<1>6. ASSUME NEW S, NEW x, S \subseteq T \cup {x}
      PROVE  Weight(log, S) <= Weight(log, T) + 1
  <2>1. Cardinality(S) \in Nat /\ Cardinality(S) <= Cardinality(T) + 1
    BY <1>3, <1>6
  <2> QED BY <1>1, <2>1 DEF Weight
<1> QED BY <1>4, <1>5, <1>6

\* Applying a height that may still be applied again does not make the log
\* heavier: the height is a repeat now, and pending no more.
LEMMA WeightAppend ==
    ASSUME NEW log \in Seq(TxBlocks), NEW m \in Nat, NEW n \in TxBlocks
    PROVE  /\ Weight(Append(log, n), PendingAfter(Append(log, n), m, n))
                 <= Weight(log, Pending(log, m, n))
           /\ Weight(Append(log, n), {}) <= Weight(log, Pending(log, m, n))
<1> DEFINE new == Append(log, n)
           S == Pending(log, m, n)
           R == PendingAfter(new, m, n)
<1>1. /\ new \in Seq(TxBlocks) /\ Len(new) = Len(log) + 1 /\ Len(log) \in Nat
      /\ ToSet(new) = ToSet(log) \cup {n}
  BY AppendHolds
<1>2. /\ IsFiniteSet(ToSet(log)) /\ Cardinality(ToSet(log)) \in Nat
      /\ ToSet(log) \subseteq TxBlocks /\ \A h \in TxBlocks : h \in Nat
      /\ S \subseteq ToSet(log) /\ IsFiniteSet(S) /\ Cardinality(S) \in Nat
  <2>1. S \subseteq ToSet(log)
    BY DEF Pending
  <2> QED BY <2>1, LogIsFinite, ConstantsAssumption
<1>3. /\ Cardinality(ToSet(new)) =
            IF n \in ToSet(log) THEN Cardinality(ToSet(log)) ELSE Cardinality(ToSet(log)) + 1
  <2>1. Cardinality(ToSet(log) \cup {n}) =
           IF n \in ToSet(log) THEN Cardinality(ToSet(log)) ELSE Cardinality(ToSet(log)) + 1
    BY <1>2, FS_AddElement
  <2> QED BY <1>1, <2>1
<1>4. R = S \ {n}
  BY <1>1, <1>2 DEF Pending, PendingAfter
<1>5. Cardinality(R) = IF n \in S THEN Cardinality(S) - 1 ELSE Cardinality(S)
  BY <1>2, <1>4, FS_RemoveElement
<1>6. n \in ToSet(log) <=> n \in S
  BY <1>2 DEF Pending
<1>7. Weight(new, R) <= Weight(log, S)
  <2> HIDE DEF new, S, R
  <2> QED BY <1>1, <1>2, <1>3, <1>5, <1>6 DEF Weight
<1>8. Weight(new, {}) <= Weight(new, R) /\ Weight(new, R) \in Int /\ Weight(new, {}) \in Int
  <2>1. R \in SUBSET ToSet(new) /\ {} \in SUBSET ToSet(new) /\ {} \subseteq R
    BY DEF PendingAfter
  <2> QED BY <1>1, <2>1, WeightGrows
<1>9. Weight(log, S) \in Int
  BY <1>2, WeightGrows
<1> QED BY <1>7, <1>8, <1>9

\* What the other steps do to the heights that may be applied again.
LEMMA WeightMoves ==
    ASSUME NEW log \in Seq(TxBlocks), NEW m \in Nat, NEW n \in Nat
    PROVE  /\ Weight(log, {}) \in Int
           /\ Weight(log, Pending(log, m, n)) \in Int
           /\ Weight(log, PendingAfter(log, m, n)) \in Int
           /\ Weight(log, OnRestart(log, m)) \in Int
           /\ Weight(log, Unmarked(log, m)) \in Int
           /\ Weight(log, {}) <= Weight(log, OnRestart(log, m))
           /\ Weight(log, {}) <= Weight(log, PendingAfter(log, m, n))
           /\ Weight(log, Pending(log, m, n + 1)) <= Weight(log, Pending(log, m, n))
           /\ Weight(log, PendingAfter(log, m, n)) <= Weight(log, Pending(log, m, n))
           /\ Weight(log, Pending(log, n, n + 1)) <= Weight(log, PendingAfter(log, m, n))
           /\ Weight(log, PendingAfter(log, n, n)) <= Weight(log, PendingAfter(log, m, n))
           /\ Weight(log, Unmarked(log, n)) <= Weight(log, PendingAfter(log, m, n))
           /\ Weight(log, Unmarked(log, m)) <= Weight(log, PendingAfter(log, m, n)) + 1
           /\ Weight(log, OnRestart(log, m)) <= Weight(log, Unmarked(log, m)) + 1
           /\ m <= n => Weight(log, Pending(log, m, n)) <= Weight(log, OnRestart(log, m))
<1> DEFINE P == Pending(log, m, n)
           Q == PendingAfter(log, m, n)
           A == OnRestart(log, m)
           U == Unmarked(log, m)
<1>1. \A h \in ToSet(log) : h \in Nat
  <2>1. ToSet(log) \subseteq TxBlocks
    BY LogIsFinite
  <2>2. \A h \in TxBlocks : h \in Nat
    BY ConstantsAssumption
  <2> QED BY <2>1, <2>2
<1>2. /\ P \in SUBSET ToSet(log) /\ Q \in SUBSET ToSet(log) /\ A \in SUBSET ToSet(log)
      /\ U \in SUBSET ToSet(log) /\ {} \in SUBSET ToSet(log)
  BY DEF Pending, PendingAfter, OnRestart, Unmarked
<1>3. /\ {} \subseteq A /\ {} \subseteq Q
      /\ Pending(log, m, n + 1) \subseteq P /\ Q \subseteq P
  BY <1>1 DEF Pending, PendingAfter
<1>4. /\ Pending(log, n, n + 1) \subseteq Q /\ PendingAfter(log, n, n) \subseteq Q
      /\ Unmarked(log, n) \subseteq Q
  BY <1>1 DEF Pending, PendingAfter, Unmarked
<1>5. /\ U \subseteq Q \cup {n} /\ A \subseteq U \cup {m}
  BY <1>1 DEF PendingAfter, Unmarked, OnRestart
<1>6. m <= n => P \subseteq A
  BY <1>1 DEF Pending, OnRestart
<1> HIDE DEF P, Q, A, U
<1>7. /\ Weight(log, P) \in Int /\ Weight(log, Q) \in Int /\ Weight(log, A) \in Int
      /\ Weight(log, U) \in Int /\ Weight(log, {}) \in Int
  BY <1>2, WeightGrows
<1>8. /\ \A S : S \subseteq P => Weight(log, S) <= Weight(log, P)
      /\ \A S : S \subseteq Q => Weight(log, S) <= Weight(log, Q)
      /\ \A S : S \subseteq A => Weight(log, S) <= Weight(log, A)
      /\ \A S, x : S \subseteq Q \cup {x} => Weight(log, S) <= Weight(log, Q) + 1
      /\ \A S, x : S \subseteq U \cup {x} => Weight(log, S) <= Weight(log, U) + 1
  BY <1>2, WeightGrows
<1> QED BY <1>3, <1>4, <1>5, <1>6, <1>7, <1>8 DEF P, Q, A, U

\* What the next state of the weights is.
LEMMA NextWeights ==
    ASSUME NEW s \in Shards
    PROVE  /\ Weight(state[s], {})' = Weight(state'[s], {})
           /\ Weight(views[s], Unmarked(views[s], stored[s]))'
                 = Weight(views'[s], Unmarked(views'[s], stored'[s]))
           /\ Weight(views[s], OnRestart(views[s], stored[s]))'
                 = Weight(views'[s], OnRestart(views'[s], stored'[s]))
           /\ Weight(state[s], Pending(state[s], stored[s], next[s]))'
                 = Weight(state'[s], Pending(state'[s], stored'[s], next'[s]))
           /\ Weight(state[s], Pending(state[s], stored[s], cur[s]))'
                 = Weight(state'[s], Pending(state'[s], stored'[s], cur'[s]))
           /\ Weight(state[s], PendingAfter(state[s], stored[s], cur[s]))'
                 = Weight(state'[s], PendingAfter(state'[s], stored'[s], cur'[s]))
BY DEF Weight, Pending, PendingAfter, OnRestart, Unmarked

LEMMA StartRepeats ==
    ASSUME TypeOK, DiskInv, ~MarkUnreadable, Start, NEW s \in Shards, RepeatInv(s)
    PROVE  RepeatInv(s)'
<1>1. /\ ~up /\ up' = TRUE /\ crashes' = crashes /\ pc'[s] = "idle"
      /\ state'[s] = views[s] /\ UNCHANGED <<views, stored, skipped>>
  BY StartEffect
<1>2. views[s] \in Seq(TxBlocks) /\ stored[s] \in Nat /\ crashes \in Nat
  BY ConstantsAssumption DEF TypeOK
<1>3. PICK n \in Nat : n = next'[s] /\ stored[s] <= n
  BY StartResumes
<1>4. /\ Weight(views[s], {}) <= 2 * crashes
      /\ Weight(views[s], Pending(views[s], stored[s], n)) <= 2 * crashes
  <2>1. Weight(views[s], OnRestart(views[s], stored[s])) <= 2 * crashes
    BY <1>1 DEF RepeatInv
  <2>2. /\ Weight(views[s], {}) \in Int
        /\ Weight(views[s], Pending(views[s], stored[s], n)) \in Int
        /\ Weight(views[s], OnRestart(views[s], stored[s])) \in Int
    BY <1>2, <1>3, WeightMoves
  <2>3. /\ Weight(views[s], {}) <= Weight(views[s], OnRestart(views[s], stored[s]))
        /\ Weight(views[s], Pending(views[s], stored[s], n))
              <= Weight(views[s], OnRestart(views[s], stored[s]))
    BY <1>2, <1>3, WeightMoves
  <2> QED BY <1>2, <2>1, <2>2, <2>3
<1>5. Weight(state[s], {})' <= 2 * crashes'
  BY <1>1, <1>4, NextWeights
<1>6. Weight(views[s], Unmarked(views[s], stored[s]))' <= 2 * crashes' + 1
  BY <1>1, NextWeights DEF RepeatInv
<1>7. Weight(state[s], Pending(state[s], stored[s], next[s]))' <= 2 * crashes'
  BY <1>1, <1>3, <1>4, NextWeights
<1> QED BY <1>1, <1>5, <1>6, <1>7 DEF RepeatInv, Steps

LEMMA CrashRepeats ==
    ASSUME TypeOK, Crash, NEW s \in Shards, RepeatInv(s) PROVE RepeatInv(s)'
<1>1. /\ up' = FALSE /\ crashes' = crashes + 1 /\ pc'[s] = "idle"
      /\ UNCHANGED <<state, views, stored>>
  BY CrashEffect
<1>2. /\ views[s] \in Seq(TxBlocks) /\ state[s] \in Seq(TxBlocks)
      /\ stored[s] \in Nat /\ crashes \in Nat
  BY ConstantsAssumption DEF TypeOK
<1>3. /\ Weight(state[s], {}) \in Int
      /\ Weight(views[s], Unmarked(views[s], stored[s])) \in Int
      /\ Weight(views[s], OnRestart(views[s], stored[s])) \in Int
      /\ Weight(views[s], OnRestart(views[s], stored[s]))
            <= Weight(views[s], Unmarked(views[s], stored[s])) + 1
  BY <1>2, WeightMoves
<1>4. /\ Weight(state[s], {}) <= 2 * crashes
      /\ Weight(views[s], Unmarked(views[s], stored[s])) <= 2 * crashes + 1
  BY DEF RepeatInv
<1>5. Weight(state[s], {})' <= 2 * crashes'
  BY <1>1, <1>2, <1>3, <1>4, NextWeights
<1>6. Weight(views[s], Unmarked(views[s], stored[s]))' <= 2 * crashes' + 1
  BY <1>1, <1>2, <1>3, <1>4, NextWeights
<1>7. Weight(views[s], OnRestart(views[s], stored[s]))' <= 2 * crashes'
  BY <1>1, <1>2, <1>3, <1>4, NextWeights
<1> QED BY <1>1, <1>5, <1>6, <1>7 DEF RepeatInv, Steps

LEMMA CallbackRepeats ==
    ASSUME TypeOK, DiskInv, BackupInv, AllAhead, NEW s \in Shards, RepeatInv(s), Callback(s)
    PROVE  RepeatInv(s)'
<1>1. up /\ up' = up /\ crashes' = crashes /\ Effect(s)
  BY CallbackEffect
<1>2. /\ next[s] \in Nat /\ cur[s] \in Nat /\ stored[s] \in Nat /\ crashes \in Nat
      /\ views[s] \in Seq(TxBlocks) /\ state[s] \in Seq(TxBlocks)
      /\ pc[s] # "idle" => next[s] = cur[s] + 1
  BY ConstantsAssumption DEF TypeOK, DiskInv, ShardInv
<1>3. /\ Weight(state[s], {}) <= 2 * crashes
      /\ Weight(views[s], Unmarked(views[s], stored[s])) <= 2 * crashes + 1
      /\ pc[s] = "idle" =>
            Weight(state[s], Pending(state[s], stored[s], next[s])) <= 2 * crashes
      /\ pc[s] = "called" =>
            Weight(state[s], Pending(state[s], stored[s], cur[s])) <= 2 * crashes
      /\ pc[s] \in Steps \ {"idle", "called"} =>
            Weight(state[s], PendingAfter(state[s], stored[s], cur[s])) <= 2 * crashes
  BY <1>1 DEF RepeatInv
<1>4. CASE pc[s] = "idle"
  <2>1. /\ pc'[s] = "called" /\ cur'[s] = next[s]
        /\ UNCHANGED <<state, views, stored>>
    BY <1>1, <1>4 DEF Effect
  <2>2. /\ Weight(state[s], {})' <= 2 * crashes'
        /\ Weight(views[s], Unmarked(views[s], stored[s]))' <= 2 * crashes' + 1
        /\ Weight(state[s], Pending(state[s], stored[s], cur[s]))' <= 2 * crashes'
    BY <1>1, <1>3, <1>4, <2>1, NextWeights
  <2> QED BY <1>1, <2>1, <2>2 DEF RepeatInv, Steps
<1>5. CASE pc[s] = "called" /\ pc'[s] = "idle"
  <2>1. UNCHANGED <<next, cur, state, views, stored>> /\ next[s] = cur[s] + 1
    BY <1>1, <1>2, <1>5 DEF Effect
  <2>2. Weight(state[s], Pending(state[s], stored[s], next[s])) <= 2 * crashes
    <3>1. /\ Weight(state[s], Pending(state[s], stored[s], cur[s] + 1)) \in Int
          /\ Weight(state[s], Pending(state[s], stored[s], cur[s])) \in Int
          /\ Weight(state[s], Pending(state[s], stored[s], cur[s] + 1))
                <= Weight(state[s], Pending(state[s], stored[s], cur[s]))
      BY <1>2, <2>1, WeightMoves
    <3> QED BY <1>2, <1>3, <1>5, <2>1, <3>1
  <2>3. /\ Weight(state[s], {})' <= 2 * crashes'
        /\ Weight(views[s], Unmarked(views[s], stored[s]))' <= 2 * crashes' + 1
        /\ Weight(state[s], Pending(state[s], stored[s], next[s]))' <= 2 * crashes'
    BY <1>1, <1>3, <2>1, <2>2, NextWeights
  <2> QED BY <1>1, <1>5, <2>3 DEF RepeatInv, Steps
<1>6. CASE pc[s] = "called" /\ pc'[s] = "applied"
  <2>1. /\ state'[s] = IF cur[s] \in TxBlocks THEN Append(state[s], cur[s]) ELSE state[s]
        /\ UNCHANGED <<next, cur, views, stored>>
    BY <1>1, <1>6 DEF Effect
  <2>2. /\ Weight(state'[s], PendingAfter(state'[s], stored[s], cur[s])) <= 2 * crashes
        /\ Weight(state'[s], {}) <= 2 * crashes
    <3>1. PICK w \in Int : w = Weight(state[s], Pending(state[s], stored[s], cur[s]))
      BY <1>2, WeightMoves
    <3>2. w <= 2 * crashes
      BY <1>3, <1>6, <3>1
    <3>3. CASE cur[s] \in TxBlocks
      <4> DEFINE new == Append(state[s], cur[s])
      <4>1. state'[s] = new
        BY <2>1, <3>3
      <4>2. Weight(new, PendingAfter(new, stored[s], cur[s])) <= w /\ Weight(new, {}) <= w
        BY <1>2, <3>1, <3>3, WeightAppend
      <4>3. new \in Seq(TxBlocks)
        BY <1>2, <3>3
      <4> HIDE DEF new
      <4>4. /\ Weight(new, PendingAfter(new, stored[s], cur[s])) \in Int
            /\ Weight(new, {}) \in Int
        BY <1>2, <4>3, WeightMoves
      <4> QED BY <1>2, <3>2, <4>1, <4>2, <4>4
    <3>4. CASE cur[s] \notin TxBlocks
      <4>1. state'[s] = state[s]
        BY <2>1, <3>4
      <4>2. /\ Weight(state[s], PendingAfter(state[s], stored[s], cur[s])) <= w
            /\ Weight(state[s], PendingAfter(state[s], stored[s], cur[s])) \in Int
        BY <1>2, <3>1, WeightMoves
      <4> QED BY <1>2, <1>3, <3>2, <4>1, <4>2
    <3> QED BY <3>3, <3>4
  <2>3. /\ Weight(state[s], {})' <= 2 * crashes'
        /\ Weight(views[s], Unmarked(views[s], stored[s]))' <= 2 * crashes' + 1
        /\ Weight(state[s], PendingAfter(state[s], stored[s], cur[s]))' <= 2 * crashes'
    BY <1>1, <1>3, <2>1, <2>2, NextWeights
  <2> QED BY <1>1, <1>6, <2>3 DEF RepeatInv
<1>7. CASE pc[s] = "applied"
  <2>1. pc'[s] = "rooted" /\ UNCHANGED <<cur, state, views, stored>>
    BY <1>1, <1>7 DEF Effect
  <2>2. /\ Weight(state[s], {})' <= 2 * crashes'
        /\ Weight(views[s], Unmarked(views[s], stored[s]))' <= 2 * crashes' + 1
        /\ Weight(state[s], PendingAfter(state[s], stored[s], cur[s]))' <= 2 * crashes'
    BY <1>1, <1>3, <1>7, <2>1, NextWeights DEF Steps
  <2> QED BY <1>1, <2>1, <2>2 DEF RepeatInv
<1>8. CASE pc[s] = "rooted"
  <2>1. pc'[s] = "backed" /\ views'[s] = state[s] /\ UNCHANGED <<cur, state, stored>>
    BY <1>1, <1>8 DEF Effect, DiskInv, ShardInv
  <2>2. Weight(state[s], Unmarked(state[s], stored[s])) <= 2 * crashes + 1
    <3>1. Weight(state[s], PendingAfter(state[s], stored[s], cur[s])) <= 2 * crashes
      BY <1>3, <1>8 DEF Steps
    <3>2. /\ Weight(state[s], Unmarked(state[s], stored[s])) \in Int
          /\ Weight(state[s], PendingAfter(state[s], stored[s], cur[s])) \in Int
          /\ Weight(state[s], Unmarked(state[s], stored[s]))
                <= Weight(state[s], PendingAfter(state[s], stored[s], cur[s])) + 1
      BY <1>2, WeightMoves
    <3> QED BY <1>2, <3>1, <3>2
  <2>3. /\ Weight(state[s], {})' <= 2 * crashes'
        /\ Weight(views[s], Unmarked(views[s], stored[s]))' <= 2 * crashes' + 1
        /\ Weight(state[s], PendingAfter(state[s], stored[s], cur[s]))' <= 2 * crashes'
    BY <1>1, <1>3, <1>8, <2>1, <2>2, NextWeights DEF Steps
  <2> QED BY <1>1, <2>1, <2>3 DEF RepeatInv
<1>9. CASE pc[s] = "backed"
  <2>1. /\ stored'[s] = cur[s] /\ pc'[s] \in {"marked", "idle"}
        /\ UNCHANGED <<next, cur, state, views>> /\ next[s] = cur[s] + 1
    BY <1>1, <1>2, <1>9 DEF Effect
  <2>2. views[s] = state[s]
    BY <1>9 DEF BackupInv, RestoreInv
  <2>3. /\ Weight(state[s], Pending(state[s], cur[s], cur[s] + 1)) <= 2 * crashes
        /\ Weight(state[s], PendingAfter(state[s], cur[s], cur[s])) <= 2 * crashes
        /\ Weight(state[s], Unmarked(state[s], cur[s])) <= 2 * crashes + 1
    <3>1. Weight(state[s], PendingAfter(state[s], stored[s], cur[s])) <= 2 * crashes
      BY <1>3, <1>9 DEF Steps
    <3>2. /\ Weight(state[s], Pending(state[s], cur[s], cur[s] + 1)) \in Int
          /\ Weight(state[s], PendingAfter(state[s], cur[s], cur[s])) \in Int
          /\ Weight(state[s], Unmarked(state[s], cur[s])) \in Int
          /\ Weight(state[s], PendingAfter(state[s], stored[s], cur[s])) \in Int
      <4>1. cur[s] + 1 \in Nat
        BY <1>2
      <4>2. Weight(state[s], Pending(state[s], cur[s], cur[s] + 1)) \in Int
        BY <1>2, <4>1, WeightMoves
      <4>3. /\ Weight(state[s], PendingAfter(state[s], cur[s], cur[s])) \in Int
            /\ Weight(state[s], Unmarked(state[s], cur[s])) \in Int
        BY <1>2, WeightMoves
      <4>4. Weight(state[s], PendingAfter(state[s], stored[s], cur[s])) \in Int
        BY <1>2, WeightMoves
      <4> QED BY <4>2, <4>3, <4>4
    <3>3. /\ Weight(state[s], Pending(state[s], cur[s], cur[s] + 1))
                <= Weight(state[s], PendingAfter(state[s], stored[s], cur[s]))
          /\ Weight(state[s], PendingAfter(state[s], cur[s], cur[s]))
                <= Weight(state[s], PendingAfter(state[s], stored[s], cur[s]))
          /\ Weight(state[s], Unmarked(state[s], cur[s]))
                <= Weight(state[s], PendingAfter(state[s], stored[s], cur[s]))
      BY <1>2, WeightMoves
    <3> QED BY <1>2, <3>1, <3>2, <3>3
  <2>4. /\ Weight(state[s], {})' <= 2 * crashes'
        /\ Weight(views[s], Unmarked(views[s], stored[s]))' <= 2 * crashes' + 1
        /\ Weight(state[s], Pending(state[s], stored[s], next[s]))' <= 2 * crashes'
        /\ Weight(state[s], PendingAfter(state[s], stored[s], cur[s]))' <= 2 * crashes'
    BY <1>1, <1>3, <2>1, <2>2, <2>3, NextWeights
  <2> QED BY <1>1, <2>1, <2>4 DEF RepeatInv
<1>10. CASE pc[s] = "marked"
  <2>1. pc'[s] = "emptied" /\ UNCHANGED <<cur, state, views, stored>>
    BY <1>1, <1>10 DEF Effect
  <2>2. /\ Weight(state[s], {})' <= 2 * crashes'
        /\ Weight(views[s], Unmarked(views[s], stored[s]))' <= 2 * crashes' + 1
        /\ Weight(state[s], PendingAfter(state[s], stored[s], cur[s]))' <= 2 * crashes'
    BY <1>1, <1>3, <1>10, <2>1, NextWeights DEF Steps
  <2> QED BY <1>1, <2>1, <2>2 DEF RepeatInv
<1>11. CASE pc[s] = "emptied"
  <2>1. /\ pc'[s] = "idle" /\ state'[s] = state[s]
        /\ UNCHANGED <<next, cur, views, stored>> /\ next[s] = cur[s] + 1
    BY <1>1, <1>2, <1>11 DEF Effect, BackupInv, RestoreInv
  <2>2. Weight(state[s], Pending(state[s], stored[s], next[s])) <= 2 * crashes
    <3>1. Weight(state[s], PendingAfter(state[s], stored[s], cur[s])) <= 2 * crashes
      BY <1>3, <1>11 DEF Steps
    <3>2. stored[s] = cur[s]
      BY <1>11 DEF AllAhead, AheadInv
    <3>3. /\ Weight(state[s], Pending(state[s], cur[s], cur[s] + 1)) \in Int
          /\ Weight(state[s], PendingAfter(state[s], stored[s], cur[s])) \in Int
          /\ Weight(state[s], Pending(state[s], cur[s], cur[s] + 1))
                <= Weight(state[s], PendingAfter(state[s], stored[s], cur[s]))
      <4>1. cur[s] + 1 \in Nat
        BY <1>2
      <4>2. Weight(state[s], Pending(state[s], cur[s], cur[s] + 1)) \in Int
        BY <1>2, <4>1, WeightMoves
      <4>3. /\ Weight(state[s], PendingAfter(state[s], stored[s], cur[s])) \in Int
            /\ Weight(state[s], Pending(state[s], cur[s], cur[s] + 1))
                  <= Weight(state[s], PendingAfter(state[s], stored[s], cur[s]))
        BY <1>2, WeightMoves
      <4> QED BY <4>2, <4>3
    <3> QED BY <1>2, <2>1, <3>1, <3>2, <3>3
  <2>3. /\ Weight(state[s], {})' <= 2 * crashes'
        /\ Weight(views[s], Unmarked(views[s], stored[s]))' <= 2 * crashes' + 1
        /\ Weight(state[s], Pending(state[s], stored[s], next[s]))' <= 2 * crashes'
    BY <1>1, <1>3, <2>1, <2>2, NextWeights
  <2> QED BY <1>1, <2>1, <2>3 DEF RepeatInv
<1> QED BY <1>1, <1>4, <1>5, <1>6, <1>7, <1>8, <1>9, <1>10, <1>11 DEF Effect

LEMMA StepRepeats ==
    ASSUME TypeOK, DiskInv, BackupInv, ~MarkUnreadable, AllAhead, AllRepeats, [Next]_vars
    PROVE  AllRepeats'
<1> SUFFICES ASSUME NEW t \in Shards PROVE RepeatInv(t)'
  BY DEF AllRepeats
<1>0. RepeatInv(t)
  BY DEF AllRepeats
<1>1. CASE Start
  BY <1>0, <1>1, StartRepeats
<1>2. CASE Crash
  BY <1>0, <1>2, CrashRepeats
<1>3. ASSUME NEW s \in Shards, Callback(s) PROVE RepeatInv(t)'
  <2>1. CASE t = s
    BY <1>0, <1>3, <2>1, CallbackRepeats
  <2>2. CASE t # s
    <3>1. Still(t) /\ up' = up /\ crashes' = crashes
      BY <1>3, <2>2, CallbackStill, CallbackEffect
    <3> QED BY <1>0, <3>1 DEF Still, RepeatInv, Weight, Pending, PendingAfter, OnRestart, Unmarked
  <2> QED BY <2>1, <2>2
<1>4. CASE UNCHANGED vars
  BY <1>0, <1>4
     DEF vars, memory, disk, RepeatInv, Weight, Pending, PendingAfter, OnRestart, Unmarked
<1> QED BY <1>1, <1>2, <1>3, <1>4 DEF Next

\* As long as the stored height can be read, each death of the process lets at
\* most two blocks be applied again, whatever step it interrupts.
THEOREM RepeatsBounded == ASSUME ~MarkUnreadable PROVE Spec => []RepeatsAreRestarts
<1>1. Init => AllAhead /\ AllRepeats
  <2> SUFFICES ASSUME Init, NEW s \in Shards PROVE AheadInv(s) /\ RepeatInv(s)
    BY DEF AllAhead, AllRepeats
  <2>1. views[s] = <<>> /\ state[s] = <<>> /\ ~up /\ pc[s] = "idle" /\ crashes = 0
    BY DEF Init
  <2>2. ToSet(<<>>) = {} /\ Len(<<>>) = 0 /\ Cardinality({}) = 0
    BY FS_EmptySet DEF ToSet
  <2>3. AheadInv(s)
    BY <2>1, <2>2 DEF AheadInv
  <2>4. Unmarked(<<>>, stored[s]) = {} /\ OnRestart(<<>>, stored[s]) = {}
    BY <2>2 DEF Unmarked, OnRestart
  <2>5. Weight(<<>>, {}) = 0
    <3>1. Weight(<<>>, {}) = 0 - 0 + 0
      BY <2>2, Zenon DEF Weight
    <3> QED BY <3>1
  <2>6. RepeatInv(s)
    <3>1. 0 <= 2 * crashes /\ 0 <= 2 * crashes + 1
      BY <2>1
    <3>2. Weight(state[s], {}) <= 2 * crashes
      BY <2>1, <2>5, <3>1
    <3>3. /\ Weight(views[s], Unmarked(views[s], stored[s])) <= 2 * crashes + 1
          /\ Weight(views[s], OnRestart(views[s], stored[s])) <= 2 * crashes
      BY <2>1, <2>4, <2>5, <3>1
    <3> QED BY <2>1, <3>2, <3>3 DEF RepeatInv, Steps
  <2> QED BY <2>3, <2>6
<1>2. TypeOK /\ DiskInv /\ BackupInv /\ AllAhead /\ AllRepeats /\ [Next]_vars
         => AllAhead' /\ AllRepeats'
  BY StepAhead, StepRepeats
<1>3. ASSUME TypeOK, AllRepeats PROVE RepeatsAreRestarts
  <2> SUFFICES ASSUME NEW s \in Shards
               PROVE  Len(state[s]) - Cardinality(ToSet(state[s])) <= 2 * crashes
    BY DEF RepeatsAreRestarts
  <2>1. Weight(state[s], {}) <= 2 * crashes
    BY <1>3 DEF AllRepeats, RepeatInv
  <2>2. state[s] \in Seq(TxBlocks)
    BY <1>3 DEF TypeOK
  <2>3. Cardinality(ToSet(state[s])) \in Nat /\ Len(state[s]) \in Nat /\ Cardinality({}) = 0
    BY <2>2, LogIsFinite, FS_EmptySet
  <2> QED BY <2>1, <2>3 DEF Weight
<1> QED BY <1>1, <1>2, <1>3, TypeCorrect, DiskComplete, ViewsHoldState, PTL DEF Spec
=============================================================================
