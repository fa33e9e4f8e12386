----------------------------- MODULE Persistence -----------------------------
(***************************************************************************)
(* How a node's chain survives: save() of chain.ts queues the chain file,  *)
(* the chainstate and now and then a snapshot of the ledger; a start       *)
(* repairs the pairs of files (chain-repair.ts) and load() puts the chain  *)
(* and its ledger together again from whatever generation of each it       *)
(* finds.                                                                  *)
(*                                                                         *)
(* A ledger is named by the block that leaves it, because a block's header *)
(* commits to it: replaying a block works on its parent's ledger only.     *)
(* How the chain moves is module Chain's subject; here it moves to any     *)
(* chain it could move to.  A save carries a number, which the code does   *)
(* not have, to tell what is older.                                        *)
(***************************************************************************)
EXTENDS DiskQueue, SequencesExt

CONSTANTS
  Blk,            (* block hashes                                          *)
  Genesis,        (* GENESIS_HASH                                          *)
  PathTo,         (* hash -> the blocks from genesis to it                 *)
  SnapshotEvery,  (* SNAPSHOT_EVERY                                        *)
  Retention,      (* pruneConfig.retentionWindow                           *)
  MaxSaves,       (* bounds the number of saves                            *)
  PairSpared      (* does damage spare one copy of the chain file?         *)

ASSUME PersistenceAssumption ==
  /\ Genesis \in Blk /\ "invalid" \notin Blk
  /\ PathTo \in [Blk -> Seq(Blk) \ {<<>>}]
  /\ \A h \in Blk : Last(PathTo[h]) = h
  /\ {SnapshotEvery, Retention} \subseteq Nat \ {0}
  /\ MaxSaves \in Nat
  /\ PairSpared \in BOOLEAN
  /\ Kind = {"chain", "chainstate", "snapshot"}

VARIABLES
  phase,    (* "down", "boot": main() before load() is over, or "up"       *)
  todo,     (* the pairs of files the boot has still to look at            *)
  existed,  (* chainFileExists of main(), while the node boots             *)
  mem,      (* the node in memory: [gen, blocks, base, ledger]             *)
  stage,    (* how far the save() under way is; "idle" if there is none    *)
  cause,    (* what the save is for: "change", "import", "new" or "none"   *)
  saves,    (* saves made so far                                           *)
  settled   (* the last save whose chain file and backup were written      *)

vars == <<diskVars, phase, todo, existed, mem, stage, cause, saves, settled>>

Height(m) == m.base + Len(m.blocks) - 1

\* Before the first save: genesis without a ledger in the cache.
Nothing == [gen |-> 0, blocks |-> <<Genesis>>, base |-> 0, ledger |-> Genesis]

Init ==
  /\ DiskInit
  /\ phase = "down" /\ todo = <<>> /\ existed = FALSE
  /\ mem = Nothing
  /\ stage = "idle" /\ cause = "none"
  /\ saves = 0 /\ settled = 0

-----------------------------------------------------------------------------
(* save(). *)

Pruned(m) ==
  LET height == Height(m) - Retention
  IN IF height > m.base
     THEN [m EXCEPT !.base = height, !.blocks = SubSeq(@, height - m.base + 1, Len(@))]
     ELSE m

\* Whether pruning is enabled is left open; a new chain has nothing to prune.
BeginSave(m, why) ==
  /\ saves < MaxSaves
  /\ saves' = saves + 1
  /\ \E kept \in {m} \cup (IF why = "new" THEN {} ELSE {Pruned(m)}) :
       mem' = [kept EXCEPT !.gen = saves']
  /\ stage' = "begin" /\ cause' = why
  /\ UNCHANGED <<diskVars, phase, todo, existed, settled>>

\* A handler may run: no save and no write is under way in this turn.
Idle == phase = "up" /\ stage = "idle" /\ ~ half

\* The chain grows, is reorganised above its anchor, or only the pool changes.
Change(h) ==
  /\ Idle
  /\ mem.base < Len(PathTo[h]) /\ PathTo[h][mem.base + 1] = mem.blocks[1]
  /\ BeginSave([mem EXCEPT !.blocks = SubSeq(PathTo[h], mem.base + 1, Len(PathTo[h])),
                           !.ledger = h], "change")

ImportCheckpoint(h) ==
  /\ Idle /\ h # Genesis
  /\ BeginSave([mem EXCEPT !.blocks = <<h>>, !.base = Len(PathTo[h]) - 1, !.ledger = h], "import")

\* The chain file; the first attempt at an idle queue's job is made at once.
QueueChain ==
  /\ phase = "up" /\ stage = "begin" /\ ~ half
  /\ queue' = Append(queue, Job("chain", [gen |-> mem.gen, blocks |-> mem.blocks, base |-> mem.base]))
  /\ stage' = "queued"
  /\ UNCHANGED <<files, attempts, half, phase, todo, existed, mem, cause, saves, settled>>

LedgerFile == [height |-> Height(mem), tip |-> Last(mem.blocks), ledger |-> mem.ledger]

RestJobs ==
  LET chainstate == <<Job("chainstate", LedgerFile)>>
      snapshot == <<Job("snapshot", LedgerFile)>>
      due == Height(mem) > 0 /\ Height(mem) % SnapshotEvery = 0
      saved == chainstate \o (IF due THEN snapshot ELSE <<>>)
  IN IF cause = "new" THEN <<>>
     ELSE IF cause = "change" THEN saved
     ELSE saved \o snapshot \o chainstate

\* Reading the chainstate or the snapshot restores a lost primary; each of
\* the two writes may fail.
Heal(pair) ==
  IF ~ IsValid(pair.primary) /\ IsValid(pair.backup)
  THEN {pair, [pair EXCEPT !.primary = pair.backup]}
  ELSE {pair}

QueueRest ==
  /\ phase = "up" /\ stage = "queued" /\ ~ half
  /\ queue' = queue \o RestJobs
  /\ \E healed \in IF cause = "new" THEN {files["chainstate"]} ELSE Heal(files["chainstate"]) :
       files' = [files EXCEPT !["chainstate"] = healed]
  /\ stage' = "idle" /\ cause' = "none"
  /\ UNCHANGED <<attempts, half, phase, todo, existed, mem, saves, settled>>

-----------------------------------------------------------------------------
(* The queue at work, between the handlers. *)

\* The first attempt at a chain file that finds the queue idle is made inside save().
AtOnce == stage = "queued" /\ Len(queue) = 1 /\ attempts = 0

AtWork == phase = "up" /\ (stage = "idle" \/ AtOnce)

nodeVars == <<phase, todo, existed, mem, stage, cause, saves>>

Write == AtWork /\ WritePrimary /\ UNCHANGED <<nodeVars, settled>>

Copy ==
  /\ AtWork /\ CopyBackup
  /\ settled' = IF Head(queue).kind = "chain" THEN Head(queue).data.gen ELSE settled
  /\ UNCHANGED nodeVars

WriteFails == AtWork /\ Fail /\ UNCHANGED <<nodeVars, settled>>

-----------------------------------------------------------------------------
(* Crash, damage and start. *)

Crash ==
  /\ phase # "down"
  /\ DiskCrash
  /\ phase' = "down" /\ todo' = <<>> /\ existed' = FALSE
  /\ mem' = Nothing /\ stage' = "idle" /\ cause' = "none"
  /\ UNCHANGED <<saves, settled>>

\* A copy of a file is found damaged at the next start.
Damage(k, copy, other) ==
  /\ phase = "down"
  /\ IsValid(files[k][copy])
  /\ PairSpared /\ k = "chain" => IsValid(files[k][other])
  /\ files' = [files EXCEPT ![k][copy] = Corrupt]
  /\ UNCHANGED <<queue, attempts, half, nodeVars, settled>>

Boot ==
  /\ phase = "down"
  /\ phase' = "boot"
  /\ todo' = <<"chain", "snapshot", "chainstate">>
  /\ existed' = (files["chain"].primary # Missing)
  /\ UNCHANGED <<diskVars, mem, stage, cause, saves, settled>>

\* Mutant: a valid backup is copied over a valid primary.
RepairedPairs_BackupWins(pair) ==
  IF IsValid(pair.backup) THEN {[primary |-> pair.backup, backup |-> pair.backup]} ELSE {pair}

\* What tryRepairPair makes of a pair: damaged files are moved away or replaced,
\* and each of these may fail.
RepairedPairs(pair) ==
  IF IsValid(pair.primary) /\ IsValid(pair.backup) THEN {pair}
  ELSE IF IsValid(pair.primary) THEN {pair, [pair EXCEPT !.backup = pair.primary]}
  ELSE IF IsValid(pair.backup)
  THEN {[pair EXCEPT !.primary = copy] : copy \in {pair.primary, Missing, pair.backup}}
  ELSE [primary : {pair.primary, Missing}, backup : {pair.backup, Missing}]

Repair ==
  /\ phase = "boot" /\ todo # <<>>
  /\ \E pair \in RepairedPairs(files[Head(todo)]) : files' = [files EXCEPT ![Head(todo)] = pair]
  /\ todo' = Tail(todo)
  /\ UNCHANGED <<queue, attempts, half, phase, existed, mem, stage, cause, saves, settled>>

Readable(pair) == IF IsValid(pair.primary) THEN pair.primary ELSE pair.backup

\* Mutant: the height is enough to recognise the chainstate.
Matches_HeightOnly(copy, saved) ==
  IsValid(copy) /\ copy.data.height = Height(saved)

\* Is the chainstate that of the chain's tip?
Matches(copy, saved) ==
  /\ IsValid(copy)
  /\ copy.data.height = Height(saved)
  /\ copy.data.tip = Last(saved.blocks) /\ copy.data.ledger = Last(saved.blocks)

\* Mutant: the snapshot need not be of this chain.
OnChain_HeightOnly(copy, saved) ==
  IsValid(copy) /\ copy.data.height \in saved.base..Height(saved)

\* Is the snapshot that of a block of the chain?
OnChain(copy, saved) ==
  /\ IsValid(copy)
  /\ copy.data.height \in saved.base..Height(saved)
  /\ copy.data.tip = saved.blocks[copy.data.height - saved.base + 1]
  /\ copy.data.ledger = copy.data.tip

\* Replay of the blocks after position i on a ledger.
ReplayFrom(blocks, i, ledger) ==
  IF i = Len(blocks) THEN ledger
  ELSE IF ledger = blocks[i] THEN Last(blocks)
  ELSE "invalid"

\* From the checkpoint if there is one, else from the snapshot or genesis.
LedgerOf(saved) ==
  LET chainstate == Readable(files["chainstate"])
      snapshot == Readable(files["snapshot"])
  IN IF Matches(chainstate, saved) THEN chainstate.data.ledger
     ELSE IF saved.base = 0 /\ OnChain(snapshot, saved)
     THEN ReplayFrom(saved.blocks, snapshot.data.height + 1, snapshot.data.ledger)
     ELSE ReplayFrom(saved.blocks, 1, saved.blocks[1])

\* A snapshot is only looked for without a chainstate that matches, and one
\* read from the backup that lies on the chain may become the primary.
SnapshotFiles(saved) ==
  IF Matches(Readable(files["chainstate"]), saved) \/ ~ OnChain(Readable(files["snapshot"]), saved)
  THEN {files["snapshot"]} ELSE Heal(files["snapshot"])

\* load() finds a chain file; one read from the backup is saved again.
Load ==
  LET copy == Readable(files["chain"])
      saved == copy.data
  IN /\ phase = "boot" /\ todo = <<>>
     /\ IsValid(copy) /\ LedgerOf(saved) # "invalid"
     /\ mem' = [gen |-> saved.gen, blocks |-> saved.blocks, base |-> saved.base,
                ledger |-> LedgerOf(saved)]
     /\ \E chainstate \in Heal(files["chainstate"]), snapshot \in SnapshotFiles(saved) :
          files' = [files EXCEPT !["chainstate"] = chainstate, !["snapshot"] = snapshot]
     /\ phase' = "up" /\ existed' = FALSE
     /\ stage' = IF IsValid(files["chain"].primary) THEN "idle" ELSE "restore"
     /\ UNCHANGED <<queue, attempts, half, todo, cause, saves, settled>>

Unloadable ==
  LET copy == Readable(files["chain"])
  IN phase = "boot" /\ todo = <<>> /\ (IsValid(copy) => LedgerOf(copy.data) = "invalid")

\* main() ends the process rather than replace a chain file it found.
Refuse ==
  /\ Unloadable /\ existed
  /\ phase' = "down" /\ existed' = FALSE
  /\ UNCHANGED <<diskVars, todo, mem, stage, cause, saves, settled>>

NewChain ==
  /\ Unloadable /\ ~ existed
  /\ phase' = "up" /\ stage' = "new"
  /\ mem' = Nothing
  /\ UNCHANGED <<diskVars, todo, existed, cause, saves, settled>>

\* main() on a chain that does not load.
NoLoad == IF existed THEN Refuse ELSE NewChain

\* The save a start makes before anything else runs.
FirstSave ==
  /\ phase = "up"
  /\ \/ stage = "new" /\ BeginSave(mem, "new")
     \/ stage = "restore" /\ BeginSave(mem, "change")

Next ==
  \/ \E h \in Blk : Change(h) \/ ImportCheckpoint(h)
  \/ QueueChain \/ QueueRest
  \/ Write \/ Copy \/ WriteFails
  \/ Crash
  \/ \E k \in Kind : Damage(k, "primary", "backup") \/ Damage(k, "backup", "primary")
  \/ Boot \/ Repair \/ Load \/ NoLoad \/ FirstSave

\* The rest of a handler and the queue's promises run as long as the process does.
Fairness ==
  /\ WF_vars(QueueChain) /\ WF_vars(QueueRest)
  /\ WF_vars(Write \/ Copy \/ WriteFails)

Spec == Init /\ [][Next]_vars /\ Fairness

-----------------------------------------------------------------------------
(* Properties. *)

Version == [gen : 1..saves, blocks : Seq(Blk), base : Nat]
LedgerFiles == [height : Nat, tip : Blk, ledger : Blk]
Content(k) == IF k = "chain" THEN Version ELSE LedgerFiles

TypeOK ==
  /\ phase \in {"down", "boot", "up"} /\ existed \in BOOLEAN
  /\ stage \in {"idle", "begin", "queued", "restore", "new"}
  /\ cause \in {"change", "import", "new", "none"}
  /\ \A k \in Kind, copy \in {"primary", "backup"} :
       files[k][copy] \in {Missing, Corrupt} \/ files[k][copy].data \in Content(k)
  /\ \A i \in DOMAIN queue : queue[i].data \in Content(queue[i].kind)
  /\ half \in BOOLEAN /\ attempts \in 0..(MaxAttempts - 1)
  /\ saves \in 0..MaxSaves /\ settled \in 0..saves
  /\ mem.gen \in 0..saves

(* A start puts the right ledger under the chain it loads, whichever        *)
(* generations of the chain file, the chainstate and the snapshot a crash,  *)
(* failed writes and damage have left side by side.                         *)
LoadedExact == phase = "up" => mem.ledger = Last(mem.blocks)

(* The node never refuses to start: as long as damage spares one copy of    *)
(* the chain file, what a start reads can be replayed.                      *)
NeverRefused == [][~ Refuse]_vars

(* The node's files keep the promise of DurableChain: a start loads the     *)
(* newest save that has landed, never one older than the last whose two     *)
(* files were written, never a new chain once one has been saved; and only  *)
(* damage, never the repair of a start, goes back to an older save.         *)
DurableGen ==
  LET copy == Readable(files["chain"]) IN IF IsValid(copy) THEN copy.data.gen ELSE 0

Promise == INSTANCE DurableChain WITH
  running <- phase # "down",
  latest <- IF phase = "up" THEN mem.gen ELSE DurableGen,
  durable <- DurableGen

Durable == Promise!Spec

(* The queue empties again and again however writes fail: no job blocks     *)
(* the ones behind it.                                                      *)
QueueDrains == []<>(queue = <<>>)

=============================================================================
