------------------------------- MODULE Journal -------------------------------
(***************************************************************************)
(* The crash journal of crash-journal.ts, kept beside the files of module  *)
(* Persistence: save() opens an entry before it touches anything, marks    *)
(* the stages it goes through and completes it once its writes are queued; *)
(* load() looks for an entry left open, notes it as recovered, and the     *)
(* repair of a start looks after the journal's two copies as after the     *)
(* other pairs of files.                                                   *)
(*                                                                         *)
(* The journal is written at once, in the turn of the handler that saves,  *)
(* never through the queue.  An entry names the save it is of; its stage,  *)
(* height and files are only shown to an operator and are left out.        *)
(***************************************************************************)
EXTENDS Persistence

VARIABLES
  journal,  (* its [primary, backup]                                       *)
  cut,      (* the save the last crash cut short, 0 if it cut none         *)
  whole     (* has no write or copy the journal's last word needs failed?  *)

journalVars == <<journal, cut, whole>>
allVars == <<vars, journalVars>>

Entry(save, status) == [save |-> save, status |-> status]

\* readCrashJournal: the primary, or the backup where the primary is no entry.
Entered(pair) == IsValid(Readable(pair))
ReadEntry(pair) == Readable(pair).data

\* The hasOpenJournal of its statistics.
Open == Entered(journal) /\ ReadEntry(journal).status = "open"

\* A copy is written whole or not at all, and copied likewise.
Rewritten(pair, entry) == [pair EXCEPT !.primary = Valid(entry)]
Copied(pair) == [pair EXCEPT !.backup = pair.primary]

\* writeCrashJournal: the primary, then the backup; either may fail, and a
\* primary that fails is only reported to a caller that does not look.
Written(pair, entry) ==
  {pair, Rewritten(pair, entry), Copied(Rewritten(pair, entry))}

\* updateCrashJournal: nothing, where there is no entry to update.
Updated(pair, status) ==
  IF Entered(pair) THEN Written(pair, [ReadEntry(pair) EXCEPT !.status = status]) ELSE {pair}

\* The updates of a stage write the entry again as it is.
Staged(pair) == IF Entered(pair) THEN Written(pair, ReadEntry(pair)) ELSE {pair}

JournalInit ==
  /\ journal = [primary |-> Missing, backup |-> Missing]
  /\ cut = 0 /\ whole = TRUE

-----------------------------------------------------------------------------
(* save(). *)

\* beginCrashJournal, and the stage "prune".
Begin ==
  /\ \E begun \in Written(journal, Entry(saves', "open")) :
       /\ journal' \in Staged(begun)
       /\ whole' = (begun.primary = Valid(Entry(saves', "open")))
  /\ UNCHANGED cut

JournalChange(h) == Change(h) /\ Begin
JournalImport(h) == ImportCheckpoint(h) /\ Begin
JournalFirst == FirstSave /\ Begin

\* The stage "chain-save" comes before the chain file is queued.
JournalChainSave ==
  /\ QueueChain
  /\ journal' \in Staged(journal)
  /\ UNCHANGED <<cut, whole>>

\* Mutant: the entry is left open once everything is queued.
Complete_Never(staged) == journal' \in Staged(staged) /\ UNCHANGED whole

\* completeCrashJournal.
Complete(staged) ==
  /\ journal' \in Updated(staged, "complete")
  /\ whole' = (whole /\ (Entered(staged) => ReadEntry(journal').status = "complete"))

\* The stages "chainstate-save" and "snapshot-save", and the end of the save.
JournalRest ==
  /\ QueueRest
  /\ \E staged \in Staged(journal) : Complete(staged)
  /\ UNCHANGED cut

-----------------------------------------------------------------------------
(* Crash, damage and start. *)

JournalCrash ==
  /\ Crash
  /\ cut' = IF stage \in {"begin", "queued"} THEN saves ELSE 0
  /\ UNCHANGED <<journal, whole>>

\* A damaged primary takes with it what its backup does not say.
JournalDamage(copy) ==
  /\ phase = "down"
  /\ IsValid(journal[copy])
  /\ journal' = [journal EXCEPT ![copy] = Corrupt]
  /\ whole' = (whole /\ Readable(journal') = Readable(journal))
  /\ UNCHANGED <<vars, cut>>

\* recoverCrashJournal.
Recover ==
  IF Open
  THEN /\ journal' \in Updated(journal, "recovered")
       /\ whole' = (whole /\ ReadEntry(journal').status = "recovered")
  ELSE UNCHANGED journal /\ UNCHANGED whole

JournalBoot == Boot /\ Recover /\ cut' = 0

\* The journal's pair is the last that recoverChainFiles looks at.
JournalRepair ==
  /\ Repair
  /\ IF Len(todo) = 1 THEN journal' \in RepairedPairs(journal) ELSE UNCHANGED journal
  /\ UNCHANGED <<cut, whole>>

\* What leaves the journal alone.
Aside(A) == A /\ UNCHANGED journalVars

JournalNext ==
  \/ \E h \in Blk : JournalChange(h) \/ JournalImport(h)
  \/ JournalFirst \/ JournalChainSave \/ JournalRest
  \/ Aside(Write) \/ Aside(Copy) \/ Aside(WriteFails)
  \/ JournalCrash
  \/ \E k \in Kind : Aside(Damage(k, "primary", "backup") \/ Damage(k, "backup", "primary"))
  \/ \E copy \in {"primary", "backup"} : JournalDamage(copy)
  \/ JournalBoot \/ JournalRepair
  \/ Aside(Load) \/ Aside(NoLoad)

JournalFairness ==
  /\ WF_allVars(JournalChainSave) /\ WF_allVars(JournalRest)
  /\ WF_allVars(Aside(Write \/ Copy \/ WriteFails))

JournalSpec == Init /\ JournalInit /\ [][JournalNext]_allVars /\ JournalFairness

-----------------------------------------------------------------------------
(* Properties. *)

(* What the journal says when its writes have not failed and no damage has  *)
(* taken its last word: a node that is down has an open entry if and only   *)
(* if the crash cut a save short, and it names that save; in a node that    *)
(* runs, an entry is open only while a save is being made, however often    *)
(* starts were themselves cut short and whatever their repairs did to the   *)
(* two copies.                                                              *)
JournalTells ==
  whole => IF phase = "down"
           THEN IF Open THEN cut = ReadEntry(journal).save ELSE cut = 0
           ELSE Open <=> stage \in {"begin", "queued"}

=============================================================================
