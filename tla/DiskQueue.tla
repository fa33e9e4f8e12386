------------------------------ MODULE DiskQueue ------------------------------
(***************************************************************************)
(* The asynchronous write queue of async-disk.ts and the files it writes.  *)
(*                                                                         *)
(* A job writes one file and then copies it to its backup; each of the two *)
(* is atomic (a temporary file, fsync, rename).  Both happen in one turn   *)
(* of the event loop, so only a crash or an error comes between.  A job    *)
(* that fails is tried again after a delay, before any later job, and      *)
(* given up after MaxAttempts.                                             *)
(***************************************************************************)
EXTENDS Integers, Sequences

CONSTANTS
  Kind,         (* the files a node writes                                 *)
  MaxAttempts   (* DEFAULT_MAX_ATTEMPTS                                    *)

ASSUME DiskAssumption == MaxAttempts \in Nat \ {0}

VARIABLES
  files,     (* kind -> [primary, backup], each missing, corrupt or valid  *)
  queue,     (* AsyncDiskWriteQueue.queue, the job under way at its head   *)
  attempts,  (* attempts made at the job at the head                       *)
  half       (* has the attempt under way written the primary?             *)

diskVars == <<files, queue, attempts, half>>

Missing == [is |-> "missing"]
Corrupt == [is |-> "corrupt"]
Valid(content) == [is |-> "valid", data |-> content]

IsValid(copy) == copy.is = "valid"

Job(kind, content) == [kind |-> kind, data |-> content]

DiskInit ==
  /\ files = [k \in Kind |-> [primary |-> Missing, backup |-> Missing]]
  /\ queue = <<>> /\ attempts = 0 /\ half = FALSE

\* The queue goes on to the next job.
Shift == queue' = Tail(queue) /\ attempts' = 0 /\ half' = FALSE

WritePrimary ==
  /\ queue # <<>> /\ ~ half
  /\ files' = [files EXCEPT ![Head(queue).kind].primary = Valid(Head(queue).data)]
  /\ half' = TRUE
  /\ UNCHANGED <<queue, attempts>>

CopyBackup ==
  /\ half
  /\ files' = [files EXCEPT ![Head(queue).kind].backup = files[Head(queue).kind].primary]
  /\ Shift

\* Mutant: a job that has failed too often is tried for ever.
Fail_Forever ==
  /\ queue # <<>>
  /\ attempts' = (attempts + 1) % MaxAttempts /\ half' = FALSE /\ UNCHANGED queue
  /\ UNCHANGED files

\* The write or the copy throws.
Fail ==
  /\ queue # <<>>
  /\ IF attempts + 1 < MaxAttempts
     THEN attempts' = attempts + 1 /\ half' = FALSE /\ UNCHANGED queue
     ELSE Shift
  /\ UNCHANGED files

\* The process is gone and with it what was only queued.
DiskCrash ==
  /\ queue' = <<>> /\ attempts' = 0 /\ half' = FALSE
  /\ UNCHANGED files
=============================================================================
