------------------------------ MODULE BackupCreate ------------------------------
(***************************************************************************)
(* backups.create: the files of a project are listed, written to a partial *)
(* archive one by one, listed once more, and the archive is renamed into   *)
(* place and recorded.                                                     *)
(*                                                                         *)
(*   crates/alcomd-application/src/m5_backup.rs   handlers and worker      *)
(*   crates/alcomd-store/src/m5_backup.rs         transactions, recovery   *)
(*   crates/alcomd-vpm/src/backup.rs              steps on the files       *)
(*                                                                         *)
(* Backups of one project.  Its source is a few files, each with a version *)
(* that stands for identity, length and time stamp; an editor may save     *)
(* some of them at any time.                                               *)
(***************************************************************************)
EXTENDS Naturals

CONSTANTS
    Ops,          \* accepted backups
    Files,        \* files of the project, in the order they are walked
    None,         \* "no holder"
    MaxMishaps    \* bound: cancels, deaths, failing steps, saves and other interference

ASSUME BackupAssumption ==
    /\ None \notin Ops
    /\ Files = 1..2
    /\ MaxMishaps \in Nat

VARIABLES
    row,        \* durable: the Operation: state, newest journal phase, cancel flag
    recorded,   \* durable: the backups in the table of backups
    current,    \* the accepted backups whose expected revision is that of the project
    unity,      \* whether Unity is seen to have the project open
    source, was,\* files: the project; history: every state it was in
    partial,    \* files: the partial archive of each backup
    archive,    \* files: the archive of each backup
    content,    \* what was written to it
    listing,    \* local of a worker: its inventory
    daemon, pc, lock,   \* the daemon process; lock: Project(project)
    fault,      \* history: backups with a failing step
    moved,      \* history: the project's revision moved, or Unity was opened
    died,       \* history: a death
    mishaps

store  == <<row, recorded>>
world  == <<current, unity, moved>>
files  == <<source, was, partial, archive, content>>
process == <<daemon, pc, lock, listing>>
vars == <<store, world, files, process, fault, died, mishaps>>

Terminal == {"succeeded", "failed", "cancelled"}
States   == Terminal \cup {"absent", "queued", "running", "cancelling", "interrupted",
                           "recovering"}

\* phase_step
Phases == <<"accepted", "inventory_ready", "archiving", "archive_ready", "publish_intent",
            "archive_published", "state_committed">>
Step(p) == CHOOSE i \in DOMAIN Phases : Phases[i] = p
Reached(o, p) == Step(row[o].phase) >= Step(p)

PCs == {"idle", "begin", "look", "lock", "check", "list1", "list2", "listed", "lookListed",
        "archiving", "open", "write1", "write2", "again1", "again2", "written", "broken",
        "lookReady", "intent", "publish", "sync", "published", "complete",
        "drop", "cancelled", "defer", "fail"}

Content == [Files -> Nat]
Nothing == [f \in Files |-> 0]
Live(o) == row[o].state \notin Terminal \cup {"absent"}

TypeOK ==
    /\ row \in [Ops -> [state : States, phase : {Phases[i] : i \in 1..7}, cancel : BOOLEAN]]
    /\ recorded \subseteq Ops /\ current \subseteq Ops
    /\ unity \in BOOLEAN /\ moved \in BOOLEAN
    /\ source \in Content /\ was \subseteq Content
    /\ partial \in [Ops -> {"none", "torn", "whole"}]
    /\ archive \in [Ops -> {"none", "torn", "whole"}]
    /\ content \in [Ops -> Content] /\ listing \in [Ops -> Content]
    /\ daemon \in {"down", "up"}
    /\ pc \in [Ops -> PCs] /\ lock \in Ops \cup {None}
    /\ fault \subseteq Ops /\ died \in BOOLEAN /\ mishaps \in Nat

Init ==
    /\ row = [o \in Ops |-> [state |-> "absent", phase |-> "accepted", cancel |-> FALSE]]
    /\ recorded = {} /\ current = {} /\ unity = FALSE /\ moved = FALSE
    /\ source = [f \in Files |-> 1] /\ was = {source}
    /\ partial = [o \in Ops |-> "none"] /\ archive = [o \in Ops |-> "none"]
    /\ content = [o \in Ops |-> Nothing] /\ listing = [o \in Ops |-> Nothing]
    /\ daemon = "up" /\ pc = [o \in Ops |-> "idle"] /\ lock = None
    /\ fault = {} /\ died = FALSE /\ mishaps = 0

-----------------------------------------------------------------------------
(* Requests, and the world outside *)

SetState(o, s) == row' = [row EXCEPT ![o].state = s]
Mishap == mishaps < MaxMishaps /\ mishaps' = mishaps + 1

\* accept_backup_create: with the revision the project has.
Create(o) ==
    /\ daemon = "up" /\ row[o].state = "absent"
    /\ SetState(o, "queued") /\ current' = current \cup {o}
    /\ pc' = [pc EXCEPT ![o] = "begin"]
    /\ UNCHANGED <<recorded, unity, moved, files, daemon, lock, listing, fault, died, mishaps>>

\* cancel_operation: for backups, at every phase.
Cancel(o) ==
    /\ daemon = "up" /\ Live(o) /\ Mishap
    /\ row' = [row EXCEPT ![o].cancel = TRUE,
                          ![o].state = CASE @ = "queued"      -> "cancelled"
                                         [] @ = "interrupted" -> "interrupted"
                                         [] OTHER             -> "cancelling"]
    /\ UNCHANGED <<recorded, world, files, process, fault, died>>

\* An editor saves one file or several.
Edit ==
    /\ Mishap
    /\ \E saved \in SUBSET Files \ {{}} :
          source' = [f \in Files |-> source[f] + IF f \in saved THEN 1 ELSE 0]
    /\ was' = was \cup {source'}
    /\ UNCHANGED <<store, world, partial, archive, content, process, fault, died>>

\* The row of the project gets a new revision or goes, or Unity is opened or closed.
Touch ==
    /\ Mishap /\ moved' = TRUE
    /\ \/ daemon = "up" /\ current' = {} /\ UNCHANGED unity
       \/ unity' = ~unity /\ UNCHANGED current
    /\ UNCHANGED <<store, files, process, fault, died>>

\* A partial or a finished archive is lost or damaged.
Damage ==
    /\ Mishap
    /\ \E o \in Ops, harm \in {"none", "torn"} :
          \/ /\ partial[o] = "whole" /\ partial' = [partial EXCEPT ![o] = harm]
             /\ UNCHANGED archive
          \/ /\ archive[o] = "whole" /\ archive' = [archive EXCEPT ![o] = harm]
             /\ UNCHANGED partial
    /\ UNCHANGED <<store, world, source, was, content, process, fault, died>>

-----------------------------------------------------------------------------
(* The worker *)

At(o, here) == daemon = "up" /\ pc[o] = here

\* run_inner ends, and its lock with it, before an error is recorded.
Ends == {"idle", "defer", "fail"}

\* Mutant: an error keeps the lock of the project.
OnwardKeepsLock(o, there) ==
    /\ pc' = [pc EXCEPT ![o] = there]
    /\ lock' = IF lock = o /\ there = "idle" /\ pc[o] # "fail" THEN None ELSE lock
    /\ listing' = IF there \in Ends THEN [listing EXCEPT ![o] = Nothing] ELSE listing

Onward(o, there) ==
    /\ pc' = [pc EXCEPT ![o] = there]
    /\ lock' = IF lock = o /\ there \in Ends THEN None ELSE lock
    /\ listing' = IF there \in Ends THEN [listing EXCEPT ![o] = Nothing] ELSE listing

Rest == <<world, daemon, fault, died, mishaps>>

Decide(o, here, there) ==
    At(o, here) /\ Onward(o, there) /\ UNCHANGED <<store, files, Rest>>

\* A step on the partial archive.
Writes(o, here, p, there) ==
    /\ At(o, here) /\ partial' = [partial EXCEPT ![o] = p] /\ Onward(o, there)
    /\ UNCHANGED <<store, source, was, archive, content, Rest>>

\* record_backup_checkpoint: a step already in the journal is left alone.
Checkpoint(o, here, p, there) ==
    /\ At(o, here) /\ Onward(o, there)
    /\ row' = IF Reached(o, p) THEN row ELSE [row EXCEPT ![o].phase = p]
    /\ UNCHANGED <<recorded, files, Rest>>

\* begin_backup_create
Begin(o) ==
    IF row[o].state \in {"queued", "recovering", "cancelling", "cancelled"}
    THEN /\ At(o, "begin") /\ Onward(o, "look")
         /\ IF row[o].state \in {"queued", "recovering"}
            THEN SetState(o, "running") ELSE UNCHANGED row
         /\ UNCHANGED <<recorded, files, Rest>>
    ELSE Decide(o, "begin", "fail")

\* Mutant: a cancel is taken at every phase.
LookAlways(o) ==
    Decide(o, "look", IF row[o].cancel
                      THEN IF Reached(o, "archiving") THEN "drop" ELSE "cancelled"
                      ELSE "lock")

\* The first look for a cancel; it leaves an Operation past its intent alone.
Look(o) ==
    Decide(o, "look",
           IF row[o].cancel /\ ~Reached(o, "publish_intent")
           THEN IF Reached(o, "archiving") THEN "drop" ELSE "cancelled"
           ELSE "lock")

Lock(o) ==
    /\ At(o, "lock") /\ lock = None /\ lock' = o
    /\ pc' = [pc EXCEPT ![o] = "check"]
    /\ UNCHANGED <<store, files, listing, Rest>>

\* The project still has the revision of the request and Unity is not seen to run: at
\* every phase.
Check(o) ==
    Decide(o, "check",
           IF o \notin current \/ unity THEN "fail"
           ELSE IF ~Reached(o, "archive_ready") THEN "list1"
           ELSE IF ~Reached(o, "publish_intent") THEN "lookReady" ELSE "publish")

\* build_inventory: one file after the other.
List(o, here, f, there) ==
    /\ At(o, here) /\ pc' = [pc EXCEPT ![o] = there]
    /\ listing' = [listing EXCEPT ![o][f] = source[f]]
    /\ UNCHANGED <<store, files, lock, Rest>>

\* After the inventory: the partial archive of an earlier run is not thought of.
LookListed(o) == Decide(o, "lookListed", IF row[o].cancel THEN "cancelled" ELSE "archiving")

\* Mutant: only the lengths are compared, and a save may keep them.
SameLength(o, f) == TRUE

\* matches_snapshot: a file is still what the inventory says.
Same(o, f) == source[f] = listing[o][f]

\* write_archive: a file is written if it is what was listed, before and after.  The
\* poller may have seen a cancel.  The partial archive goes with an error.
Write(o, here, f, p, there) ==
    \/ /\ At(o, here) /\ Same(o, f)
       /\ content' = [content EXCEPT ![o][f] = source[f]]
       /\ partial' = [partial EXCEPT ![o] = p] /\ Onward(o, there)
       /\ UNCHANGED <<store, source, was, archive, Rest>>
    \/ /\ ~Same(o, f) \/ row[o].cancel
       /\ Writes(o, here, "none", "broken")

\* The second inventory has to be the first one.
Again(o, here, f, there) ==
    \/ Same(o, f) /\ Decide(o, here, there)
    \/ ~Same(o, f) /\ Writes(o, here, "none", "broken")

\* The archive failed; that is a cancel if one was asked for.
Broken(o) == Decide(o, "broken", IF row[o].cancel THEN "drop" ELSE "fail")

\* The last look for a cancel.
LookReady(o) == Decide(o, "lookReady", IF row[o].cancel THEN "drop" ELSE "intent")

\* publish_or_recover: an archive that is there already has to be the one of the journal.
Publish(o) ==
    CASE archive[o] = "whole" -> Writes(o, "publish", "none", "published")
      [] archive[o] = "torn"  -> Decide(o, "publish", "fail")
      [] OTHER ->
           CASE partial[o] = "whole" ->
                   /\ At(o, "publish") /\ Onward(o, "sync")
                   /\ partial' = [partial EXCEPT ![o] = "none"]
                   /\ archive' = [archive EXCEPT ![o] = "whole"]
                   /\ UNCHANGED <<store, source, was, content, Rest>>
             [] partial[o] = "torn" -> Decide(o, "publish", "fail")
             [] OTHER -> Decide(o, "publish", "defer")

\* The directory is flushed and the archive read back.
Sync(o) ==
    Decide(o, "sync", CASE archive[o] = "whole" -> "published"
                        [] archive[o] = "torn"  -> "fail"
                        [] OTHER                -> "defer")

\* Mutant: the Operation ends before its backup is recorded.
CompleteUnrecorded(o) ==
    /\ At(o, "complete") /\ Onward(o, "idle")
    /\ row' = [row EXCEPT ![o].state = "succeeded", ![o].phase = "state_committed"]
    /\ UNCHANGED <<recorded, files, Rest>>

\* complete_backup_create: the backup, the phase and the end, in one transaction.
Complete(o) ==
    /\ At(o, "complete") /\ Onward(o, "idle")
    /\ recorded' = recorded \cup {o}
    /\ row' = [row EXCEPT ![o].state = "succeeded", ![o].phase = "state_committed"]
    /\ UNCHANGED <<files, Rest>>

\* finish_cancelled: the frozen transitions let no running Operation become cancelled.
Cancelled(o) ==
    IF row[o].state = "running" THEN Decide(o, "cancelled", "fail")
    ELSE /\ At(o, "cancelled") /\ Onward(o, "idle")
         /\ IF Live(o) THEN SetState(o, "cancelled") ELSE UNCHANGED row
         /\ UNCHANGED <<recorded, files, Rest>>

\* defer_backup_recovery, fail_backup_create
End(o, here, s) ==
    /\ At(o, here) /\ Onward(o, "idle")
    /\ IF Live(o) THEN SetState(o, s) ELSE UNCHANGED row
    /\ UNCHANGED <<recorded, files, Rest>>

\* A store request or a step on the files fails.  An error of the archive removes it; an
\* error while an error is recorded ends the task.
Fault(o) ==
    /\ daemon = "up" /\ pc[o] \notin {"idle", "lock"} /\ Mishap
    /\ fault' = fault \cup {o}
    /\ IF pc[o] \in {"open", "write1", "write2", "again1", "again2"}
       THEN partial' = [partial EXCEPT ![o] = "none"] /\ Onward(o, "broken")
       ELSE Onward(o, IF pc[o] \in {"fail", "defer"} THEN "idle" ELSE "fail") /\ UNCHANGED partial
    /\ UNCHANGED <<store, world, source, was, archive, content, daemon, died>>

WorkerStep(o) ==
    \/ Begin(o) \/ Look(o) \/ Check(o)
    \/ List(o, "list1", 1, "list2") \/ List(o, "list2", 2, "listed")
    \/ Checkpoint(o, "listed", "inventory_ready", "lookListed")
    \/ LookListed(o)
    \/ Checkpoint(o, "archiving", "archiving", "open")
    \/ Writes(o, "open", "torn", "write1")
    \/ Write(o, "write1", 1, "torn", "write2") \/ Write(o, "write2", 2, "whole", "again1")
    \/ Again(o, "again1", 1, "again2") \/ Again(o, "again2", 2, "written")
    \/ Broken(o)
    \/ Checkpoint(o, "written", "archive_ready", "lookReady")
    \/ LookReady(o)
    \/ Checkpoint(o, "intent", "publish_intent", "publish")
    \/ Publish(o) \/ Sync(o)
    \/ Checkpoint(o, "published", "archive_published", "complete")
    \/ Complete(o)
    \/ Writes(o, "drop", "none", "cancelled") \/ Cancelled(o)
    \/ End(o, "defer", "interrupted") \/ End(o, "fail", "failed")

-----------------------------------------------------------------------------
(* The daemon process *)

Crash ==
    /\ daemon = "up" /\ Mishap
    /\ daemon' = "down" /\ died' = TRUE
    /\ pc' = [o \in Ops |-> "idle"] /\ lock' = None
    /\ listing' = [o \in Ops |-> Nothing]
    /\ UNCHANGED <<store, world, files, fault>>

\* recover_backup_operations: queued ones are recovered too.
Start ==
    /\ daemon = "down" /\ daemon' = "up"
    /\ row' = [o \in Ops |-> IF Live(o) THEN [row[o] EXCEPT !.state = "recovering"] ELSE row[o]]
    /\ pc' = [o \in Ops |-> IF Live(o) THEN "begin" ELSE "idle"]
    /\ UNCHANGED <<recorded, world, files, lock, listing, fault, died, mishaps>>

Next ==
    \/ \E o \in Ops : Create(o) \/ Cancel(o) \/ WorkerStep(o) \/ Lock(o) \/ Fault(o)
    \/ Edit \/ Touch \/ Damage
    \/ Crash \/ Start

\* Tasks run, the tokio mutex of the project is fair, and the daemon is started again.
Spec ==
    /\ Init /\ [][Next]_vars
    /\ \A o \in Ops : WF_vars(WorkerStep(o)) /\ SF_vars(Lock(o))
    /\ WF_vars(Start)

-----------------------------------------------------------------------------
(* Properties *)

\* What is published is the project as it was at one moment.
ArchiveIsASnapshot == \A o \in Ops : archive[o] # "none" => content[o] \in was

\* A backup is recorded exactly if its Operation succeeded; a cancelled one published
\* nothing, and leaves a partial archive behind only after a death.
ReportsAreTrue ==
    \A o \in Ops :
        /\ o \in recorded <=> row[o].state = "succeeded"
        /\ row[o].state = "cancelled" =>
              archive[o] = "none" /\ (partial[o] # "none" => died)

\* An archive without a record, of an Operation that is over, needs a failing step or a
\* project that moved on; deaths and cancels alone never leave one.
OrphanForAReason ==
    \A o \in Ops : row[o].state \in Terminal /\ archive[o] = "whole" /\ o \notin recorded
        => o \in fault \/ moved

\* A backup nobody works on although it is not finished.
Stuck(o) == daemon = "up" /\ pc[o] = "idle" /\ Live(o)

\* An accepted backup ends, or an error could not be recorded, or its partial archive was
\* lost after the intent and it waits for the next start.
SettlesUnlessStuck ==
    \A o \in Ops : row[o].state = "queued"
        ~> row[o].state \in Terminal \cup {"interrupted"} \/ (Stuck(o) /\ o \in fault)


=============================================================================
