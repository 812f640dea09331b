----------------------------- MODULE BackupRestore -----------------------------
(***************************************************************************)
(* backups.restore and project discovery.  A restore checks the archive of *)
(* its plan, extracts it into a staging directory next to the target,      *)
(* renames the project to the target and registers it; a scan of the       *)
(* project directory registers every project it finds there by itself.     *)
(*                                                                         *)
(*   crates/alcomd-application/src/m5_backup.rs    handlers and worker     *)
(*   crates/alcomd-store/src/m5_backup_restore.rs  transactions, recovery  *)
(*   crates/alcomd-vpm/src/backup.rs               steps on the files      *)
(*   crates/alcomd-application/src/project_discovery.rs   the scan         *)
(*   crates/alcomd-application/src/lib.rs          the recovery barrier    *)
(*                                                                         *)
(* Restores of one backup to one target in the project directory; every    *)
(* plan was made while nothing was there.                                  *)
(***************************************************************************)
EXTENDS Naturals

CONSTANTS
    Ops,          \* accepted restores
    None,         \* "no holder", "nobody"
    MaxMishaps    \* bound: cancels, deaths, failing steps, interference by others

ASSUME RestoreAssumption ==
    /\ None \notin Ops
    /\ \A w \in {"other", "client", "scan"} : w \notin Ops /\ w # None
    /\ MaxMishaps \in Nat

VARIABLES
    row,        \* durable: the Operation: state, newest journal phase, cancel flag
    archive,    \* files: whether the archive is still the one the plans saw
    target,     \* files: who made the directory at the target, whether its tree is that
                \* of the backup; durable: who registered this directory
    staging,    \* files: of each restore, its staging directory and the owner file beside it
    discover,   \* whether the settings ask for discovery
    daemon, pc, lock,   \* the daemon process; lock: ProjectCreate(target)
    quit, had,  \* locals of a worker: it is cancelling; it found the target published
    guards,     \* the restores whose task holds a recovery guard
    scan,       \* the scan: where it is, whether the settings it began with and the
                \* directory it listed are still the current ones
    fault,      \* history: restores with a failing step since the last start
    touched,    \* history: others made, edited, removed or registered the target
    mishaps

files  == <<archive, target, staging>>
volatile == <<pc, lock, quit, had, guards, scan>>
vars == <<row, files, discover, daemon, volatile, fault, touched, mishaps>>

Terminal == {"succeeded", "failed", "cancelled"}
States   == Terminal \cup {"absent", "queued", "running", "cancelling", "recovering"}

\* phase_step
Phases == <<"accepted", "archive_verified", "extracting", "staging_complete", "publish_intent",
            "target_published", "project_registry_commit_intent", "state_committed">>
Step(p) == CHOOSE i \in DOMAIN Phases : Phases[i] = p
Reached(o, p) == Step(row[o].phase) >= Step(p)

PCs == {"idle", "begin", "prepare", "enter", "extract", "stage", "clear", "create", "own",
        "fill", "staged", "look", "intent", "publish", "validate", "published",
        "registering", "complete", "revalidate", "finalize", "disown", "finish",
        "drop", "cancelled", "fail"}

Free == [by |-> None, intact |-> FALSE, reg |-> None]
Clean == [dir |-> FALSE, owner |-> "none"]
Rest == [at |-> "idle", fresh |-> FALSE, same |-> FALSE]
Live(o) == row[o].state \notin Terminal \cup {"absent"}

TypeOK ==
    /\ row \in [Ops -> [state : States, phase : {Phases[i] : i \in 1..8}, cancel : BOOLEAN]]
    /\ archive \in BOOLEAN
    /\ target \in [by : Ops \cup {None, "other"}, intact : BOOLEAN,
                   reg : Ops \cup {None, "client", "scan"}]
    /\ staging \in [Ops -> [dir : BOOLEAN, owner : {"none", "torn", "ok"}]]
    /\ discover \in BOOLEAN
    /\ daemon \in {"down", "starting", "up", "refused"}
    /\ pc \in [Ops -> PCs] /\ lock \in Ops \cup {None, "scan"}
    /\ quit \subseteq Ops /\ had \subseteq Ops /\ guards \subseteq Ops
    /\ scan \in [at : {"idle", "listed", "locked"}, fresh : BOOLEAN, same : BOOLEAN]
    /\ fault \subseteq Ops /\ touched \in BOOLEAN /\ mishaps \in Nat

Init ==
    /\ row = [o \in Ops |-> [state |-> "absent", phase |-> "accepted", cancel |-> FALSE]]
    /\ archive = TRUE /\ target = Free /\ staging = [o \in Ops |-> Clean]
    /\ discover = TRUE /\ daemon = "up"
    /\ pc = [o \in Ops |-> "idle"] /\ lock = None
    /\ quit = {} /\ had = {} /\ guards = {} /\ scan = Rest
    /\ fault = {} /\ touched = FALSE /\ mishaps = 0

-----------------------------------------------------------------------------
(* Requests, and the world outside *)

SetState(o, s) == row' = [row EXCEPT ![o].state = s]

Mishap == mishaps < MaxMishaps /\ mishaps' = mishaps + 1

\* apply_restore: a plan is applied once.
Apply(o) ==
    /\ daemon = "up" /\ row[o].state = "absent"
    /\ SetState(o, "queued")
    /\ pc' = [pc EXCEPT ![o] = "begin"]
    /\ UNCHANGED <<files, discover, daemon, lock, quit, had, guards, scan, fault, touched, mishaps>>

\* cancel_operation: for restores, at every phase.
Cancel(o) ==
    /\ daemon = "up" /\ Live(o) /\ Mishap
    /\ row' = [row EXCEPT ![o].cancel = TRUE,
                          ![o].state = IF @ = "queued" THEN "cancelled" ELSE "cancelling"]
    /\ UNCHANGED <<files, discover, daemon, volatile, fault, touched>>

\* Another program edits or removes what is at the target, or puts something there;
\* the archive is replaced or lost.
Meddle ==
    /\ Mishap
    /\ \/ /\ target.intact
          /\ target' = [target EXCEPT !.intact = FALSE]
          /\ touched' = TRUE /\ UNCHANGED <<archive, scan>>
       \/ /\ target' = IF target = Free THEN [Free EXCEPT !.by = "other"] ELSE Free
          /\ touched' = TRUE /\ scan' = [scan EXCEPT !.same = FALSE]
          /\ UNCHANGED archive
       \/ archive /\ archive' = FALSE /\ UNCHANGED <<target, touched, scan>>
    /\ UNCHANGED <<row, staging, discover, daemon, pc, lock, quit, had, guards, fault>>

\* projects.register and projects.unregister take no lock of the target.
Register ==
    /\ daemon = "up" /\ target # Free /\ Mishap
    /\ target' = [target EXCEPT !.reg = IF @ = None THEN "client" ELSE None]
    /\ touched' = TRUE
    /\ UNCHANGED <<row, archive, staging, discover, daemon, volatile, fault>>

\* settings.update; it waits for the fence, which the scan only holds while it registers.
Configure ==
    /\ daemon = "up" /\ Mishap
    /\ discover' = ~discover /\ scan' = [scan EXCEPT !.fresh = FALSE]
    /\ UNCHANGED <<row, files, daemon, pc, lock, quit, had, guards, fault, touched>>

-----------------------------------------------------------------------------
(* The scan of the project directory *)

\* project_recovery_pending: some startup restore still runs.
Pending == guards # {}

ScanStart ==
    /\ daemon = "up" /\ scan.at = "idle"
    /\ ~Pending /\ discover /\ target # Free
    /\ scan' = [at |-> "listed", fresh |-> TRUE, same |-> TRUE]
    /\ UNCHANGED <<row, files, discover, daemon, pc, lock, quit, had, guards, fault, touched,
                   mishaps>>

\* The barrier, the fence, and then the lock of the candidate.
ScanLock ==
    /\ scan.at = "listed"
    /\ \/ /\ ~Pending /\ scan.fresh /\ lock = None
          /\ lock' = "scan" /\ scan' = [scan EXCEPT !.at = "locked"]
       \/ (Pending \/ ~scan.fresh) /\ scan' = Rest /\ UNCHANGED lock
    /\ UNCHANGED <<row, files, discover, daemon, pc, quit, had, guards, fault, touched, mishaps>>

\* The candidate is looked at again, the fence raised again, and a directory nobody
\* registered is registered.
ScanRegister ==
    /\ scan.at = "locked"
    /\ target' = IF scan.same /\ scan.fresh /\ target.reg = None
                 THEN [target EXCEPT !.reg = "scan"] ELSE target
    /\ scan' = Rest /\ lock' = None
    /\ UNCHANGED <<row, archive, staging, discover, daemon, pc, quit, had, guards, fault,
                   touched, mishaps>>

-----------------------------------------------------------------------------
(* The worker *)

At(o, here) == daemon \in {"starting", "up"} /\ pc[o] = here
Goto(o, there) == pc' = [pc EXCEPT ![o] = there]

\* The lock goes with run_restore_inner, the recovery guard with the whole task.
Unlock(o) == /\ lock' = IF lock = o THEN None ELSE lock
             /\ quit' = quit \ {o} /\ had' = had \ {o}

\* Mutant: the end of a task keeps the lock of the target.
EndTaskKeepsLock(o) == Goto(o, "idle") /\ quit' = quit \ {o} /\ had' = had \ {o}
                       /\ guards' = guards \ {o} /\ UNCHANGED lock

EndTask(o) == Goto(o, "idle") /\ Unlock(o) /\ guards' = guards \ {o}

\* On to the next step, or to the error path.
Onward(o, there) ==
    /\ Goto(o, there)
    /\ IF there = "fail" THEN Unlock(o) ELSE UNCHANGED <<lock, quit, had>>
    /\ UNCHANGED guards

Rest1 == <<discover, daemon, scan, fault, touched, mishaps>>

\* A step that only decides where to go.
Decide(o, here, there) == At(o, here) /\ Onward(o, there) /\ UNCHANGED <<row, files, Rest1>>

\* A step on the staging directory.
Stages(o, here, s, there) ==
    /\ At(o, here) /\ staging' = [staging EXCEPT ![o] = s] /\ Onward(o, there)
    /\ UNCHANGED <<row, archive, target, Rest1>>

\* record_backup_restore_checkpoint: a phase already recorded is left alone.
Checkpoint(o, here, p, there) ==
    /\ At(o, here)
    /\ row' = IF Reached(o, p) THEN row ELSE [row EXCEPT ![o].phase = p]
    /\ Onward(o, there)
    /\ UNCHANGED <<files, Rest1>>

\* begin_backup_restore
Begin(o) ==
    IF row[o].state \in {"queued", "recovering"}
    THEN /\ At(o, "begin") /\ SetState(o, "running")
         /\ Onward(o, IF Reached(o, "state_committed") THEN "revalidate" ELSE "prepare")
         /\ UNCHANGED <<files, Rest1>>
    ELSE Decide(o, "begin", "fail")

\* prepare_restore: the archive, at every phase.
Prepare(o) ==
    IF archive THEN Checkpoint(o, "prepare", "archive_verified", "enter")
               ELSE Decide(o, "prepare", "fail")

\* The lock of the target, and the first look for a cancel.
Enter(o) ==
    LET early == ~Reached(o, "publish_intent") IN
    /\ At(o, "enter") /\ lock = None /\ lock' = o
    /\ quit' = IF early /\ row[o].cancel THEN quit \cup {o} ELSE quit
    /\ Goto(o, IF Reached(o, "target_published") THEN "validate"
               ELSE IF early /\ row[o].cancel THEN "stage" ELSE "extract")
    /\ UNCHANGED <<row, files, had, guards, Rest1>>

\* stage_restore: an existing target is one this restore published before; else an
\* older staging directory is cleared first, if its owner file says whose it is.
AfterStage(o) == IF o \in quit THEN "drop" ELSE "staged"

\* Mutant: a staging directory that is already there is an error.
StageNoClear(o) ==
    /\ At(o, "stage")
    /\ LET there == IF target # Free
                    THEN IF staging[o].owner = "ok" THEN AfterStage(o) ELSE "fail"
                    ELSE IF staging[o] = Clean THEN "create" ELSE "fail"
       IN /\ Goto(o, there)
          /\ IF there = "fail" THEN Unlock(o)
             ELSE /\ had' = IF target # Free THEN had \cup {o} ELSE had
                  /\ UNCHANGED <<lock, quit>>
    /\ UNCHANGED <<row, files, guards, Rest1>>

Stage(o) ==
    /\ At(o, "stage")
    /\ LET there == IF target # Free
                    THEN IF staging[o].owner = "ok" THEN AfterStage(o) ELSE "fail"
                    ELSE CASE staging[o] = Clean       -> "create"
                           [] staging[o].owner = "ok"  -> "clear"
                           [] OTHER                    -> "fail"
       IN /\ Goto(o, there)
          /\ IF there = "fail" THEN Unlock(o)
             ELSE /\ had' = IF target # Free THEN had \cup {o} ELSE had
                  /\ UNCHANGED <<lock, quit>>
    /\ UNCHANGED <<row, files, guards, Rest1>>

\* remove_restore_staging: the directory, then the owner file.
Remove(o, here, there) ==
    IF staging[o].dir THEN Stages(o, here, [staging[o] EXCEPT !.dir = FALSE], here)
                      ELSE Stages(o, here, Clean, there)

\* write_restore_owner: the file is made, then written.
Own(o) ==
    IF staging[o].owner = "none"
    THEN Stages(o, "own", [staging[o] EXCEPT !.owner = "torn"], "own")
    ELSE Stages(o, "own", [staging[o] EXCEPT !.owner = "ok"], "fill")

\* Extraction; the archive and the extracted tree are compared with the plan.
Fill(o) == Decide(o, "fill", IF archive THEN AfterStage(o) ELSE "fail")

\* Mutant: the second look forgets the staging directory.
LookKeepsStaging(o) == Decide(o, "look", IF row[o].cancel THEN "cancelled" ELSE "intent")

Look(o) == Decide(o, "look", IF row[o].cancel THEN "drop" ELSE "intent")

\* discard_staged_restore
Drop(o) == IF o \in had THEN Decide(o, "drop", "fail") ELSE Remove(o, "drop", "cancelled")

\* publish_restore: the project is renamed to the target.
Publish(o) ==
    IF o \notin had /\ target = Free
    THEN /\ At(o, "publish") /\ Onward(o, "validate")
         /\ target' = [by |-> o, intact |-> TRUE, reg |-> None]
         /\ UNCHANGED <<row, archive, staging, Rest1>>
    ELSE Decide(o, "publish", IF o \in had THEN "validate" ELSE "fail")

\* validate_published_restore: the owner file and the tree, not who made the directory.
Valid(o) == staging[o].owner = "ok" /\ target.intact
Validate(o, here, there) == Decide(o, here, IF Valid(o) THEN there ELSE "fail")

\* complete_backup_restore: the row of the project and the phase, in one transaction.  A
\* directory that is gone by now is registered too, under an identity nobody has.
Complete(o) ==
    IF target.by \in Ops /\ target.reg # None THEN Decide(o, "complete", "fail")
    ELSE /\ At(o, "complete") /\ Onward(o, "finalize")
         /\ target' = IF target.by \in Ops THEN [target EXCEPT !.reg = o] ELSE target
         /\ row' = [row EXCEPT ![o].phase = "state_committed"]
         /\ UNCHANGED <<archive, staging, Rest1>>

\* finalize_restore: the tree once more, then the staging directory, then the owner file.
Finalize(o) ==
    IF target.intact /\ staging[o].owner = "ok"
    THEN Stages(o, "finalize", [staging[o] EXCEPT !.dir = FALSE], "disown")
    ELSE Decide(o, "finalize", IF target.intact /\ staging[o] = Clean THEN "finish" ELSE "fail")

\* finish_backup_restore_success
Finish(o) ==
    /\ At(o, "finish") /\ SetState(o, "succeeded") /\ EndTask(o)
    /\ UNCHANGED <<files, Rest1>>

\* finish_cancelled: the frozen transitions let no running Operation become cancelled.
Cancelled(o) ==
    IF row[o].state = "running" THEN Decide(o, "cancelled", "fail")
    ELSE /\ At(o, "cancelled") /\ EndTask(o)
         /\ IF Live(o) THEN SetState(o, "cancelled") ELSE UNCHANGED row
         /\ UNCHANGED <<files, Rest1>>

\* Mutant: a failed restore has failed, whatever it published.
FailAlways(o) ==
    /\ At(o, "fail") /\ EndTask(o)
    /\ IF Live(o) THEN SetState(o, "failed") ELSE UNCHANGED row
    /\ UNCHANGED <<files, Rest1>>

\* fail_backup_restore: between the intent and the commit the restore waits for the
\* next start.
Fail(o) ==
    /\ At(o, "fail") /\ EndTask(o)
    /\ IF Live(o)
       THEN SetState(o, IF Reached(o, "publish_intent") /\ ~Reached(o, "state_committed")
                        THEN "recovering" ELSE "failed")
       ELSE UNCHANGED row
    /\ UNCHANGED <<files, Rest1>>

\* A store request or a step on the files fails; an error of fail itself ends the task.
Fault(o) ==
    /\ daemon \in {"starting", "up"} /\ pc[o] \notin {"idle", "enter"} /\ Mishap
    /\ fault' = fault \cup {o}
    /\ IF pc[o] = "fail" THEN EndTask(o) ELSE Onward(o, "fail")
    /\ UNCHANGED <<row, files, discover, daemon, scan, touched>>

WorkerStep(o) ==
    \/ Begin(o) \/ Prepare(o)
    \/ Checkpoint(o, "extract", "extracting", "stage")
    \/ Stage(o)
    \/ Remove(o, "clear", "create")
    \/ Stages(o, "create", [staging[o] EXCEPT !.dir = TRUE], "own")
    \/ Own(o) \/ Fill(o)
    \/ Checkpoint(o, "staged", "staging_complete", "look")
    \/ Look(o) \/ Drop(o)
    \/ Checkpoint(o, "intent", "publish_intent", "publish")
    \/ Publish(o)
    \/ Validate(o, "validate", "published")
    \/ Checkpoint(o, "published", "target_published", "registering")
    \/ Checkpoint(o, "registering", "project_registry_commit_intent", "complete")
    \/ Complete(o)
    \/ Validate(o, "revalidate", "finalize")
    \/ Finalize(o)
    \/ Stages(o, "disown", Clean, "finish")
    \/ Finish(o) \/ Cancelled(o) \/ Fail(o)

-----------------------------------------------------------------------------
(* The daemon process *)

Dead == /\ pc' = [o \in Ops |-> "idle"] /\ lock' = None
        /\ quit' = {} /\ had' = {} /\ guards' = {} /\ scan' = Rest

Crash ==
    /\ daemon \in {"starting", "up"} /\ Mishap
    /\ daemon' = "down" /\ Dead
    /\ UNCHANGED <<row, files, discover, fault, touched>>

\* Mutant: recovered restores are scheduled without a recovery guard.
GuardedNot(o) == FALSE

\* schedule_restore: at a start, with a recovery guard.
Guarded(o) == Live(o)

\* recover: every unfinished restore is worked on again.
Start ==
    /\ daemon \in {"down", "refused"} /\ daemon' = "starting"
    /\ row' = [o \in Ops |-> IF Live(o) /\ row[o].state # "queued"
                             THEN [row[o] EXCEPT !.state = "recovering"] ELSE row[o]]
    /\ pc' = [o \in Ops |-> IF Live(o) THEN "begin" ELSE "idle"]
    /\ guards' = {o \in Ops : Guarded(o)}
    /\ fault' = {}
    /\ UNCHANGED <<files, discover, lock, quit, had, scan, touched, mishaps>>

\* finalize_restore for every restore that ever succeeded: its tree has to be the
\* backup's to this day, or bind fails.
Untouched == \A o \in Ops : row[o].state = "succeeded" => target.intact

Ready ==
    /\ daemon = "starting" /\ Untouched
    /\ daemon' = "up"
    /\ UNCHANGED <<row, files, discover, volatile, fault, touched, mishaps>>

Refuse ==
    /\ daemon = "starting" /\ ~Untouched
    /\ daemon' = "refused" /\ Dead
    /\ UNCHANGED <<row, files, discover, fault, touched, mishaps>>

Next ==
    \/ \E o \in Ops : Apply(o) \/ Cancel(o) \/ WorkerStep(o) \/ Enter(o) \/ Fault(o)
    \/ Meddle \/ Register \/ Configure
    \/ ScanStart \/ ScanLock \/ ScanRegister
    \/ Crash \/ Start \/ Ready \/ Refuse

\* Tasks run, the tokio mutex of the target is fair, and the daemon is started again.
Spec ==
    /\ Init /\ [][Next]_vars
    /\ \A o \in Ops : WF_vars(WorkerStep(o)) /\ SF_vars(Enter(o))
    /\ WF_vars(ScanLock \/ ScanRegister)
    /\ WF_vars(Start \/ Ready \/ Refuse)

-----------------------------------------------------------------------------
(* Properties *)

\* A cancelled restore published nothing and left no staging directory; a failed one
\* published nothing unless its project is registered; a succeeded one cleaned up.
ReportsAreTrue ==
    \A o \in Ops :
        /\ row[o].state = "cancelled" => target.by # o /\ staging[o] = Clean
        /\ row[o].state = "failed" /\ target.by = o => Reached(o, "state_committed")
        /\ row[o].state = "succeeded" => Reached(o, "state_committed") /\ staging[o] = Clean

\* A restore nobody works on although it is not finished.
Stuck(o) == daemon = "up" /\ pc[o] = "idle" /\ Live(o)

\* It is only left so after a failing step, a cancel, a change of the archive, a
\* target others touched or registered, or an owner file cut short by a death: a death of the
\* daemon alone is always worked off by the next start.
StuckForAReason ==
    \A o \in Ops : Stuck(o) =>
        \/ o \in fault \/ row[o].cancel \/ ~archive \/ touched
        \/ staging[o].owner = "torn" \/ (staging[o].dir /\ staging[o].owner = "none")
        \/ target.by \notin {None, o} \/ target.reg \notin {None, o}

\* A scan never takes the directory of a restore that is about to register it, not even
\* at a start, where the restore does not hold the lock of the target yet, and never
\* registers anything while the settings forbid it.
ScanWaitsForRestores ==
    [][target.reg = None /\ target'.reg = "scan"
        => /\ discover
           /\ \A o \in Ops : target.by = o /\ ~Reached(o, "state_committed")
                             => pc[o] \in {"idle", "fail"}]_vars

\* An accepted restore ends, or waits for a reason, or the daemon does not start.
SettlesUnlessStuck ==
    \A o \in Ops : row[o].state = "queued"
        ~> row[o].state \in Terminal \/ Stuck(o) \/ daemon = "refused"

\* What the documents promise: a change of a published target is an error of the
\* restore, never of the daemon.
EveryStartServes == daemon # "refused"
=============================================================================
