----------------------------- MODULE ProjectDelete -----------------------------
(***************************************************************************)
(* projects.delete-directory: the directory of a registered project is     *)
(* moved into a quarantine next to it, its registry row is deleted, and    *)
(* only then the directory is removed.                                     *)
(*                                                                         *)
(*   crates/alcomd-application/src/m7_delete.rs   handlers and worker      *)
(*   crates/alcomd-store/src/m7_delete.rs         transactions, recovery   *)
(*   crates/alcomd-vpm/src/project_delete.rs      steps on the file system *)
(*                                                                         *)
(* One project and the deletions planned for it.  A transaction is one     *)
(* step, and so is a rename or a removal; between two steps the process    *)
(* may die, a request may arrive, another program may touch the path.      *)
(***************************************************************************)
EXTENDS Naturals

CONSTANTS
    Ops,          \* deletions planned for the project
    None,         \* "no holder" of the locks
    MaxMishaps    \* bound: deaths of the daemon, steps that fail, and changes of
                  \* the project by other requests or programs, all together

ASSUME DeleteAssumption ==
    /\ None \notin Ops
    /\ MaxMishaps \in Nat

VARIABLES
    row,         \* durable: the Operation: state, newest journal phase, cancel flag
    planRev,     \* durable: project revision an unapplied or applied plan saw, 0: no plan
    project,     \* durable: revision of the projects row, 0: no such row
    deletedEvent,\* durable: project.directory_deleted was published
    root,        \* files: what is at the registered path
    wrapper,     \* files: the quarantine directory of each deletion
    payload,     \* files: what is in it
    destroyed,   \* history: what a cleanup began to remove
    daemon, pc, seen, lock,   \* the daemon process
    crashes, faults, touches, outside

store  == <<row, planRev, project, deletedEvent>>
files  == <<root, wrapper, payload, destroyed>>
bounds == <<crashes, faults, touches, outside>>
Mishaps == crashes + faults + touches + outside
vars   == <<store, files, daemon, pc, seen, lock, bounds>>

Terminal == {"succeeded", "failed", "cancelled"}
States   == Terminal \cup {"absent", "queued", "running", "cancelling", "recovering"}

\* Mutant: the intent itself does not count.
AfterIntentLate == {"root_quarantined", "registry_commit_intent", "state_committed",
                    "deleting", "cleanup_complete", "recovery_required"}

AfterIntent == {"quarantine_intent", "root_quarantined", "registry_commit_intent",
                "state_committed", "deleting", "cleanup_complete", "recovery_required"}
Phases == AfterIntent \cup {"accepted", "preflight_complete"}

\* Where a worker stands; "idle" also when it has ended.
PCs == {"idle", "begin", "lock", "make", "own", "preflighted", "look1", "check",
        "look2", "intent", "rename", "moved", "quarantined", "validate",
        "commitIntent", "commit", "deleting", "remove", "removing", "disown",
        "unwrap", "cleaned", "finish", "dropOwner", "dropWrapper", "cancelled",
        "backOut", "backOutWrapper", "fail"}

Live(o)      == row[o].state \notin Terminal \cup {"absent"}
PastIntent(o) == row[o].phase \in AfterIntent

TypeOK ==
    /\ row \in [Ops -> [state : States, phase : Phases, cancel : BOOLEAN]]
    /\ planRev \in [Ops -> Nat]
    /\ project \in Nat
    /\ deletedEvent \in BOOLEAN
    /\ root \in {"project", "other", "none"}
    /\ wrapper \in [Ops -> {"none", "bare", "owned"}]
    /\ payload \in [Ops -> {"none", "project", "other"}]
    /\ destroyed \subseteq {"project", "other"}
    /\ daemon \in {"down", "up"}
    /\ pc \in [Ops -> PCs]
    /\ seen \in [Ops -> Phases]
    /\ lock \in Ops \cup {None}
    /\ crashes \in Nat /\ faults \in Nat /\ touches \in Nat /\ outside \in Nat

Init ==
    /\ row = [o \in Ops |-> [state |-> "absent", phase |-> "accepted", cancel |-> FALSE]]
    /\ planRev = [o \in Ops |-> 0]
    /\ project = 1
    /\ deletedEvent = FALSE
    /\ root = "project"
    /\ wrapper = [o \in Ops |-> "none"]
    /\ payload = [o \in Ops |-> "none"]
    /\ destroyed = {}
    /\ daemon = "up"
    /\ pc = [o \in Ops |-> "idle"]
    /\ seen = [o \in Ops |-> "accepted"]
    /\ lock = None
    /\ crashes = 0 /\ faults = 0 /\ touches = 0 /\ outside = 0

-----------------------------------------------------------------------------
(* Requests *)

SetState(o, s) == row' = [row EXCEPT ![o].state = s]
SetPhase(o, p) == row' = [row EXCEPT ![o].phase = p]
Goto(o, where) == pc' = [pc EXCEPT ![o] = where]

\* Mutant: the guards outlive the task.
EndTaskKeepsLocks(o) == /\ Goto(o, "idle")
                        /\ seen' = [seen EXCEPT ![o] = "accepted"]
                        /\ lock' = lock

\* The task returns and drops its locks, if it had them.
EndTask(o) == /\ Goto(o, "idle")
              /\ seen' = [seen EXCEPT ![o] = "accepted"]
              /\ lock' = IF lock = o THEN None ELSE lock

\* plan_delete: the path still holds the registered directory.
Plan(o) ==
    /\ daemon = "up"
    /\ planRev[o] = 0 /\ project # 0 /\ root = "project"
    /\ planRev' = [planRev EXCEPT ![o] = project]
    /\ UNCHANGED <<row, project, deletedEvent, files, daemon, pc, seen, lock, bounds>>

\* apply_delete holds the two locks from the check of the row to the acceptance;
\* what moves between them is as if it moved right after.
Apply(o) ==
    /\ daemon = "up" /\ lock = None
    /\ planRev[o] # 0 /\ row[o].state = "absent"
    /\ project = planRev[o] /\ root = "project"
    /\ SetState(o, "queued")
    /\ Goto(o, "begin")
    /\ UNCHANGED <<planRev, project, deletedEvent, files, daemon, seen, lock, bounds>>

\* cancel_operation: refused once the newest phase is at or after the intent.
Cancel(o) ==
    /\ daemon = "up"
    /\ Live(o) /\ ~PastIntent(o)
    /\ row' = [row EXCEPT ![o] =
                  [state  |-> IF row[o].state = "queued" THEN "cancelled" ELSE "cancelling",
                   phase  |-> row[o].phase,
                   cancel |-> TRUE]]
    /\ UNCHANGED <<planRev, project, deletedEvent, files, daemon, pc, seen, lock, bounds>>

\* Favorite and refresh move the revision of the row, unregister deletes it.  The
\* application that serves them has locks of its own.
Touch ==
    /\ daemon = "up" /\ project # 0
    /\ Mishaps < MaxMishaps /\ touches' = touches + 1
    /\ project' \in {project + 1, 0}
    /\ UNCHANGED <<row, planRev, deletedEvent, files, daemon, pc, seen, lock,
                   crashes, faults, outside>>

\* Another program removes what is at the path, puts another directory there, or
\* takes the directory out of a quarantine (during its removal, which then fails,
\* that is a Fault).
Outside ==
    /\ Mishaps < MaxMishaps /\ outside' = outside + 1
    /\ \/ root' \in {"none", "other"} \ {root} /\ UNCHANGED payload
       \/ \E o \in Ops :
             /\ payload[o] # "none" /\ pc[o] # "removing"
             /\ payload' = [payload EXCEPT ![o] = "none"]
             /\ UNCHANGED root
    /\ UNCHANGED <<store, wrapper, destroyed, daemon, pc, seen, lock,
                   crashes, faults, touches>>

-----------------------------------------------------------------------------
(* The worker: run_inner *)

At(o, where) == daemon = "up" /\ pc[o] = where

\* begin_project_delete; its error goes through fail like every other.
Begin(o) ==
    /\ At(o, "begin")
    /\ IF row[o].state \in {"queued", "recovering", "running"}
       THEN /\ SetState(o, "running")
            /\ seen' = [seen EXCEPT ![o] = row[o].phase]
            /\ Goto(o, "lock")
       ELSE Goto(o, "fail") /\ UNCHANGED <<row, seen>>
    /\ UNCHANGED <<planRev, project, deletedEvent, files, daemon, lock, bounds>>

\* Where run_inner goes for the phase that begin loaded.
Entry(phase) ==
    CASE phase = "cleanup_complete"   -> "finish"
      [] phase = "accepted"           -> "make"
      [] phase = "preflight_complete" -> "look1"
      [] OTHER                        -> "validate"

Acquire(o) ==
    /\ At(o, "lock") /\ lock = None
    /\ lock' = o
    /\ Goto(o, Entry(seen[o]))
    /\ UNCHANGED <<store, files, daemon, seen, bounds>>

\* A step on the file system that has no more to change than its own files.
FileStep(o, here, onward) ==
    /\ At(o, here) /\ Goto(o, onward)
    /\ UNCHANGED <<store, daemon, seen, lock, bounds>>

\* verify_wrapper: the directory and an owner.json that names this deletion.
Verified(o) == wrapper[o] = "owned"

\* preflight: revalidate, then a new wrapper, or the one of an earlier attempt.
Make(o) ==
    \/ /\ root = "project" /\ wrapper[o] = "none"
       /\ wrapper' = [wrapper EXCEPT ![o] = "bare"]
       /\ FileStep(o, "make", "own")
       /\ UNCHANGED <<root, payload, destroyed>>
    \/ /\ root = "project" /\ Verified(o) /\ payload[o] = "none"
       /\ FileStep(o, "make", "preflighted")
       /\ UNCHANGED files
    \/ /\ root # "project" \/ wrapper[o] = "bare" \/ payload[o] # "none"
       /\ FileStep(o, "make", "fail")
       /\ UNCHANGED files

\* write_owner
Own(o) ==
    /\ wrapper' = [wrapper EXCEPT ![o] = "owned"]
    /\ FileStep(o, "own", "preflighted")
    /\ UNCHANGED <<root, payload, destroyed>>

\* record_project_delete_checkpoint
Checkpoint(o, here, phase, onward) ==
    /\ At(o, here)
    /\ IF row[o].state \in {"running", "cancelling"}
       THEN SetPhase(o, phase) /\ Goto(o, onward)
       ELSE Goto(o, "fail") /\ UNCHANGED row
    /\ UNCHANGED <<planRev, project, deletedEvent, files, daemon, seen, lock, bounds>>

\* Mutant: the wrapper is not discarded.
LookKeepsWrapper(o, here, onward) ==
    /\ FileStep(o, here, IF row[o].cancel THEN "cancelled" ELSE onward)
    /\ UNCHANGED files

\* project_delete_cancel_requested; a cancel discards the wrapper first.
Look(o, here, onward) ==
    /\ FileStep(o, here, IF row[o].cancel THEN "dropOwner" ELSE onward)
    /\ UNCHANGED files

\* Writer observation and revalidate_plan before the intent.
Check(o) ==
    /\ \/ root = "project" /\ FileStep(o, "check", "look2")
       \/ FileStep(o, "check", "backOut")
       \/ FileStep(o, "check", "fail")
    /\ UNCHANGED files

\* The plan expired, a marker or mount is not what it was: any revalidation or
\* scan may refuse.
Refuse(o) ==
    /\ pc[o] \in {"make", "preflighted"} /\ FileStep(o, pc[o], "fail")
    /\ UNCHANGED files

\* discard: owner.json, then the directory; nothing may have been moved in.
DropOwner(o, here, onward) ==
    \/ /\ Verified(o) /\ payload[o] = "none"
       /\ wrapper' = [wrapper EXCEPT ![o] = "bare"]
       /\ FileStep(o, here, onward)
       /\ UNCHANGED <<root, payload, destroyed>>
    \/ /\ ~Verified(o) \/ payload[o] # "none"
       /\ FileStep(o, here, "fail")
       /\ UNCHANGED files

DropWrapper(o, here, onward) ==
    /\ wrapper' = [wrapper EXCEPT ![o] = "none"]
    /\ FileStep(o, here, onward)
    /\ UNCHANGED <<root, payload, destroyed>>

\* quarantine: whatever is at the path now is renamed ...
Rename(o) ==
    \/ /\ Verified(o) /\ payload[o] = "none" /\ root # "none"
       /\ payload' = [payload EXCEPT ![o] = root]
       /\ root' = "none"
       /\ FileStep(o, "rename", "moved")
       /\ UNCHANGED <<wrapper, destroyed>>
    \/ /\ ~Verified(o) \/ payload[o] # "none" \/ root = "none"
       /\ FileStep(o, "rename", "fail")
       /\ UNCHANGED files

\* ... and then identified.
Moved(o) ==
    /\ FileStep(o, "moved", IF payload[o] = "project" /\ root = "none"
                            THEN "quarantined" ELSE "fail")
    /\ UNCHANGED files

AfterValidate(o) == IF seen[o] \in {"state_committed", "deleting"}
                    THEN "deleting" ELSE "commitIntent"

\* validate_quarantine, after a restart: finish the rename, or identify the payload.
Validate(o) ==
    \/ /\ Verified(o) /\ payload[o] = "none" /\ root = "project"
       /\ payload' = [payload EXCEPT ![o] = root]
       /\ root' = "none"
       /\ FileStep(o, "validate", AfterValidate(o))
       /\ UNCHANGED <<wrapper, destroyed>>
    \/ /\ Verified(o) /\ payload[o] = "project"
       /\ FileStep(o, "validate", AfterValidate(o))
       /\ UNCHANGED files
    \/ /\ \/ ~Verified(o)
          \/ payload[o] = "other"
          \/ payload[o] = "none" /\ root # "project"
       /\ FileStep(o, "validate", "fail")
       /\ UNCHANGED files

\* Mutant: a row that moved on is taken for deleted.
CommitAnyway(o) ==
    /\ At(o, "commit")
    /\ project' = IF project = planRev[o] THEN 0 ELSE project
    /\ deletedEvent' = TRUE
    /\ SetPhase(o, "state_committed") /\ Goto(o, "deleting")
    /\ UNCHANGED <<planRev, files, daemon, seen, lock, bounds>>

\* commit_registry: the row as planned is deleted, or was by an earlier attempt.
Commit(o) ==
    /\ At(o, "commit")
    /\ IF row[o].state = "running" /\ (project = planRev[o] \/ deletedEvent)
       THEN /\ project' = IF project = planRev[o] THEN 0 ELSE project
            /\ deletedEvent' = TRUE
            /\ SetPhase(o, "state_committed")
            /\ Goto(o, "deleting")
       ELSE Goto(o, "fail") /\ UNCHANGED <<row, project, deletedEvent>>
    /\ UNCHANGED <<planRev, files, daemon, seen, lock, bounds>>

\* cleanup: identify the payload once more and begin to remove its entries.
Remove(o) ==
    \/ /\ Verified(o) /\ payload[o] = "project"
       /\ destroyed' = destroyed \cup {payload[o]}
       /\ FileStep(o, "remove", "removing")
       /\ UNCHANGED <<root, wrapper, payload>>
    \/ /\ ~Verified(o) \/ payload[o] # "project"
       /\ FileStep(o, "remove", "fail")
       /\ UNCHANGED files

RemoveLast(o) ==
    /\ payload' = [payload EXCEPT ![o] = "none"]
    /\ FileStep(o, "removing", "disown")
    /\ UNCHANGED <<root, wrapper, destroyed>>

Disown(o) ==
    /\ wrapper' = [wrapper EXCEPT ![o] = "bare"]
    /\ FileStep(o, "disown", "unwrap")
    /\ UNCHANGED <<root, payload, destroyed>>

\* finish_project_delete_success
Finish(o) ==
    /\ At(o, "finish")
    /\ IF row[o].state = "running" /\ row[o].phase = "cleanup_complete"
       THEN SetState(o, "succeeded") /\ EndTask(o)
       ELSE Goto(o, "fail") /\ UNCHANGED <<row, seen, lock>>
    /\ UNCHANGED <<planRev, project, deletedEvent, files, daemon, bounds>>

\* finish_project_delete_cancelled
FinishCancelled(o) ==
    /\ At(o, "cancelled")
    /\ IF row[o].state \in {"running", "cancelling", "recovering"} /\ ~PastIntent(o)
       THEN SetState(o, "cancelled") /\ EndTask(o)
       ELSE Goto(o, "fail") /\ UNCHANGED <<row, seen, lock>>
    /\ UNCHANGED <<planRev, project, deletedEvent, files, daemon, bounds>>

\* fail_project_delete: past the intent the Operation stays, for the next start.
Fail(o) ==
    /\ At(o, "fail")
    /\ row' = IF ~Live(o) THEN row
              ELSE IF PastIntent(o)
              THEN [row EXCEPT ![o] = [state  |-> "recovering",
                                       phase  |-> "recovery_required",
                                       cancel |-> row[o].cancel]]
              ELSE [row EXCEPT ![o].state = "failed"]
    /\ EndTask(o)
    /\ UNCHANGED <<planRev, project, deletedEvent, files, daemon, bounds>>

\* Any store request or file operation fails, that of fail included.
Fault(o) ==
    /\ daemon = "up" /\ pc[o] \notin {"idle", "lock"}
    /\ Mishaps < MaxMishaps /\ faults' = faults + 1
    /\ IF pc[o] = "fail" THEN EndTask(o)
                         ELSE Goto(o, "fail") /\ UNCHANGED <<seen, lock>>
    /\ UNCHANGED <<store, files, daemon, crashes, touches, outside>>

WorkerStep(o) ==
    \/ Begin(o) \/ Acquire(o)
    \/ Make(o) \/ Own(o) \/ Refuse(o)
    \/ Checkpoint(o, "preflighted", "preflight_complete", "look1")
    \/ Look(o, "look1", "check")
    \/ Check(o)
    \/ Look(o, "look2", "intent")
    \/ Checkpoint(o, "intent", "quarantine_intent", "rename")
    \/ Rename(o) \/ Moved(o)
    \/ Checkpoint(o, "quarantined", "root_quarantined", "commitIntent")
    \/ Validate(o)
    \/ Checkpoint(o, "commitIntent", "registry_commit_intent", "commit")
    \/ Commit(o)
    \/ Checkpoint(o, "deleting", "deleting", "remove")
    \/ Remove(o) \/ RemoveLast(o) \/ Disown(o)
    \/ DropWrapper(o, "unwrap", "cleaned")
    \/ Checkpoint(o, "cleaned", "cleanup_complete", "finish")
    \/ Finish(o)
    \/ DropOwner(o, "dropOwner", "dropWrapper")
    \/ DropWrapper(o, "dropWrapper", "cancelled")
    \/ FinishCancelled(o)
    \/ DropOwner(o, "backOut", "backOutWrapper")
    \/ DropWrapper(o, "backOutWrapper", "fail")
    \/ Fail(o)

-----------------------------------------------------------------------------
(* The daemon process *)

\* The process dies; the store and the files stay.
Crash ==
    /\ daemon = "up"
    /\ Mishaps < MaxMishaps /\ crashes' = crashes + 1
    /\ daemon' = "down"
    /\ pc' = [o \in Ops |-> "idle"]
    /\ seen' = [o \in Ops |-> "accepted"]
    /\ lock' = None
    /\ UNCHANGED <<store, files, faults, touches, outside>>

\* Mutant: an Operation that had not begun is forgotten.
RecoveredBegun(o) == row[o].state \in {"running", "recovering"}

\* Which rows recover looks at: not those found cancelling.
Recovered(o) == row[o].state \in {"queued", "running", "recovering"}

\* recover: one transaction over every row, then a task for each.
Start ==
    /\ daemon = "down"
    /\ daemon' = "up"
    /\ row' = [o \in Ops |-> IF row[o].state = "running"
                             THEN [row[o] EXCEPT !.state = "recovering"] ELSE row[o]]
    /\ pc' = [o \in Ops |-> IF Recovered(o) THEN "begin" ELSE "idle"]
    /\ UNCHANGED <<planRev, project, deletedEvent, files, seen, lock, bounds>>

Next ==
    \/ \E o \in Ops : Plan(o) \/ Apply(o) \/ Cancel(o) \/ WorkerStep(o) \/ Fault(o)
    \/ Touch \/ Outside \/ Crash \/ Start

Spec == Init /\ [][Next]_vars

\* A runnable task is polled, and its locks are first come first served; the
\* next client starts a dead daemon.
Fairness == /\ \A o \in Ops : WF_vars(WorkerStep(o)) /\ SF_vars(Acquire(o))
            /\ WF_vars(Start)

FairSpec == Spec /\ Fairness

-----------------------------------------------------------------------------
(* Properties *)

\* Only the planned directory is ever removed, and not one entry of it before
\* the registry forgot it and told its clients: the quarantine swallows what is
\* at the path, identified or not, but cleanup removes nothing else.
DestroyedOnlyAfterCommit ==
    /\ "other" \notin destroyed
    /\ "project" \in destroyed => deletedEvent /\ project = 0

\* A directory in quarantine belongs to a deletion that is journalled past its
\* intent and is not over: no report of success, failure or cancellation, and
\* no crash, leaves a directory hidden with nobody to account for it.
QuarantineIsOwned ==
    \A o \in Ops : payload[o] # "none" =>
        PastIntent(o) /\ row[o].state \in {"running", "cancelling", "recovering"}

\* What the end of a deletion tells is true of the files: cancelled means no
\* trace of it, succeeded means directory, quarantine and row are gone.
ReportsAreTrue ==
    \A o \in Ops :
        /\ row[o].state = "cancelled" /\ pc[o] = "idle" =>
              wrapper[o] = "none" /\ payload[o] = "none" /\ ~PastIntent(o)
        /\ row[o].state = "succeeded" =>
              wrapper[o] = "none" /\ "project" \in destroyed /\ project = 0

\* An unfinished deletion that nobody works on in a running daemon.
Stuck(o) == daemon = "up" /\ Live(o) /\ pc[o] = "idle"

\* It is in that state for a reason: a cancel overtook the intent, a step failed,
\* the row moved or the path changed, or the process died while the wrapper was
\* being taken down - by cleanup or by a refusal - and no later start can tell
\* what is left from tampering, or another deletion has the directory.
StuckForAReason ==
    \A o \in Ops : Stuck(o) =>
        \/ row[o].cancel \/ faults > 0 \/ touches > 0 \/ outside > 0
        \/ crashes > 0 /\ PastIntent(o) /\ (destroyed # {} \/ wrapper[o] # "owned")
        \/ \E p \in Ops \ {o} : payload[p] = "project"

\* The stages of a deletion, for its abstract specification.
Stage(o) == IF row[o].state = "absent" THEN "none"
            ELSE IF ~Live(o) THEN row[o].state
            ELSE IF PastIntent(o) THEN "closed" ELSE "open"

stages == [o \in Ops |-> Stage(o)]

Forward == INSTANCE ForwardOnly WITH stage <- stages

\* Past its intent a deletion is never cancelled and never fails, and it succeeds
\* only from there: every step is one of ForwardOnly or a stutter.
NeverTurnsBack == Forward!ForwardSpec

\* An accepted deletion ends, unless it gets stuck.
SettlesUnlessStuck ==
    \A o \in Ops : row[o].state = "queued" ~> (row[o].state \in Terminal \/ Stuck(o))
=============================================================================
