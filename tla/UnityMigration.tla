----------------------------- MODULE UnityMigration -----------------------------
(***************************************************************************)
(* projects.unity-migration: a registered project is prepared for another  *)
(* Unity version, opened once by that version's editor, and when its files *)
(* tell the new version the registry is told.                              *)
(*                                                                         *)
(*   crates/alcomd-application/src/m7_unity_migration.rs  requests, worker *)
(*   crates/alcomd-store/src/m7_unity_migration.rs        transactions     *)
(*   crates/alcomd-vpm/src/unity_migration.rs             preparation,     *)
(*                                                        start, recovery  *)
(*   crates/alcomd-application/src/m5.rs                  who writes?      *)
(*                                                                         *)
(* One project, the migrations planned from one version to another.  The   *)
(* editor is a process of its own: it outlives the daemon.  A transaction, *)
(* a rename and the start of a process are one step each.                  *)
(***************************************************************************)
EXTENDS Naturals

CONSTANTS
    Ops,          \* migrations planned for the project
    Things,       \* what a preparation replaces, numbered in its order
    Kind,         \* Kind[t]: a package by its mutation, a manifest, a legacy path
    None,         \* "no holder" of the Project lock
    MaxMishaps    \* bound: cancels, deaths of the daemon, steps that fail, other
                  \* requests and programs that interfere, failed observations

Kinds == {"install", "update", "remove", "vpm", "upm", "legacy"}

ASSUME MigrationAssumption ==
    /\ None \notin Ops
    /\ Things \subseteq Nat
    /\ Kind \in [Things -> Kinds]
    /\ \E t \in Things : Kind[t] = "vpm"     \* every preparation replaces that manifest
    /\ MaxMishaps \in Nat

VARIABLES
    profile,     \* whether this pair of versions has a preparation (never changes)
    row,         \* durable: the Operation and its newest journal row
    plan,        \* durable: revision and marker a plan saw; revision 0: no plan
    project,     \* durable: revision (0: no row) and version in the projects row
    disk,        \* files: what ProjectVersion.txt says
    files,       \* files: Packages/..., the two manifests, legacy paths
    job,         \* files: the private directory of each migration
    editor,      \* the editor process each migration started
    guest,       \* an editor of the project that somebody else started
    launches, upgraded, committed,   \* history, of each migration
    late,        \* history: an observation window of a recovery ran out
    daemon, pc, todo, lock,          \* the daemon process
    mishaps

store   == <<profile, row, plan, project, committed>>
tree    == <<disk, files, job>>
outside == <<editor, guest, launches, upgraded>>
process == <<daemon, pc, todo, lock>>
vars    == <<store, tree, outside, late, process, mishaps>>

Terminal == {"succeeded", "failed", "cancelled"}
States   == Terminal \cup {"absent", "queued", "running", "cancelling", "recovering"}
Early    == {"accepted", "preflight_complete"}
Prepared == {"preparation_intent", "preparation_complete"}
Launched == {"launch_intent", "unity_started", "unity_exited"}
Phases   == Early \cup Prepared \cup Launched \cup
            {"project_reobserved", "state_committed", "cleanup_complete",
             "recovery_required"}
Versions == {"source", "target", "other"}
Content  == {"old", "new", "none"}

\* Where a worker stands; "idle" also when it has ended.
PCs == {"idle", "begin", "lock", "look0", "check", "preflighted", "look1",
        "materialize", "intent", "prepare", "prepared", "look2", "launchIntent",
        "spawn", "started", "wait", "exited", "noLaunch", "observe", "ready",
        "commit", "unchanged", "failSafe", "resume", "cleanup", "cleaned",
        "finish", "recover", "failEarly", "cancelled"}

\* artifact: preparation-plan.json; mark: the newest transaction marker, 0 none,
\* 1 Prepared ... 5 Complete; torn: its writing was cut short; before: the
\* project as materialize found it; staged, backup: things ready, things put aside.
NoJob == [artifact |-> FALSE, mark |-> 0, torn |-> FALSE, muts |-> {},
          before |-> [t \in Things |-> "none"], staged |-> {}, backup |-> {}]
Jobs  == [artifact : BOOLEAN, mark : 0..5, torn : BOOLEAN, muts : SUBSET Things,
          before : [Things -> Content], staged : SUBSET Things, backup : SUBSET Things]

Causes      == {"cancel", "crash", "fault", "touch", "outside", "blind"}
Mishap(c)   == /\ mishaps.cancel + mishaps.crash + mishaps.fault + mishaps.touch
                    + mishaps.outside + mishaps.blind < MaxMishaps
               /\ mishaps' = [mishaps EXCEPT ![c] = @ + 1]

Live(o)     == row[o].state \notin Terminal \cup {"absent"}
Editors     == {o \in Ops : editor[o] = "running"}
SomeEditor  == guest \/ Editors # {}

TypeOK ==
    /\ profile \in BOOLEAN
    /\ row \in [Ops -> [state : States, phase : Phases, cancel : BOOLEAN,
                        exited : BOOLEAN, safe : BOOLEAN]]
    /\ plan \in [Ops -> [rev : Nat, marker : Versions]]
    /\ project \in [rev : Nat, version : Versions]
    /\ committed \in [Ops -> BOOLEAN]
    /\ disk \in Versions
    /\ files \in [Things -> Content]
    /\ job \in [Ops -> Jobs]
    /\ editor \in [Ops -> {"none", "running", "exited"}]
    /\ guest \in BOOLEAN
    /\ launches \in [Ops -> Nat]
    /\ upgraded \in [Ops -> BOOLEAN]
    /\ late \in BOOLEAN
    /\ daemon \in {"down", "up"}
    /\ pc \in [Ops -> PCs]
    /\ todo \in [Ops -> SUBSET Things]
    /\ lock \in Ops \cup {None}
    /\ mishaps \in [Causes -> Nat]

Init ==
    /\ profile \in BOOLEAN
    /\ row = [o \in Ops |-> [state |-> "absent", phase |-> "accepted", cancel |-> FALSE,
                             exited |-> FALSE, safe |-> FALSE]]
    /\ plan = [o \in Ops |-> [rev |-> 0, marker |-> "source"]]
    /\ project = [rev |-> 1, version |-> "source"]
    /\ committed = [o \in Ops |-> FALSE]
    /\ disk = "source"
    /\ files = [t \in Things |-> IF Kind[t] = "install" THEN "none" ELSE "old"]
    /\ job = [o \in Ops |-> NoJob]
    /\ editor = [o \in Ops |-> "none"]
    /\ guest = FALSE
    /\ launches = [o \in Ops |-> 0]
    /\ upgraded = [o \in Ops |-> FALSE]
    /\ late = FALSE
    /\ daemon = "up"
    /\ pc = [o \in Ops |-> "idle"]
    /\ todo = [o \in Ops |-> {}]
    /\ lock = None
    /\ mishaps = [c \in Causes |-> 0]

-----------------------------------------------------------------------------
(* Requests, and what other programs do *)

SetState(o, s) == row' = [row EXCEPT ![o].state = s]
Goto(o, where) == pc' = [pc EXCEPT ![o] = where]

\* observe_backup_source, from the list of processes: an editor is found, or
\* cannot be attributed to a project (`unknown'), or there is none.
Sees(view) == \/ view = "running" /\ SomeEditor /\ UNCHANGED mishaps
              \/ view = "none" /\ ~SomeEditor /\ UNCHANGED mishaps
              \/ view = "unknown" /\ Mishap("blind")

\* plan: the registry tells the old version; the marker is read from the files.
Plan(o) ==
    /\ daemon = "up"
    /\ plan[o].rev = 0 /\ project.rev # 0 /\ project.version = "source"
    /\ ~SomeEditor
    /\ plan' = [plan EXCEPT ![o] = [rev |-> project.rev, marker |-> disk]]
    /\ UNCHANGED <<profile, row, project, committed, tree, outside, late, process,
                   mishaps>>

\* revalidate: the row, the root and its version marker are as planned.
AsPlanned(o) == /\ project = [rev |-> plan[o].rev, version |-> "source"]
                /\ disk = plan[o].marker

\* apply holds the Project lock from the reading of the row to the acceptance.
Apply(o) ==
    /\ daemon = "up" /\ lock = None
    /\ plan[o].rev # 0 /\ row[o].state = "absent"
    /\ \E view \in {"none", "unknown"} : Sees(view)
    /\ AsPlanned(o)
    /\ SetState(o, "queued")
    /\ Goto(o, "begin")
    /\ UNCHANGED <<profile, plan, project, committed, tree, outside, late, daemon,
                   todo, lock>>

\* cancel_operation knows no phase of a migration in which it is too late.
Cancel(o) ==
    /\ daemon = "up" /\ Live(o) /\ Mishap("cancel")
    /\ row' = [row EXCEPT ![o].state = IF @ = "queued" THEN "cancelled" ELSE "cancelling",
                          ![o].cancel = TRUE]
    /\ UNCHANGED <<profile, plan, project, committed, tree, outside, late, process>>

\* Favorite moves the revision, refresh reads the version, unregister deletes
\* the row: their application has lock objects of its own.
Touch ==
    /\ daemon = "up" /\ project.rev # 0 /\ Mishap("touch")
    /\ \/ \E v \in {project.version, disk} :
             project' = [rev |-> project.rev + 1, version |-> v]
       \/ project' = [project EXCEPT !.rev = 0]
    /\ UNCHANGED <<profile, row, plan, committed, tree, outside, late, process>>

\* Somebody opens the project (unity.launch takes no lock), or changes its marker
\* by hand, by an editor of another version, by a replaced directory.
Interfere ==
    /\ Mishap("outside")
    /\ \/ ~guest /\ guest' = TRUE /\ UNCHANGED disk
       \/ disk' \in Versions \ {disk} /\ UNCHANGED guest
    /\ UNCHANGED <<store, files, job, editor, launches, upgraded, late, process>>

GuestLeaves ==
    /\ guest /\ guest' = FALSE
    /\ UNCHANGED <<store, tree, editor, launches, upgraded, late, process, mishaps>>

\* The editor brings the project to its version ...
Upgrade(o) ==
    /\ editor[o] = "running" /\ disk # "target"
    /\ disk' = "target"
    /\ upgraded' = [upgraded EXCEPT ![o] = TRUE]
    /\ UNCHANGED <<store, files, job, editor, guest, launches, late, process, mishaps>>

\* ... or does not, and ends.
EditorExits(o) ==
    /\ editor[o] = "running"
    /\ editor' = [editor EXCEPT ![o] = "exited"]
    /\ UNCHANGED <<store, tree, guest, launches, upgraded, late, process, mishaps>>

-----------------------------------------------------------------------------
(* The worker: run *)

At(o, where) == daemon = "up" /\ pc[o] = where

\* Mutant: the guard outlives the task.
EndTaskKeepsLock(o) == /\ Goto(o, "idle")
                       /\ todo' = [todo EXCEPT ![o] = {}]
                       /\ lock' = lock

\* The task returns and drops its lock, if it has it.
EndTask(o) == /\ Goto(o, "idle")
              /\ todo' = [todo EXCEPT ![o] = {}]
              /\ lock' = IF lock = o THEN None ELSE lock

Onward(o, where) == IF where = "idle" THEN EndTask(o)
                                      ELSE Goto(o, where) /\ UNCHANGED <<todo, lock>>

\* begin_operation; a recorded recovery_required is not worked on again.
Begin(o) ==
    /\ At(o, "begin")
    /\ IF row[o].state \in {"queued", "running", "recovering"}
       THEN /\ SetState(o, "running")
            /\ IF row[o].phase = "recovery_required" THEN EndTask(o) ELSE Onward(o, "lock")
       ELSE EndTask(o) /\ UNCHANGED row
    /\ UNCHANGED <<profile, plan, project, committed, tree, outside, late, daemon, mishaps>>

\* Mutant: a restart past the launch intent starts the editor again.
EntryRespawns(phase) ==
    CASE phase = "accepted"             -> "look0"
      [] phase = "preflight_complete"   -> "look1"
      [] phase = "preparation_intent"   -> "prepare"
      [] phase = "preparation_complete" -> "look2"
      [] phase \in Launched             -> "spawn"
      [] phase = "project_reobserved"   -> "resume"
      [] phase = "state_committed"      -> "cleanup"
      [] OTHER                          -> "finish"

\* Where run goes for the phase it loaded.
Entry(phase) ==
    CASE phase = "accepted"             -> "look0"
      [] phase = "preflight_complete"   -> "look1"
      [] phase = "preparation_intent"   -> "prepare"
      [] phase = "preparation_complete" -> "look2"
      [] phase \in Launched             -> "observe"
      [] phase = "project_reobserved"   -> "resume"
      [] phase = "state_committed"      -> "cleanup"
      [] OTHER                          -> "finish"

Stage(t) == CASE Kind[t] \in {"install", "update", "remove"} -> 1
              [] Kind[t] = "vpm"    -> 2
              [] Kind[t] = "upm"    -> 3
              [] Kind[t] = "legacy" -> 4

\* What is left of the stage that the marker says is under way.
Pending(j) == {t \in j.muts : Stage(t) = j.mark}

Acquire(o) ==
    /\ At(o, "lock") /\ lock = None
    /\ lock' = o
    /\ Goto(o, Entry(row[o].phase))
    /\ todo' = [todo EXCEPT ![o] = Pending(job[o])]
    /\ UNCHANGED <<store, tree, outside, late, daemon, mishaps>>

\* A step of the worker that leaves store, files and processes as they are.
Move(o, here, onward) ==
    /\ At(o, here) /\ Onward(o, onward)
    /\ UNCHANGED <<store, tree, outside, late, daemon>>

\* unity_migration_cancel_requested
Look(o, here, onward) ==
    /\ Move(o, here, IF row[o].cancel THEN "cancelled" ELSE onward)
    /\ UNCHANGED mishaps

\* With a preparation it is too late for a cancel.
Look2(o) ==
    IF profile THEN Move(o, "look2", "launchIntent") /\ UNCHANGED mishaps
               ELSE Look(o, "look2", "launchIntent")

\* The preflight: row, installation, writer and files; or the installation or
\* the root are not what they were.
Check(o) ==
    \/ \E view \in {"none", "running", "unknown"} :
          /\ Sees(view)
          /\ Move(o, "check", IF view # "running" /\ AsPlanned(o)
                              THEN "preflighted" ELSE "failEarly")
    \/ Move(o, "check", "failEarly") /\ UNCHANGED mishaps

\* record_unity_migration_checkpoint; its error ends the task.
Checkpoint(o, here, phase, onward) ==
    /\ At(o, here)
    /\ IF row[o].state \in {"running", "cancelling", "recovering"}
       THEN /\ row' = [row EXCEPT ![o].phase = phase,
                                  ![o].exited = @ \/ here = "exited",
                                  ![o].safe = @ \/ here = "unchanged"]
            /\ Onward(o, onward)
       ELSE EndTask(o) /\ UNCHANGED row
    /\ UNCHANGED <<profile, plan, project, committed, tree, outside, late, daemon, mishaps>>

-----------------------------------------------------------------------------
(* The preparation *)

Manifest(t) == Kind[t] \in {"vpm", "upm"}
Package(t)  == Stage(t) = 1

\* materialize_preparation: the changes are computed from the project as it is
\* now; with the new vpm-manifest.json in place no package is to change.  A
\* private directory with an artifact in it that no journal row names is refused.
Materialize(o) ==
    \/ /\ ~job[o].artifact
       /\ profile => \A t \in Things : Manifest(t) => files[t] # "none"
       /\ LET muts == IF ~profile THEN {}
                      ELSE {t \in Things : Package(t) =>
                               \A m \in Things : Kind[m] = "vpm" => files[m] = "old"}
          IN job' = [job EXCEPT ![o] =
                        [NoJob EXCEPT !.artifact = TRUE, !.muts = muts,
                            !.before = files,
                            !.staged = {t \in muts : Kind[t] \notin {"remove", "legacy"}}]]
       /\ At(o, "materialize") /\ Onward(o, "intent")
       /\ UNCHANGED <<store, disk, files, outside, late, daemon, mishaps>>
    \/ /\ Move(o, "materialize", "failEarly") /\ UNCHANGED mishaps

First(o) == CHOOSE t \in todo[o] : \A u \in todo[o] : t <= u

\* The next thing is moved out of the way ...
Blocking(j, t) ==
    /\ t \notin j.backup
    /\ \/ Package(t) /\ files[t] # "none" /\ (Kind[t] = "install" => j.before[t] # "none")
       \/ Manifest(t) /\ files[t] # "new" /\ files[t] # "none" /\ files[t] = j.before[t]
       \/ Kind[t] = "legacy" /\ files[t] = "old" /\ j.before[t] = "old"

\* ... its replacement is moved in ...
Vacant(j, t) ==
    /\ files[t] = "none" /\ t \in j.staged
    /\ t \in j.backup \/ Kind[t] = "install"

\* ... or it is as it should be.
InPlace(j, t) ==
    \/ Package(t) /\ Kind[t] # "remove" /\ t \in j.backup /\ files[t] = "new"
    \/ Kind[t] \in {"remove", "legacy"} /\ t \in j.backup /\ files[t] = "none"
    \/ Manifest(t) /\ files[t] = "new"
    \/ Kind[t] = "legacy" /\ j.before[t] = "none" /\ files[t] = "none"

\* apply_vrchat_2019_to_2022 begins: the project is as it was materialized.
Untouched(o) == /\ \A t \in Things : Kind[t] # "legacy" => files[t] = job[o].before[t]
                /\ disk = plan[o].marker

\* verify_prepared_project
Replaced(o) ==
    \A t \in Things :
        /\ Manifest(t) => files[t] = "new"
        /\ Package(t) /\ t \in job[o].muts =>
              files[t] = IF Kind[t] = "remove" THEN "none" ELSE "new"

SetJob(o, j) == job' = [job EXCEPT ![o] = j]
Preparing(o) == At(o, "prepare") /\ profile /\ ~job[o].torn
                /\ UNCHANGED <<store, disk, outside, late, daemon, mishaps>>

PutAside(o) ==
    /\ Preparing(o) /\ todo[o] # {} /\ Blocking(job[o], First(o))
    /\ SetJob(o, [job[o] EXCEPT !.backup = @ \cup {First(o)}])
    /\ files' = [files EXCEPT ![First(o)] = "none"]
    /\ UNCHANGED <<pc, todo, lock>>

PutIn(o) ==
    /\ Preparing(o) /\ todo[o] # {} /\ Vacant(job[o], First(o))
    /\ SetJob(o, [job[o] EXCEPT !.staged = @ \ {First(o)}])
    /\ files' = [files EXCEPT ![First(o)] = "new"]
    /\ todo' = [todo EXCEPT ![o] = @ \ {First(o)}]
    /\ UNCHANGED <<pc, lock>>

Skip(o) ==
    /\ Preparing(o) /\ todo[o] # {} /\ InPlace(job[o], First(o))
    /\ todo' = [todo EXCEPT ![o] = @ \ {First(o)}]
    /\ UNCHANGED <<files, job, pc, lock>>

\* write_transaction_marker, after Prepared and after each stage; the last one
\* after a verification.
WriteMark(o) ==
    /\ Preparing(o) /\ todo[o] = {} /\ job[o].mark < 5
    /\ job[o].mark = 0 => Untouched(o)
    /\ job[o].mark = 4 => Replaced(o)
    /\ SetJob(o, [job[o] EXCEPT !.mark = @ + 1])
    /\ todo' = [todo EXCEPT ![o] = Pending([job[o] EXCEPT !.mark = @ + 1])]
    /\ UNCHANGED <<files, pc, lock>>

\* The preparation is complete, at once where there is none.
Complete(o) ==
    /\ profile => job[o].mark = 5 /\ ~job[o].torn /\ Replaced(o)
    /\ Move(o, "prepare", "prepared") /\ UNCHANGED mishaps

\* Anything else is an error.
Misfit(o) ==
    /\ profile
    /\ \/ job[o].torn
       \/ /\ todo[o] # {} /\ ~Blocking(job[o], First(o)) /\ ~Vacant(job[o], First(o))
          /\ ~InPlace(job[o], First(o))
       \/ todo[o] = {} /\ job[o].mark = 0 /\ ~Untouched(o)
       \/ todo[o] = {} /\ job[o].mark \in {4, 5} /\ ~Replaced(o)
    /\ Move(o, "prepare", "recover") /\ UNCHANGED mishaps

-----------------------------------------------------------------------------
(* The editor, and what the project says after it *)

\* spawn looks at the marker of the project once more, and at no process.
MayOpen(o) == disk = plan[o].marker /\ (profile => job[o].mark = 5 /\ ~job[o].torn)

Spawn(o) ==
    \/ /\ MayOpen(o)
       /\ At(o, "spawn") /\ Onward(o, "started")
       /\ editor' = [editor EXCEPT ![o] = "running"]
       /\ launches' = [launches EXCEPT ![o] = @ + 1]
       /\ UNCHANGED <<store, tree, guest, upgraded, late, daemon, mishaps>>
    \/ ~MayOpen(o) /\ Move(o, "spawn", "noLaunch") /\ UNCHANGED mishaps

\* wait: the exit status of the child.
Wait(o) ==
    /\ editor[o] = "exited"
    /\ Move(o, "wait", "exited") /\ UNCHANGED mishaps

\* Mutant: an observation that failed passes for one that found nobody.
DispositionTrusts(o, view) ==
    CASE disk = "target" -> "ready"
      [] disk = "source" /\ disk = plan[o].marker /\ ~profile -> "unchanged"
      [] OTHER -> "recover"

\* recover_after_launch_intent, while no editor is seen running.
Disposition(o, view) ==
    IF view = "unknown" /\ ~row[o].exited THEN "recover"
    ELSE CASE disk = "target" -> "ready"
           [] disk = "source" /\ disk = plan[o].marker /\ ~profile -> "unchanged"
           [] OTHER -> "recover"

Observe(o) ==
    \E view \in {"none", "unknown"} :
        Sees(view) /\ Move(o, "observe", Disposition(o, view))

\* An editor is seen running all through the 300 seconds of the observation.
TimeOut(o) ==
    /\ SomeEditor
    /\ At(o, "observe") /\ Onward(o, "recover")
    /\ late' = TRUE
    /\ UNCHANGED <<store, tree, outside, daemon, mishaps>>

\* resume_project_reobserved, after a restart.
Resume(o) ==
    \E view \in {"none", "running", "unknown"} :
        /\ Sees(view)
        /\ Move(o, "resume", IF view # "running" /\ disk = "target"
                             THEN "commit" ELSE "recover")

\* commit_project: the version of the planned row, and its one Event.
Commit(o) ==
    /\ At(o, "commit")
    /\ IF /\ row[o].state = "running" /\ row[o].phase = "project_reobserved"
          /\ project.rev = plan[o].rev
       THEN /\ project' = [rev |-> project.rev + 1, version |-> "target"]
            /\ committed' = [committed EXCEPT ![o] = TRUE]
            /\ row' = [row EXCEPT ![o].phase = "state_committed"]
            /\ Onward(o, "cleanup")
       ELSE EndTask(o) /\ UNCHANGED <<row, project, committed>>
    /\ UNCHANGED <<profile, plan, tree, outside, late, daemon, mishaps>>

\* cleanup: the private directory, backups included.
Cleanup(o) ==
    /\ At(o, "cleanup") /\ Onward(o, "cleaned")
    /\ SetJob(o, NoJob)
    /\ UNCHANGED <<store, disk, files, outside, late, daemon, mishaps>>

\* finish_terminal
End(o, here, allowed, state) ==
    /\ At(o, here)
    /\ IF allowed /\ row[o].state \in {"queued", "running", "cancelling", "recovering"}
       THEN SetState(o, state) ELSE UNCHANGED row
    /\ EndTask(o)
    /\ UNCHANGED <<profile, plan, project, committed, tree, outside, late, daemon, mishaps>>

\* fail, finish_cancelled, finish_success
MayFail(o)    == row[o].phase \in Early \/ row[o].safe
MayCancel(o)  == row[o].phase \in Early \cup (IF profile THEN {} ELSE Prepared)
MaySucceed(o) == row[o].phase = "cleanup_complete"

\* Steps whose error the code turns into another path; any other error of a store
\* request ends the task.
OnError(where) ==
    CASE where \in {"check", "materialize"}   -> "failEarly"
      [] where = "spawn"                      -> "noLaunch"
      [] where \in {"prepare", "wait", "observe", "resume", "cleanup"} -> "recover"
      [] OTHER                                -> "idle"

Fault(o) ==
    /\ daemon = "up" /\ pc[o] \notin {"idle", "lock"}
    /\ Mishap("fault")
    /\ Onward(o, OnError(pc[o]))
    /\ UNCHANGED <<store, tree, outside, late, daemon>>

WorkerStep(o) ==
    \/ Begin(o) \/ Acquire(o)
    \/ Look(o, "look0", "check")
    \/ Check(o)
    \/ Checkpoint(o, "preflighted", "preflight_complete", "look1")
    \/ Look(o, "look1", "materialize")
    \/ Materialize(o)
    \/ Checkpoint(o, "intent", "preparation_intent", "prepare")
    \/ PutAside(o) \/ PutIn(o) \/ Skip(o) \/ WriteMark(o) \/ Complete(o) \/ Misfit(o)
    \/ Checkpoint(o, "prepared", "preparation_complete", "look2")
    \/ Look2(o)
    \/ Checkpoint(o, "launchIntent", "launch_intent", "spawn")
    \/ Spawn(o)
    \/ Checkpoint(o, "started", "unity_started", "wait")
    \/ Wait(o)
    \/ Checkpoint(o, "exited", "unity_exited", "observe")
    \/ Checkpoint(o, "noLaunch", "launch_intent", "observe")
    \/ Observe(o) \/ TimeOut(o)
    \/ Checkpoint(o, "ready", "project_reobserved", "commit")
    \/ Checkpoint(o, "unchanged", row[o].phase, "failSafe")
    \/ Resume(o)
    \/ Commit(o)
    \/ Cleanup(o)
    \/ Checkpoint(o, "cleaned", "cleanup_complete", "finish")
    \/ Checkpoint(o, "recover", "recovery_required", "idle")
    \/ End(o, "failEarly", MayFail(o), "failed")
    \/ End(o, "failSafe", MayFail(o), "failed")
    \/ End(o, "cancelled", MayCancel(o), "cancelled")
    \/ End(o, "finish", MaySucceed(o), "succeeded")

-----------------------------------------------------------------------------
(* The daemon process *)

\* The process dies, the editors live on; a marker that was being written may
\* be left half-written.
Crash ==
    /\ daemon = "up" /\ Mishap("crash")
    /\ daemon' = "down"
    /\ pc' = [o \in Ops |-> "idle"]
    /\ todo' = [o \in Ops |-> {}]
    /\ lock' = None
    /\ \/ UNCHANGED job
       \/ \E o \in Ops : /\ pc[o] = "prepare" /\ profile /\ todo[o] = {} /\ job[o].mark < 5
                         /\ SetJob(o, [job[o] EXCEPT !.torn = TRUE])
    /\ UNCHANGED <<store, disk, files, outside, late>>

\* Mutant: an Operation that had not begun is forgotten.
RecoveredBegun(o) == row[o].state \in {"running", "recovering"}

\* Which rows recover looks at: not those found cancelling.
Recovered(o) == row[o].state \in {"queued", "running", "recovering"}

\* recover: one transaction over every row, then a task for each.
Start ==
    /\ daemon = "down"
    /\ daemon' = "up"
    /\ row' = [o \in Ops |-> IF row[o].state = "running"
                             THEN [row[o] EXCEPT !.state = "recovering"] ELSE row[o]]
    /\ pc' = [o \in Ops |-> IF Recovered(o) THEN "begin" ELSE "idle"]
    /\ UNCHANGED <<profile, plan, project, committed, tree, outside, late, todo, lock,
                   mishaps>>

Next ==
    \/ \E o \in Ops : \/ Plan(o) \/ Apply(o) \/ Cancel(o) \/ WorkerStep(o) \/ Fault(o)
                      \/ Upgrade(o) \/ EditorExits(o)
    \/ Touch \/ Interfere \/ GuestLeaves \/ Crash \/ Start

Spec == Init /\ [][Next]_vars

\* A runnable task is polled and the Project lock is first come first served, hence
\* SF; the next client starts a dead daemon.  An editor in batch mode quits: the
\* code waits for it without limit.
Fairness == /\ \A o \in Ops : SF_vars(WorkerStep(o)) /\ WF_vars(EditorExits(o))
            /\ WF_vars(Start)

FairSpec == Spec /\ Fairness

-----------------------------------------------------------------------------
(* Properties *)

\* A migration starts its editor at most once, whatever dies when; and two of them
\* have the project open together only when an observation saw nothing, or a
\* restart went on from a preflight of the life before.
OneEditor ==
    /\ \A o \in Ops : launches[o] <= 1
    /\ \A o, p \in Editors : o # p => mishaps.blind > 0 \/ mishaps.crash > 0

\* What the end of a migration tells is true: cancelled and failed mean that it
\* moved no file and that its editor, if it was started, is gone and did not
\* convert the project (unless somebody put the old marker back); succeeded
\* means the registry was told and no private copy is left behind.
ReportsAreTrue ==
    \A o \in Ops :
        /\ row[o].state \in {"cancelled", "failed"} =>
              /\ job[o].backup = {} /\ job[o].mark = 0
              /\ editor[o] # "running"
              /\ upgraded[o] => mishaps.outside > 0
        /\ row[o].state = "cancelled" => launches[o] = 0
        /\ row[o].state = "succeeded" =>
              committed[o] /\ job[o] = NoJob /\ editor[o] # "running"

\* An unfinished migration that nobody works on in a running daemon.
Stuck(o) == daemon = "up" /\ Live(o) /\ pc[o] = "idle"

\* A package was installed and the marker that says so not yet written.
PublishedUnmarked(o) ==
    job[o].mark = 1 /\ \E t \in job[o].muts \ job[o].staged : Kind[t] = "install"

\* Another migration altered the project, opened it, or told the registry.
Overtaken(o) == \E p \in Ops \ {o} : job[p].mark > 0 \/ launches[p] > 0 \/ committed[p]

\* A prepared project was not converted: its editor ended without that, or a
\* death came between the launch intent and the launch.
Unconverted(o) ==
    /\ profile /\ job[o].mark = 5 /\ ~upgraded[o]
    /\ editor[o] = "exited" \/ (mishaps.crash > 0 /\ launches[o] = 0)

\* No worker is lost but by a cancel, an error of a store request, or a revision
\* that moved before the commit; and recovery_required is recorded for an editor
\* that stays open, an observation or marker that cannot be trusted, a project
\* that somebody else changed or that its own editor did not convert.
StuckForAReason ==
    \A o \in Ops : Stuck(o) =>
        \/ row[o].cancel
        \/ mishaps.fault > 0
        \/ row[o].phase = "project_reobserved" /\ project.rev # plan[o].rev
        \/ /\ row[o].phase = "recovery_required"
           /\ \/ late \/ mishaps.outside > 0 \/ mishaps.blind > 0
              \/ job[o].torn \/ Unconverted(o)
              \/ mishaps.crash > 0 /\ (PublishedUnmarked(o) \/ Overtaken(o))

\* Mishaps are bounded: once they are over, every accepted migration has ended or
\* is stuck, and no worker waits for a lock, an editor or an observation for ever.
SettlesUnlessStuck ==
    <>[](\A o \in Ops : row[o].state \in Terminal \cup {"absent"} \/ Stuck(o))
=============================================================================
