----------------------------- MODULE PackageApply -----------------------------
(***************************************************************************)
(* packages.apply: a plan over one VRChat project is accepted as a durable *)
(* Operation whose worker swaps package directories and the VPM manifest   *)
(* by renames, keeping evidence in an attempt directory from which a       *)
(* failure or a restart rolls the project back.                            *)
(*                                                                         *)
(*   crates/alcomd-application/src/m4.rs   accept, worker, restart         *)
(*   crates/alcomd-vpm/src/engine.rs       the attempt and its rollback    *)
(*   crates/alcomd-store/src/m4.rs         SQL transactions                *)
(*   crates/alcomd-application/src/lib.rs  project refresh and favorite,   *)
(*                                         under another lock coordinator  *)
(*                                                                         *)
(* A step is one SQL transaction, one rename or one durable marker.  The   *)
(* files change only through this code.  Left out: legacy asset cleanup    *)
(* (change set format 3), source pins, and the journal rows, which nothing *)
(* reads back.                                                             *)
(***************************************************************************)
EXTENDS Naturals, FiniteSets, OperationStates

CONSTANTS
    Ops,          \* plans; the Operation of an accepted plan has its name
    Pkgs,         \* package ids, numbered in the order of the change set
    Installed,    \* the packages the project has at first
    None,
    MaxCrashes, MaxFaults,   \* bounds: daemon deaths, failing steps of workers
    MaxTouches               \* bound: refreshes and favorites of the project

Content == {"absent", "orig"} \cup Ops   \* a package directory, by who made it
Tree    == [Pkgs -> Content]

ASSUME PackageApplyAssumption ==
    /\ Pkgs \subseteq Nat /\ IsFiniteSet(Pkgs)
    /\ Installed \subseteq Pkgs
    /\ Ops \cap {"absent", "orig"} = {}
    /\ None \notin Ops /\ None \notin Tree
    /\ MaxCrashes \in Nat /\ MaxFaults \in Nat /\ MaxTouches \in Nat

VARIABLES
    \* state.db
    state, cancelReq,
    plan,       \* plan[o]: what a plan read and what it will make of it
    project,    \* the projects row: its revision and what it says is installed
    \* the project directory
    live,       \* Packages/<p>
    manifest,   \* the packages vpm-manifest.json locks; None while it is away
    att,        \* att[o]: the newest attempt directory of o
    \* the daemon process
    daemon, w, lock, peek,
    \* bounds
    crashes, faults, touches

db     == <<state, cancelReq, plan, project>>
files  == <<live, manifest, att>>
bounds == <<crashes, faults, touches>>
vars   == <<db, files, daemon, w, lock, peek, bounds>>

Marks == {"none", "unmarked", "archive_ready", "extracted", "prepared",
          "packages_replaced", "vpm_manifest_committed",
          "filesystem_committed", "rolled_back"}

\* The markers under which a restart finds project files moved.
Destructive == {"packages_replaced", "vpm_manifest_committed"}

PCs == {"idle", "look", "cancelled", "begin", "load", "create", "fetch",
        "extract", "cancel1", "lockApply", "revalidate", "cancel2", "prepare",
        "intent", "swap", "publish", "commitIntent", "commit1", "commit2",
        "verify", "inspect", "complete", "lockUndo", "undo", "lockFinal",
        "recheck", "failing"}

Nothing == [p \in Pkgs |-> "absent"]

\* staged, backup, rolled: the package directories of an attempt; oldManifest
\* is vpm-manifest.commit-old, newManifest the one a rollback took away.
NewAttempt == [mark |-> "unmarked", staged |-> {}, backup |-> Nothing,
               rolled |-> Nothing, oldManifest |-> None, newManifest |-> None]
NoAttempt  == [NewAttempt EXCEPT !.mark = "none"]

\* row: the project record the worker loaded; todo: packages left in a loop;
\* after: what follows a rollback.
Idle == [pc |-> "idle", row |-> None, todo |-> {}, after |-> "retry"]

Row     == [rev : Nat, obs : Tree]
Seen    == [manifest : Tree, trees : Tree]
Plan    == [rev : Nat, seen : Seen, target : Tree]
Attempt == [mark : Marks, staged : SUBSET Pkgs, backup : Tree, rolled : Tree,
            oldManifest : Tree \cup {None}, newManifest : Tree \cup {None}]
Worker  == [pc : PCs, row : Row \cup {None}, todo : SUBSET Pkgs,
            after : {"retry", "fail", "stop"}]

TypeOK ==
    /\ state \in [Ops -> States \cup {"absent"}]
    /\ cancelReq \in [Ops -> BOOLEAN]
    /\ plan \in [Ops -> Plan \cup {None}]
    /\ project \in Row
    /\ live \in Tree
    /\ manifest \in Tree \cup {None}
    /\ att \in [Ops -> Attempt]
    /\ daemon \in {"down", "recovering", "up"}
    /\ w \in [Ops -> Worker]
    /\ lock \in Ops \cup {None}
    /\ peek \in Row \cup {None}
    /\ crashes \in Nat /\ faults \in Nat /\ touches \in Nat

Init ==
    /\ state = [o \in Ops |-> "absent"]
    /\ cancelReq = [o \in Ops |-> FALSE]
    /\ plan = [o \in Ops |-> None]
    /\ live = [p \in Pkgs |-> IF p \in Installed THEN "orig" ELSE "absent"]
    /\ manifest = live
    /\ project = [rev |-> 1, obs |-> live]
    /\ att = [o \in Ops |-> NoAttempt]
    /\ daemon = "up"
    /\ w = [o \in Ops |-> Idle]
    /\ lock = None
    /\ peek = None
    /\ crashes = 0 /\ faults = 0 /\ touches = 0

-----------------------------------------------------------------------------
(* What a plan is about *)

\* inspect_package_project: the manifest, and the trees it locks.
Snapshot == [manifest |-> manifest,
             trees |-> [p \in Pkgs |-> IF manifest[p] = "absent" THEN "absent"
                                       ELSE live[p]]]

Base(o)     == plan[o].seen.manifest
Changes(o)  == {p \in Pkgs : plan[o].target[p] # Base(o)[p]}
Installs(o) == {p \in Changes(o) : Base(o)[p] = "absent"}
Removes(o)  == {p \in Changes(o) : plan[o].target[p] = "absent"}

\* verify_final_state.
Final(o) == /\ manifest = plan[o].target
            /\ \A p \in Changes(o) : live[p] = plan[o].target[p]

First(S, p) == p \in S /\ \A q \in S : p <= q
Last(S, p)  == p \in S /\ \A q \in S : q <= p

-----------------------------------------------------------------------------
(* Requests *)

\* M4PackageApplication::plan, without a lock.  Each package is left, replaced
\* by new content, removed, or installed.
MakePlan(o, target) ==
    /\ daemon = "up"
    /\ plan[o] = None
    /\ manifest # None /\ project.obs = manifest
    /\ target # manifest
    /\ \A p \in Pkgs : target[p] \in {manifest[p], o, "absent"}
    /\ plan' = [plan EXCEPT ![o] =
                  [rev |-> project.rev, seen |-> Snapshot, target |-> target]]
    /\ UNCHANGED <<state, cancelReq, project, files, daemon, w, lock, peek, bounds>>

\* apply_plan with a fresh key: revalidation and accept_package_plan under the
\* Project lock.  It does not ask whether another Operation is unfinished.
AcceptPlan(o) ==
    /\ daemon = "up" /\ lock = None
    /\ state[o] = "absent" /\ plan[o] # None
    /\ project.rev = plan[o].rev
    /\ manifest # None /\ project.obs = manifest /\ Snapshot = plan[o].seen
    /\ state' = [state EXCEPT ![o] = "queued"]
    /\ w' = [w EXCEPT ![o].pc = "look"]
    /\ UNCHANGED <<cancelReq, plan, project, files, daemon, lock, peek, bounds>>

\* operations.cancel: it takes Operation(o) of another coordinator, so nothing
\* holds it back.
Cancel(o) ==
    /\ daemon = "up"
    /\ state[o] \notin Terminal \cup {"absent"}
    /\ state' = [state EXCEPT ![o] = IF @ = "queued" THEN "cancelled" ELSE "cancelling"]
    /\ cancelReq' = [cancelReq EXCEPT ![o] = TRUE]
    /\ UNCHANGED <<plan, project, files, daemon, w, lock, peek, bounds>>

\* projects.setFavorite: a new revision of the row.
SetFavorite ==
    /\ daemon = "up" /\ touches < MaxTouches
    /\ touches' = touches + 1
    /\ project' = [project EXCEPT !.rev = @ + 1]
    /\ UNCHANGED <<state, cancelReq, plan, files, daemon, w, lock, peek, crashes, faults>>

\* projects.refresh reads the files, which a worker may be changing, ...
InspectProject ==
    /\ daemon = "up" /\ touches < MaxTouches
    /\ peek = None /\ manifest # None
    /\ touches' = touches + 1
    /\ peek' = [rev |-> project.rev, obs |-> manifest]
    /\ UNCHANGED <<db, files, daemon, w, lock, crashes, faults>>

\* ... and saves what it read under the revision it expected.
RefreshProject ==
    /\ peek # None
    /\ project' = IF peek.rev = project.rev /\ peek.obs # project.obs
                  THEN [rev |-> project.rev + 1, obs |-> peek.obs] ELSE project
    /\ peek' = None
    /\ UNCHANGED <<state, cancelReq, plan, files, daemon, w, lock, bounds>>

-----------------------------------------------------------------------------
(* The worker: M4PackageApplication::run *)

At(o, pc) == w[o].pc = pc
Go(o, pc) == w' = [w EXCEPT ![o].pc = pc]

\* The guards of the Project and Operation locks go out of scope.
Unlock(o) == lock' = IF lock = o THEN None ELSE lock

EndTask(o) == w' = [w EXCEPT ![o] = Idle] /\ Unlock(o)

SetState(o, next) == state' = [state EXCEPT ![o] = next]

\* cancellation_requested, before begin and twice before the first rename; the
\* last one holds the lock, which a cancel gives back.
CheckCancelled(o, here, onward) ==
    /\ At(o, here)
    /\ IF cancelReq[o] THEN Go(o, "cancelled") /\ Unlock(o)
                       ELSE Go(o, onward) /\ UNCHANGED lock
    /\ UNCHANGED <<db, files, daemon, peek, bounds>>

\* finish_cancelled, with the checks of finish_operation.
FinishCancelled(o) ==
    /\ At(o, "cancelled")
    /\ IF CanTransition(state[o], "cancelled") THEN SetState(o, "cancelled")
                                               ELSE UNCHANGED state
    /\ EndTask(o)
    /\ UNCHANGED <<cancelReq, plan, project, files, daemon, peek, bounds>>

\* begin_package_apply: any other state is an error, which ends the task.
Begin(o) ==
    /\ At(o, "begin")
    /\ IF state[o] \in {"queued", "recovering"}
       THEN SetState(o, "running") /\ Go(o, "load") /\ UNCHANGED lock
       ELSE UNCHANGED state /\ EndTask(o)
    /\ UNCHANGED <<cancelReq, plan, project, files, daemon, peek, bounds>>

\* Mutant: a half-made attempt is taken for one that never touched the project.
ResumeIgnoresDestructive(o) ==
    IF att[o].mark = "filesystem_committed" THEN "lockFinal" ELSE "create"

\* recover_attempts: what the marker of the newest attempt calls for.  Older
\* attempts were rolled back or never touched the project.
Resume(o) ==
    CASE att[o].mark = "filesystem_committed" -> "lockFinal"
      [] att[o].mark \in Destructive          -> "lockUndo"
      [] OTHER                                -> "create"

\* Mutant: only a first attempt is made.
LoadRefusesOldAttempts(o) ==
    /\ At(o, "load")
    /\ IF att[o].mark \notin {"none", "filesystem_committed"} THEN EndTask(o)
       ELSE /\ w' = [w EXCEPT ![o] = [@ EXCEPT !.pc = Resume(o), !.row = project]]
            /\ UNCHANGED lock
    /\ UNCHANGED <<db, files, daemon, peek, bounds>>

\* The worker keeps this project record for the whole attempt.  An attempt
\* without any marker is refused for ever: RecoveryRequired.
Load(o) ==
    /\ At(o, "load")
    /\ IF att[o].mark = "unmarked" THEN EndTask(o)
       ELSE /\ w' = [w EXCEPT ![o] = [@ EXCEPT !.pc = Resume(o), !.row = project]]
            /\ UNCHANGED lock
    /\ UNCHANGED <<db, files, daemon, peek, bounds>>

Lock(o, here, onward) ==
    /\ At(o, here) /\ lock = None
    /\ lock' = o
    /\ w' = [w EXCEPT ![o] = [@ EXCEPT !.pc = onward,
                !.todo = IF onward = "undo" THEN Changes(o) ELSE {}]]
    /\ UNCHANGED <<db, files, daemon, peek, bounds>>

-----------------------------------------------------------------------------
(* A new attempt: PackageEngine::execute *)

\* The attempt directory, with staging and backup in it.
CreateAttempt(o) ==
    /\ At(o, "create")
    /\ att' = [att EXCEPT ![o] = NewAttempt]
    /\ Go(o, "fetch")
    /\ UNCHANGED <<db, live, manifest, daemon, lock, peek, bounds>>

\* Mutant: the intent is not made durable before the first rename.
MarkNoIntent(o, here, mark, onward, todo) ==
    /\ At(o, here)
    /\ att' = IF mark = "packages_replaced" THEN att
              ELSE [att EXCEPT ![o].mark = mark]
    /\ w' = [w EXCEPT ![o] = [@ EXCEPT !.pc = onward, !.todo = todo]]
    /\ UNCHANGED <<db, live, manifest, daemon, lock, peek, bounds>>

\* append_phase and write_marker: what a restart reads is the marker.
Mark(o, here, mark, onward, todo) ==
    /\ At(o, here)
    /\ att' = [att EXCEPT ![o].mark = mark]
    /\ w' = [w EXCEPT ![o] = [@ EXCEPT !.pc = onward, !.todo = todo]]
    /\ UNCHANGED <<db, live, manifest, daemon, lock, peek, bounds>>

\* extract_package_objects and the marker after it.
Extract(o) ==
    /\ At(o, "extract")
    /\ att' = [att EXCEPT ![o] = [@ EXCEPT !.mark = "extracted",
                                           !.staged = Changes(o) \ Removes(o)]]
    /\ Go(o, "cancel1")
    /\ UNCHANGED <<db, live, manifest, daemon, lock, peek, bounds>>

\* Mutant: only the revision is compared.
RevalidateRevisionOnly(o) ==
    /\ At(o, "revalidate")
    /\ IF w[o].row.rev = plan[o].rev
       THEN Go(o, "cancel2") /\ UNCHANGED lock
       ELSE Go(o, "failing") /\ Unlock(o)
    /\ UNCHANGED <<db, files, daemon, peek, bounds>>

\* revalidate compares the plan with the record loaded before the download and
\* with the files as they are.
Revalidate(o) ==
    /\ At(o, "revalidate")
    /\ IF /\ w[o].row.rev = plan[o].rev
          /\ manifest # None /\ w[o].row.obs = manifest
          /\ Snapshot = plan[o].seen
       THEN Go(o, "cancel2") /\ UNCHANGED lock
       ELSE Go(o, "failing") /\ Unlock(o)
    /\ UNCHANGED <<db, files, daemon, peek, bounds>>

\* Mutant: the old package is deleted.
SwapDeletes(o, p) ==
    /\ At(o, "swap") /\ First(w[o].todo, p)
    /\ live' = [live EXCEPT ![p] = "absent"]
    /\ w' = [w EXCEPT ![o] = [@ EXCEPT
            !.pc = IF p \in Removes(o) THEN "swap" ELSE "publish",
            !.todo = IF p \in Removes(o) THEN w[o].todo \ {p} ELSE w[o].todo]]
    /\ UNCHANGED <<db, manifest, att, daemon, lock, peek, bounds>>

\* replace_packages, one package: the old directory is renamed to the backup;
\* one that is there and should not be, or the reverse, turns to the rollback.
Swap(o, p) ==
    /\ At(o, "swap") /\ First(w[o].todo, p)
    /\ IF (live[p] = "absent") # (p \in Installs(o))
       THEN /\ w' = [w EXCEPT ![o] = [@ EXCEPT !.pc = "undo", !.todo = Changes(o),
                                                !.after = "fail"]]
            /\ UNCHANGED <<live, att>>
       ELSE /\ live' = [live EXCEPT ![p] = "absent"]
            /\ att' = [att EXCEPT ![o].backup[p] = live[p]]
            /\ w' = [w EXCEPT ![o] = [@ EXCEPT
                    !.pc = IF p \in Removes(o) THEN "swap" ELSE "publish",
                    !.todo = IF p \in Removes(o) THEN w[o].todo \ {p} ELSE w[o].todo]]
    /\ UNCHANGED <<db, manifest, daemon, lock, peek, bounds>>

\* replace_packages: the staged directory is renamed into the project.
Publish(o, p) ==
    /\ At(o, "publish") /\ First(w[o].todo, p)
    /\ live' = [live EXCEPT ![p] = o]
    /\ att' = [att EXCEPT ![o].staged = @ \ {p}]
    /\ w' = [w EXCEPT ![o] = [@ EXCEPT !.pc = "swap", !.todo = w[o].todo \ {p}]]
    /\ UNCHANGED <<db, manifest, daemon, lock, peek, bounds>>

\* replace_packages is done.
Swapped(o) ==
    /\ At(o, "swap") /\ w[o].todo = {}
    /\ Go(o, "commitIntent")
    /\ UNCHANGED <<db, files, daemon, lock, peek, bounds>>

\* commit_manifest: the old manifest is renamed away, ...
CommitManifestAway(o) ==
    /\ At(o, "commit1")
    /\ att' = [att EXCEPT ![o].oldManifest = manifest]
    /\ manifest' = None
    /\ Go(o, "commit2")
    /\ UNCHANGED <<db, live, daemon, lock, peek, bounds>>

\* ... and the new one into its place.
CommitManifest(o) ==
    /\ At(o, "commit2")
    /\ manifest' = plan[o].target
    /\ Go(o, "verify")
    /\ UNCHANGED <<db, live, att, daemon, lock, peek, bounds>>

\* verify_final_state and the filesystem_committed marker; a difference turns
\* to the rollback.
Verify(o) ==
    /\ At(o, "verify")
    /\ IF Final(o)
       THEN /\ att' = [att EXCEPT ![o].mark = "filesystem_committed"]
            /\ Go(o, "inspect")
       ELSE /\ w' = [w EXCEPT ![o] = [@ EXCEPT !.pc = "undo", !.todo = Changes(o),
                                                !.after = "fail"]]
            /\ UNCHANGED att
    /\ UNCHANGED <<db, live, manifest, daemon, lock, peek, bounds>>

\* recover_attempts finds the files published by an earlier process.
Recheck(o) ==
    /\ At(o, "recheck")
    /\ IF Final(o) THEN Go(o, "inspect") /\ UNCHANGED lock ELSE EndTask(o)
    /\ UNCHANGED <<db, files, daemon, peek, bounds>>

\* completion: the project is read again; execute returns, and the lock is free.
Inspect(o) ==
    /\ At(o, "inspect")
    /\ w' = [w EXCEPT ![o] = [@ EXCEPT !.pc = "complete", !.row.obs = manifest]]
    /\ Unlock(o)
    /\ UNCHANGED <<db, files, daemon, peek, bounds>>

\* Mutant: the row is overwritten whatever its revision.
CompleteAnyway(o) ==
    /\ At(o, "complete")
    /\ SetState(o, "succeeded")
    /\ project' = [rev |-> project.rev + 1, obs |-> w[o].row.obs]
    /\ EndTask(o)
    /\ UNCHANGED <<cancelReq, plan, files, daemon, peek, bounds>>

\* complete_package_apply; a moved revision is an error, which ends the task.
Complete(o) ==
    /\ At(o, "complete")
    /\ IF project.rev = plan[o].rev
       THEN /\ SetState(o, "succeeded")
            /\ project' = [rev |-> project.rev + 1, obs |-> w[o].row.obs]
       ELSE UNCHANGED <<state, project>>
    /\ EndTask(o)
    /\ UNCHANGED <<cancelReq, plan, files, daemon, peek, bounds>>

\* fail_package_apply.
Fail(o) ==
    /\ At(o, "failing")
    /\ SetState(o, IF state[o] \in Terminal THEN state[o] ELSE "failed")
    /\ EndTask(o)
    /\ UNCHANGED <<cancelReq, plan, project, files, daemon, peek, bounds>>

-----------------------------------------------------------------------------
(* rollback_attempt *)

\* The manifest first.  What stands in its place is taken away once; if
\* something stands there again the rollback gives up.
UndoManifest(o) ==
    LET a == att[o] IN
    /\ At(o, "undo") /\ a.oldManifest # None
    /\ CASE manifest # None /\ a.newManifest = None ->
              /\ att' = [att EXCEPT ![o].newManifest = manifest]
              /\ manifest' = None
              /\ UNCHANGED <<w, lock>>
         [] manifest # None /\ a.newManifest # None ->
              EndTask(o) /\ UNCHANGED <<att, manifest>>
         [] OTHER ->
              /\ manifest' = a.oldManifest
              /\ att' = [att EXCEPT ![o].oldManifest = None]
              /\ UNCHANGED <<w, lock>>
    /\ UNCHANGED <<db, live, daemon, peek, bounds>>

\* There is something of this attempt to take away from Packages/<p>.
Published(o, p) ==
    /\ live[p] # "absent" /\ att[o].rolled[p] = "absent"
    /\ IF p \in Installs(o) THEN p \notin att[o].staged
                            ELSE att[o].backup[p] # "absent"

\* There is an old package to put back.
BackedUp(o, p) == p \notin Installs(o) /\ att[o].backup[p] # "absent"

\* One package, from the last of the change set to the first: what the attempt
\* published goes to rolled-forward-content, the backup comes back.
UndoPackage(o, p) ==
    /\ At(o, "undo") /\ att[o].oldManifest = None
    /\ Last(w[o].todo, p)
    /\ CASE Published(o, p) ->
              /\ att' = [att EXCEPT ![o].rolled[p] = live[p]]
              /\ live' = [live EXCEPT ![p] = "absent"]
              /\ UNCHANGED <<w, lock>>
         [] ~Published(o, p) /\ BackedUp(o, p) /\ live[p] # "absent" ->
              EndTask(o) /\ UNCHANGED <<live, att>>
         [] ~Published(o, p) /\ BackedUp(o, p) /\ live[p] = "absent" ->
              /\ live' = [live EXCEPT ![p] = att[o].backup[p]]
              /\ att' = [att EXCEPT ![o].backup[p] = "absent"]
              /\ w' = [w EXCEPT ![o].todo = @ \ {p}]
              /\ UNCHANGED lock
         [] OTHER ->
              w' = [w EXCEPT ![o].todo = @ \ {p}] /\ UNCHANGED <<live, att, lock>>
    /\ UNCHANGED <<db, manifest, daemon, peek, bounds>>

\* Mutant: the guard of the recovery is still there when the new attempt asks.
UndoneKeepsLock(o) ==
    /\ At(o, "undo") /\ att[o].oldManifest = None /\ w[o].todo = {}
    /\ w[o].after = "retry"
    /\ att' = [att EXCEPT ![o].mark = "rolled_back"]
    /\ Go(o, "create") /\ UNCHANGED lock
    /\ UNCHANGED <<db, live, manifest, daemon, peek, bounds>>

\* A rollback of recover_attempts ends with a marker and a new attempt.
UndoneRetry(o) ==
    /\ At(o, "undo") /\ att[o].oldManifest = None /\ w[o].todo = {}
    /\ w[o].after = "retry"
    /\ att' = [att EXCEPT ![o].mark = "rolled_back"]
    /\ Go(o, "create") /\ Unlock(o)
    /\ UNCHANGED <<db, live, manifest, daemon, peek, bounds>>

\* One of execute ends with its error and leaves the marker as it was:
\* RecoveryRequired stops the task, any other error fails the Operation.
UndoneEnd(o) ==
    /\ At(o, "undo") /\ att[o].oldManifest = None /\ w[o].todo = {}
    /\ w[o].after # "retry"
    /\ IF w[o].after = "fail" THEN Go(o, "failing") /\ Unlock(o) ELSE EndTask(o)
    /\ UNCHANGED <<db, files, daemon, peek, bounds>>

-----------------------------------------------------------------------------
(* Failing steps of a worker *)

Failing(o, points) ==
    /\ w[o].pc \in points /\ faults < MaxFaults
    /\ faults' = faults + 1
    /\ UNCHANGED <<db, files, daemon, peek, crashes, touches>>

\* A journal row, marker or rename of a rollback that fails, or a store request
\* of run, ends the task and leaves everything as it stands.
StopError(o) ==
    /\ Failing(o, {"look", "cancelled", "begin", "load", "create", "fetch",
                   "extract", "prepare", "intent", "commitIntent", "verify",
                   "undo", "recheck", "inspect", "complete", "failing"})
    /\ EndTask(o)

\* A download, an archive, a read of the store or of the project: the
\* Operation fails.
FailError(o) ==
    /\ Failing(o, {"fetch", "extract", "cancel1", "revalidate", "cancel2",
                   "intent", "inspect"})
    /\ Go(o, "failing") /\ Unlock(o)

\* A rename of the swap or of the commit, or the verification: roll back first.
UndoError(o) ==
    /\ Failing(o, {"swap", "publish", "commit1", "commit2", "verify"})
    /\ w' = [w EXCEPT ![o] = [@ EXCEPT !.pc = "undo", !.todo = Changes(o),
                !.after = IF At(o, "verify") THEN "fail" ELSE "stop"]]
    /\ UNCHANGED lock

-----------------------------------------------------------------------------
(* The daemon process *)

Crash ==
    /\ daemon # "down" /\ crashes < MaxCrashes
    /\ crashes' = crashes + 1
    /\ daemon' = "down"
    /\ w' = [o \in Ops |-> Idle]
    /\ lock' = None
    /\ peek' = None
    /\ UNCHANGED <<db, files, faults, touches>>

Start ==
    /\ daemon = "down"
    /\ daemon' = "recovering"
    /\ UNCHANGED <<db, files, w, lock, peek, bounds>>

\* recover_package_operations, one transaction of one row.
RecoverRow(o) ==
    /\ daemon = "recovering"
    /\ state[o] \in {"running", "cancelling", "interrupted"}
    /\ SetState(o, IF state[o] = "interrupted" THEN "recovering" ELSE "interrupted")
    /\ UNCHANGED <<cancelReq, plan, project, files, daemon, w, lock, peek, bounds>>

\* Every unfinished row gets its task; then RPC opens.
Ready ==
    /\ daemon = "recovering"
    /\ \A o \in Ops : state[o] \notin {"running", "cancelling", "interrupted"}
    /\ daemon' = "up"
    /\ w' = [o \in Ops |-> IF state[o] \in {"queued", "recovering"}
                           THEN [Idle EXCEPT !.pc = "look"] ELSE Idle]
    /\ UNCHANGED <<db, files, lock, peek, bounds>>

-----------------------------------------------------------------------------
WorkerStep(o) ==
    \/ CheckCancelled(o, "look", "begin")
    \/ FinishCancelled(o)
    \/ Begin(o)
    \/ Load(o)
    \/ CreateAttempt(o)
    \/ Mark(o, "fetch", "archive_ready", "extract", {})
    \/ Extract(o)
    \/ CheckCancelled(o, "cancel1", "lockApply")
    \/ Lock(o, "lockApply", "revalidate")
    \/ Revalidate(o)
    \/ CheckCancelled(o, "cancel2", "prepare")
    \/ Mark(o, "prepare", "prepared", "intent", {})
    \/ Mark(o, "intent", "packages_replaced", "swap", Changes(o))
    \/ \E p \in Pkgs : Swap(o, p) \/ Publish(o, p) \/ UndoPackage(o, p)
    \/ Swapped(o)
    \/ Mark(o, "commitIntent", "vpm_manifest_committed", "commit1", {})
    \/ CommitManifestAway(o)
    \/ CommitManifest(o)
    \/ Verify(o)
    \/ Lock(o, "lockFinal", "recheck")
    \/ Recheck(o)
    \/ Inspect(o)
    \/ Complete(o)
    \/ Fail(o)
    \/ Lock(o, "lockUndo", "undo")
    \/ UndoManifest(o)
    \/ UndoneRetry(o)
    \/ UndoneEnd(o)

Request == \/ \E o \in Ops : \/ \E target \in Tree : MakePlan(o, target)
                             \/ AcceptPlan(o)
                             \/ Cancel(o)
           \/ SetFavorite
           \/ InspectProject
           \/ RefreshProject

Fault == Crash \/ \E o \in Ops : StopError(o) \/ FailError(o) \/ UndoError(o)

Restart == Start \/ (\E o \in Ops : RecoverRow(o)) \/ Ready

Next == Request \/ (\E o \in Ops : WorkerStep(o)) \/ Fault \/ Restart

Spec == Init /\ [][Next]_vars

\* The runtime polls every worker that can go on, the mutex is first come first
\* served, and the next client call starts a dead daemon.
FairSpec == Spec /\ (\A o \in Ops : WF_vars(WorkerStep(o))) /\ WF_vars(Restart)

-----------------------------------------------------------------------------
(* Safety *)

Unfinished(o) == state[o] \notin Terminal \cup {"absent"}

\* The project is as some manifest describes it: no package or manifest is away.
Whole == manifest # None /\ live = manifest

\* What rollback_attempt would leave, read off the attempt directory.
RestoredManifest(o) ==
    IF att[o].oldManifest # None THEN att[o].oldManifest ELSE manifest
RestoredTree(o) ==
    [p \in Pkgs |-> IF p \notin Changes(o) THEN live[p]
                    ELSE IF p \in Installs(o) THEN
                        IF Published(o, p) THEN "absent" ELSE live[p]
                    ELSE IF att[o].backup[p] # "absent" THEN att[o].backup[p]
                    ELSE live[p]]

\* At every instant of the swap, the commit and a rollback of them, a crash, a
\* failing rename or a second rollback included, the attempt directory holds
\* what brings the project back to where the plan found it.
EvidenceSuffices ==
    \A o \in Ops : att[o].mark \in Destructive =>
        /\ RestoredManifest(o) = Base(o)
        /\ RestoredTree(o) = plan[o].seen.trees

\* A project caught halfway always has a marker that makes the next recovery
\* roll it back, under an Operation it will take up or that was cancelled.
HalfwayIsMarked ==
    ~Whole => \E o \in Ops : /\ att[o].mark \in Destructive
                             /\ Unfinished(o) \/ state[o] = "cancelled"

\* An Operation reported as failed left the files as the plan found them, or
\* else published all of them before the project could not be read again, never
\* a part; and while the daemon lives a cancelled one changed no file.
ReportsAreTrue ==
    \A o \in Ops :
        /\ state[o] = "failed" =>
              Whole /\ (manifest = Base(o) \/ manifest = plan[o].target)
        /\ state[o] = "cancelled" /\ crashes = 0 => Whole /\ manifest = Base(o)

Abandoned(o) == daemon = "up" /\ Unfinished(o) /\ At(o, "idle")

\* In a ready daemon the worker of an unfinished Operation ends early only if a
\* step failed, the project row moved under the plan, a cancel came before
\* begin_package_apply, or a crash left an attempt without its first marker.
AbandonedForAReason ==
    \A o \in Ops : Abandoned(o) =>
        \/ faults > 0
        \/ project.rev # plan[o].rev
        \/ state[o] = "cancelling"
        \/ att[o].mark = "unmarked" /\ crashes > 0

-----------------------------------------------------------------------------
(* Behaviour *)

\* The Operation row moves along the frozen transitions only, although neither
\* transition_recovery nor fail_package_apply asks can_transition_to.
LegalTransitions ==
    [][\A o \in Ops : state'[o] # state[o] =>
         state[o] = "absent" \/ CanTransition(state[o], state'[o])]_vars

\* The first rename of an attempt finds the project exactly as the plan saw it,
\* whatever other Operations did since the plan or since the download began.
SwapStartsFromThePlan ==
    [][\A o \in Ops : At(o, "intent") /\ w'[o].pc = "swap" =>
         manifest # None /\ Snapshot = plan[o].seen]_vars

\* The revalidation compares a record loaded before the download, so an
\* Operation that began under an older revision may write all the same.
Outrun(o) == state[o] \in {"running", "cancelling"} /\ plan[o].rev # project.rev

\* Until the daemon first dies or a step fails, and while no other Operation is
\* outrun, success is reported with the files as planned, and the projects row
\* then says what is in the files, although the lock is already free and others
\* may plan, accept, take the lock and refresh.
SuccessIsThePlan ==
    [][\A o \in Ops : /\ state'[o] = "succeeded" /\ state[o] # "succeeded"
                      /\ crashes = 0 /\ faults = 0
                      /\ \A other \in Ops \ {o} : ~Outrun(other)
         => Final(o) /\ project'.obs = manifest /\ project'.rev = plan[o].rev + 1]_vars

\* An accepted plan ends, unless its worker was abandoned for one of the
\* reasons above.
SettlesUnlessAbandoned ==
    \A o \in Ops : state[o] = "queued" ~> (state[o] \in Terminal \/ Abandoned(o))
=============================================================================
