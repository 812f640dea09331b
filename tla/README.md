# ALCOMD: a formal model of the daemon

ALCOMD is a daemon that manages VRChat projects: it keeps a registry of projects
and package repositories in `state.db`, plans and applies package changes to
project directories, backs projects up, copies, deletes and migrates them, and
runs extensions. Clients (CLI, GUI, MCP and HTTP adapters) speak JSON-RPC to it.
Everything that takes time is a durable *Operation*: accepted in one SQL
transaction, carried out by a spawned task, cancellable, and taken up again by
the next process if the daemon dies.

The modules here model that core: what an Operation promises, how
`state.check` keeps the promise, how named resource locks are made and handed
over, and the long Operations whose steps on the files may be cut short
anywhere: package transactions, deletion, copy, Unity migration, backup and
restore; the runtime of extensions; and the way of a change from the store to
the pages of the GUI.

Paths below are relative to `src/`.

## 1. Inventory

### Durable Operations — `crates/alcomd-store/src/sqlite.rs`, `crates/alcomd-application/src/lib.rs`
- *State*: table `operations` (state, revision, cancel flag), `operation_journal`
  (one step per check), `events`, the idempotency keys of create and cancel;
  in the process, the worker tasks and the lock `StateStore`.
- *Operations*: `state.check`, `operations.cancel`, the worker
  `run_state_check`, `recover` at start.
- *Hard*: a cancel holds `Operation(id)` and the worker `StateStore`, so a
  cancel lands between any two requests of the worker; a restart rewrites rows
  in two transactions; a client that lost an answer repeats its key.
- *Correct when*: rows move along the frozen transitions, one Event per revision;
  an unfinished row keeps recoverable evidence; a worker that did the work can
  publish it; an accepted Operation ends.

### Resource locks — `ResourceLockCoordinator` in `crates/alcomd-application/src/lib.rs`
- *State*: a map from `ResourceKey` to a `Weak` of a tokio mutex.
- *Operations*: `acquire(keys)`, dropping the guards, the abort of a task.
- *Hard*: a lock object dies with its last reference while another task asks for
  it; a task may be aborted at every await, also just after it was handed a lock.
- *Correct when*: one guard per key, no lost wake-up, no cycle of waiters.
- One coordinator (`apps/alcomd/src/lib.rs:211`) is shared by packages, migration,
  creation, copy, deletion, extensions, backups and discovery. `Application` and
  `M3Application` have coordinators **of their own** (`alcomd-application/src/lib.rs:1274,
  1488`): `Project(id)` of theirs does not exclude `Project(id)` of the shared one.

### Package transactions — `crates/alcomd-application/src/m4.rs`, `crates/alcomd-vpm/src/engine.rs`, `plan.rs`, `crates/alcomd-store/src/m4.rs`
- *State*: plans and Operations in `state.db`, the projects row with its
  revision; `Packages/<p>` and `vpm-manifest.json` of the project; per attempt a
  directory with `staging`, `backup`, `rolled-forward-content` and markers.
- *Operations*: plan, apply, the worker (download, extract, lock, revalidate,
  swap, commit the manifest, verify, complete), rollback, recovery.
- *Hard*: every rename may be the last before a death or may fail; the rollback
  itself may die; the project row moves under another coordinator (favorite,
  refresh); two plans over one project; cancel at any point.
- *Correct when*: the attempt directory always suffices to restore the project;
  a report (`failed`, `cancelled`, `succeeded`) is true of the files.

### Project deletion — `m7_delete.rs` of application and store, `crates/alcomd-vpm/src/project_delete.rs`
- *State*: the projects row, the Operation with its newest journal phase, the
  directory at the registered path, a quarantine directory beside it with an
  owner file.
- *Operations*: plan, apply, the worker (preflight, quarantine by one rename,
  validate, registry commit, removal), recovery in each phase.
- *Hard*: the cancel window closes at `quarantine_intent`; every phase has its own
  way to go on after a death; another program may use the path meanwhile.
- *Correct when*: nothing is removed before the registry forgot it; a quarantined
  directory is owned by an unfinished deletion; reports are true.

### Project copy — `m7_copy.rs` of application and store, `crates/alcomd-vpm/src/project_copy.rs`
- *State*: the Operation, the staging directory with its inventory, the target, the
  projects row made for it, the recorded identity of the published directory.
- *Operations*: plan, apply, worker (copy file by file, compare with the source
  again, publish by a rename, register), recovery.
- *Hard*: nobody keeps an editor from saving; a death between the rename and its
  record; two copies to one target.
- *Correct when*: a published copy is one state of the source, as far as digests can
  tell; a published target belongs to a copy that registers it; reports are true.

### Extensions — `m6.rs` of application and store, `apps/alcomd/src/m6_runtime.rs`
- *State*: desired state, grants and two revisions, the row of the newest instance
  with its lease, the map of Host processes, delayed restarts.
- *Operations*: enable, disable, grant, uninstall, start, exit of a Host, restart with
  delay, the maintenance loop of the daemon.
- *Hard*: every one of them reads, awaits and acts; a delayed restart wakes up in
  another world than it was asked in; steps act by extension id, not by instance.
- *Correct when*: a usable lease belongs to the current grants and lifecycle; a `running`
  row has a process; a Host without authority ends.

### Unity migration — `m7_unity_migration.rs` of application and store, `crates/alcomd-vpm/src/unity_migration.rs`
- *State*: the Operation and its phase, the prepared changes with their markers,
  `ProjectVersion.txt`, the editor process, the projects row.
- *Operations*: plan, apply, prepare (several renames), launch, wait, observe, commit,
  and recovery in each phase.
- *Hard*: the editor outlives the daemon, and after a death nobody knows whether it
  was started; it may or may not have changed the project.
- *Correct when*: no migration starts two editors; a report is true of the files and of the
  registry; what is stuck has a reason.

### Backup, restore and discovery — `m5_backup.rs`, `project_discovery.rs`, `crates/alcomd-store/src/m5_backup*.rs`, `crates/alcomd-vpm/src/backup.rs`
- *State*: the Operation, the partial and the finished archive, the backups table; for
  a restore the staging directory, its owner file, the target and the projects row;
  the counter of recovery guards that a discovery scan respects.
- *Operations*: create (list, write, list again, publish, record), restore (check, extract,
  publish, register), recovery of both at start, the scan.
- *Hard*: the cancel poller races the archive; a death between publication and record; the
  scan registers every project it finds, so also one about to be registered.
- *Correct when*: an archive is one state of the project; exactly the succeeded backups are
  recorded; a restored project is registered once, by its restore; the daemon starts.

### Live changes — `alcomd-store/src/lib.rs`, `alcomd-application/src/events.rs`, `events_rpc.rs`, `alcomd-client/src/events.rs`, `alcomd-gui`
- *State*: the events table, the commit watermark with its revisions, the cursor of a
  subscription, the cursor the GUI has accepted, the marks and reads of its pages.
- *Operations*: commit and announcement, subscribe and resume, read and send, receive,
  acknowledge, read a page again.
- *Hard*: a commit may fall between a look at the channel and the sleep on it; a batch,
  its acknowledgement, a read and the next connection may overtake each other; after a
  restart the revisions begin again.
- *Correct when*: a page at rest shows what the store has, and every page gets there.

### Not modelled
| Component | State and operations | What is hard | Properties it should have |
|---|---|---|---|
| Project creation, templates (`project_create.rs`) | staging, publish, registry commit | as project copy | one project per published target |
| Configuration files (`config.rs`) | two documents with backups | a death inside the replacement or its recovery | a valid old or new document |
| Repository sync, credentials (`lib.rs`, `m3.rs`) | snapshots, vault references | vault first, reference second | no reference to nothing survives two starts |
| Package cache (`cache.rs`) | content-addressed objects | repair removes what another apply resolved | an opened object has its digest |
| Resolver and ranges (`resolver.rs`, `range.rs`) | pure | pre-release bounds, backtracking | equals the reference definition |

Serialisation, RPC framing, argument parsing, HTTP, zip decoding, platform calls,
data migrations and the pages of the desktop GUI are outside: `PROJECT.json` lists each with
its reason. How the parts interact: clients call an application method; it takes
locks from its coordinator, runs one store transaction (the store is one thread,
so a transaction is atomic with respect to all others), spawns a task and
answers; tasks meet only in the store, in the files and in the locks.

## 2. Modules and code

| Module | Models | Rests on |
|---|---|---|
| `OperationStates` | `OperationState`, `can_transition_to` of `alcomd-domain` | |
| `OperationContract` | abstract: what a client may rely on about an Operation | `OperationStates` |
| `ForwardOnly` | abstract: an Operation may give up until it records its intent, and only succeed after it | |
| `Operations` | durable Operations and the `state.check` worker | implements `OperationContract` |
| `ResourceLocks` | the lock coordinator | |
| `PackageApply` | plan, apply, attempt, rollback, recovery | `OperationStates` |
| `ProjectDelete` | deletion of a project directory | implements `ForwardOnly` |
| `ProjectCopy` | copy of a project | implements `ForwardOnly` |
| `UnityMigration` | Unity version migration of a project | |
| `BackupCreate` | creation of a backup | |
| `BackupRestore` | restore to a new project, composed with the discovery scan and the start of the daemon | |
| `Extensions` | desired state, grants, Hosts, leases and restarts of one extension | |
| `EventsLive` | store thread, live subscription, wire, GUI stream and page | |
| `...Proofs` | theorems about `Operations`, `PackageApply`, `ProjectDelete`, `ProjectCopy`, `BackupCreate`, `BackupRestore`, `UnityMigration`, `Extensions`; those about `ResourceLocks` are in `PackageApplyProofs`, those about `EventsLive` in `ExtensionsProofs` | |
| `MC...` | instances for TLC | |

Common to all. One SQL transaction, one rename, one marker or one file-system
step is one action; each `.await` of a worker is a value of its `pc` (of `stage` in `ResourceLocks`). A stale
revision or a known key changes nothing and is a stutter. `Crash` empties what
the process holds, `Start` is the recovery of the next one. Contents of files are
abstracted to who made them or to a version: no property tells more apart. The
number of deaths, failing steps and interferences is bounded by the constants
`Max...`. Each module's header lists its variables and the files it translates.

`Operations`. A variable per column (`state`, `rev`, `cancelReq`), one for the
journal step, the Event list, the two kinds of idempotency key, and the
process: `daemon`, `pending` and `toSchedule` (the two loops of `recover`),
`task`, `storeLock`. `StateCheck` holds `StateStore` for one request, so it is
one step.

`ResourceLocks`. `entries[k]` is the `Weak`, `ref[t][k]` the `Arc` a task has,
`holder` and `queue` the tokio mutex, which hands the lock to its first waiter.
The loop over the keys under the mutex of the map is a step per key, because
other tasks may drop references in between. Drops are a step per guard; `Abort`
is `abort_all` of `apps/alcomd/src/lib.rs` at any await.

`PackageApply`. `manifest` is the set of locked packages, `None` while it is
renamed away. `att[o]` is the newest attempt directory; earlier ones were rolled
back or never touched the project. The markers are those `recover_attempts`
reads. The in-memory project record of the worker is `w[o].row`: it is read
before the download and used under the lock. A step that fails has one of three
consequences, which are three actions: the task ends (`StopError`), the
Operation fails (`FailError`), or a rollback comes first (`UndoError`). `lock`
keeps packages of one project apart; `Cancel`, `SetFavorite` and the refresh do
not take it, as they belong to another coordinator. Unregistering is left out: a
plan's foreign key keeps the row (`crates/alcomd-store/migrations/0012*.sql`).
Left out: legacy asset cleanup (change set format 3), source pins and archive
cache, journal rows (written, never read back).

`ProjectDelete`. The state of a deletion is its row with the newest journal
phase, the wrapper directory with its owner file, and where the tree of the
project is. `Checkpoint` is one transaction that refuses a cancelled row before
the intent. `Entry` sends a worker, new or recovered, to the step its phase
asks for. `Touch` is any request that moves or removes the projects row,
`Outside` any program that takes the path.

`ProjectCopy`. The source is a function from two files to contents, which `Edit`
changes at any time and to anything, also to what was there before: a content is
what `verify_source` compares (identity, size, executable bit, digest), and no time
stamp is among it. Staging reads file by file, one file in one step; `Verify` reads
the source once more, in either order, since `walk` sorts each directory by itself
and staging sorts whole paths. Two history variables, which no step looks at, say
what the source was: `moment`, whether it was all of what a copy has staged at one
moment since, and `back`, whether the file staged first was saved as something else
and then back. The target holds a directory of a copy or of somebody else; the copy
recognises its own by the identity in the journal.

`UnityMigration`. A migration starts an editor at once or prepares the project
first: packages and manifest are replaced one by one, between markers
(`job[o].mark`), each replaced thing with a private copy. The editor is a
process of its own: it outlives the daemon and converts the project when it
likes. What the worker learns of it is an observation, which may see nothing.

`BackupCreate`. Inventory, archive and second inventory are separate steps,
between which an editor saves; the archive's partial and published files are
separate, and a checkpoint comes before and after the rename. The cancel poller
is a choice at the end of the archive.

`BackupRestore`. Staging directory, owner file, target, registered row and
recovery guard of each restore; the scan looks at the guards, takes the settings
fence, inspects the directory without it and registers under the lock of the
target. `Refuse` is a start that ends because recovery of a succeeded restore
failed.

`Extensions`. One extension: desired state, grants with revision, lifecycle
generation; the newest instance row with its lease; the Host process; the tasks
that read, await and act (`start_enabled`, a delayed restart, a termination) and
the maintenance loop. The two revisions are the `era` a lease is for. One grant
stands for `background.run` and what the manifest requires.

`EventsLive`. A transaction may append an Event, change an extension or append
to the log; the store thread announces it afterwards. `sub` is
`read_committed_page` with the places it awaits at; `wire` is what is on its way;
`gui` the connection with the accepted cursor and the cursor of the client's
checks; `page` one page: what it is of, what it shows, whether it is marked, and
the read behind it. Pages do not touch each other, so one is enough; a page of
Operations is one that every Event of the owner marks. Visibility of the window
and the merge of marks into fewer reads are not modelled; a page that waits is
simply not read yet.

Operators commented `Mutant` are wrong variants of the definition that follows
them. Replacing the definition by the variant must break the property that
`PROJECT.json` pairs with it, which shows that the property depends on that code.

## 3. Runs

| Run | Instance | Question | Answer |
|---|---|---|---|
| `operations` | 2 Operations, 2 + 2 keys, 2 tasks, 2 deaths, 1 fault | rows, journal, Events and tasks stay consistent; contract; liveness | holds |
| `locks` | 3 tasks, 2 keys, 3 lock objects | exclusion, no deadlock, every request served | holds |
| `pkg_one` | 1 plan, 2 packages, 2 deaths, 2 faults, 1 touch | evidence, honest reports, liveness | holds |
| `pkg_race` | 3 plans, 1 package, 1 touch | a swap starts from the plan; success is true | holds |
| `delete` | 2 deletions of one project, 2 mishaps | removal after the registry only; quarantines owned; reports; liveness | holds |
| `copy` | 2 copies, 2 files, 2 contents, any number of saves, 2 mishaps | a copy is a snapshot or its first file was saved back; targets accounted for; reports | holds |
| `migrate` | 2 migrations, 5 things to replace, 2 mishaps | one editor; reports; what is stuck has a reason; liveness | holds |
| `backup` | 2 backups, 2 files, 2 mishaps (saves among them) | an archive is a snapshot; reports; orphans; liveness | holds |
| `restore` | 2 restores of one backup to one target, 2 mishaps, the scan | reports; stuck for a reason; the scan waits; liveness | holds |
| `extensions` | 1 extension, 2 tasks, 2 starts, 3 eras, 1 death | authority of leases; phantom rows; stale Hosts end | holds |
| `events` | 2 transactions, 1 mishap, each kind of page, with and without the log | a page at rest is current; every page catches up | holds |
| `restore_start` | 1 restore, 1 change of the project | every start serves | violated |

Why the bounds suffice. Two actors are the least that compete for a lock, a
project, a target or a backup, and that a recovery can be interrupted between.
Two mishaps are the least that interrupt a recovery, let a cancel be followed
by a death, or let a failing step meet a moved row; all of them come out of one
budget, so that every pair is tried. More precisely:

- `operations`: `UnfinishedIsRecoverable` ties the journal to the row,
  `EventsTellTheRow` the Event stream, `AbandonedOnlyByRaceOrFault` names the only
  ways a ready daemon loses a worker. `ImplementsContract` is the refinement.
- `locks`: three tasks are a holder, a waiter and one that asks while the last
  reference goes; two keys allow a circle of waiters. Deadlock is checked.
- `pkg_one`: two packages let a change set be caught between them, with an
  install, a replacement and a removal among the plans. `EvidenceSuffices`
  computes from the attempt directory what `rollback_attempt` would restore and
  compares it with what the plan saw, at every instant; `HalfwayIsMarked` says no
  half-applied project escapes recovery; `ReportsAreTrue` relates reports to files;
  `AbandonedForAReason` lists every way a task ends early. Its file properties
  speak of **one plan per project at a time** (see "a rollback over another's
  success" below).
- `pkg_race`: three plans are the least number with which a project returns to the
  bytes an older plan saw. `SuccessIsThePlan` assumes no death or fault and that no
  other Operation was outrun by the project revision.
- `delete`, `copy`, `migrate`, `restore`, `backup`: `ReportsAreTrue` says of every
  terminal state what is then on disk and in the registry; `StuckForAReason` (for
  backups `OrphanForAReason`) lists the ways in which an Operation is left
  unfinished or a file left over, and everything outside that list would be a
  violation; the liveness property says that all others end.
  `ArchiveIsASnapshot` and `MixedOnlyIfSavedBack` hold a result against one moment of
  the source, for which two files are enough. A backup compares time stamps, so its
  saves have versions that never return; a copy does not, so its saves may bring
  earlier contents back, as often as they like, and two contents are enough for that.
- `extensions`: three eras let an enable, a disable and an enable happen around one
  delayed task; two tasks are a start and a delayed restart.
- `events`: two transactions let the second fall anywhere under the delivery of the
  first. One mishap is one reconnection, with or without a new life of the store. Two
  mishaps were tried with one transaction (both properties) and with two
  (`QuietIsCurrent`); both hold there, too, but the liveness of the largest of these
  instances takes longer than a run should.

Type invariants are stated in every module; for the eight modules with proofs they
are theorems. Deadlock is checked in `locks`; elsewhere everything may be finished and
the bounds used up.

Fairness. tokio polls a task that can run, so the steps of a worker, of a
subscription and of the store thread are weakly fair (`WF`); a tokio mutex is
first come first served, so waiting workers are not overtaken for ever: the
step into a lock is strongly fair (`SF`) where others may take it in between.
`Start` is weakly fair because a client that finds no daemon starts one
(`crates/alcomd-client/src/lib.rs:1187`): liveness is for what someone still asks
about. Per module: the maintenance loop and the expiry of a lease in `Extensions`
are timers; in `UnityMigration` the editor is assumed to quit in the end
(`EditorExits`), as it runs in batch mode, and nothing in the code ends it; in
`BackupRestore` one of scan and restore gets on; in `EventsLive` the retry timer of
the GUI connects again, but starts no daemon (`alcomd-gui/src-tauri/src/events.rs:226-229`;
some other client does), and nobody presses Retry. Requests, deaths and failures
are never forced, and their number is bounded, so that "nothing fails any more"
is part of every fair behaviour.

## 4. Disagreements found

`restore_start` (with a run). Recovery runs `finalize_restore` for every restore
that ever succeeded, at every start, and compares the whole tree of the project
with the backup before it looks whether anything is left to do. A restored project
that was edited, moved or deleted makes `bind` fail. ADR 0022 wants an error of the
restore alone. (For a restore that was not finished, `tests/m5_backup_rpc.rs:834-845`
checks that: there the daemon serves.)

Seen while modelling, without a run of their own; each is a behaviour of the
modules, named in the reasons of `StuckForAReason`, `AbandonedForAReason` and
the like where these hold only because they list it:

*Operations.* A cancel between a recovered worker's first look and its
`begin_state_check` is refused there as `CorruptState`; the Operation stays
`cancelling` until the next restart. ADR 0005 (`docs/adr/0005-operation-and-lock-model.md:19-20`)
and `recovery_action` send a `recovering` row through `interrupted` again,
`recover` does not.

*Packages.*
- A rollback over another's success: an unfinished Operation without a worker does
  not keep another plan off the project (`alcomd-store/src/m4.rs:352`), and its later
  rollback moves files of the succeeded one away. The M4 plan
  (`docs/exec-plans/M4-package-transactions.md:354-356`) calls recovery and writes serial.
- After a cancel during the swap and a death, the new worker meets the cancel flag
  before `recover_attempts`: `cancelled` over a half-applied project (M4 plan :344-345).
- `revalidate` compares the revision in the record read before the download. A
  favorite meanwhile is noticed only by `complete_package_apply`, after the files are
  published; the Operation then stays `running`, after every restart again.
- An attempt directory without its first marker is `RecoveryRequired` for ever. The
  Project lock is dropped before `complete_package_apply`, though the M4 plan lets it
  cover the SQLite finalization.

*Deletion.* Favorite, refresh and unregister use the coordinator of `M3Application`
and are not serialised with a deletion, though
`docs/baselines/m7-p7-project-directory-delete.md` says so. A writer `unknown` is
accepted by `require_no_target_writer`. A death in the clean-up, or while
`cancelling`, leaves the deletion stuck.

*Copy.* `verify_source` (`project_copy.rs:247-259`) compares what the copy plan asks for
(`docs/exec-plans/M7-project-package-functional-closure.md:125-127`), and no time stamp.
When the source alternates in place between two states and each reading meets the first
state at one file and the second at another, both readings agree and a mixture that
never was is published. `MixedOnlyIfSavedBack` says that this is the only way; without
its exception TLC finds that behaviour. A cancel between the second look and the publish
intent lets the copy go on; its commit refuses, and the next start completes it. A copy
without a recorded identity may accept another's identical directory. Failed copies
leave their staging directory. A failure after `state_committed` commits again and stays
stuck.

*Extensions.* An exit of a Host while the maintenance loop holds its lease turns into
`InstanceStale`, passes through `?` (`m6.rs:1128`) and ends the loop for the life of
the daemon (`exited` in the model). Start, stop and terminate act by extension id, so
that a stop meant for an old instance may hit the new one and leave a `running` row.
A disable sent twice stops the Host of a later enable. Enable during an uninstall is
allowed by `set_desired`.

*Migration.* `cancel_operation` has no phase guard, although
`docs/exec-plans/M7-unity-project-version-stop-a.md:271-273, 280-282` forbid a cancel
after the launch: the row stays `cancelling`, the registry stale. A restart at
`preflight_complete` does not look for a writer again (:268). A request that moves the
project's revision makes the commit fail for good. A death after an installed
package and before its marker, a torn marker, and a death between launch intent and
launch of a prepared project end in `recovery_required`, on which nothing works
again. `commit_project` updates the snapshot, not the column `unity_version`.

*Restore and backup.* `fail()` at `state_committed` reports `failed` over a registered
project. A recovered Operation with a cancel flag ends `failed`, or stays `recovering`
past the publish intent. After two deaths a restore may adopt the directory another
restore of the same backup published. A recovery needs the unchanged archive even
after publishing. An explicit registration takes no `ProjectCreate` lock and steals
the identity; a restore that an error left `recovering` has no guard, so the scan may
register its directory first. A backup that fails after publishing leaves an archive
without a record, against ADR 0021; a cancel during the inventory of a recovered
backup leaves its old partial archive; an archive that failed is reported cancelled
if a cancel came, too.

*Live changes.* When the announcement of an extension's change fails and a later one
succeeds before anybody looks, the change is never told (`lost` in the model), as only
the command that made it knew. A page whose read failed waits for the next change,
connection or Retry. `docs/exec-plans/M7-official-gui-extension-ui.md:437` resumes only at
an equal resources revision; the code also accepts an older one, if only the log moved.

## 5. Proofs

Each proof module proves an inductive invariant `IInv` (initially, by every step, by
stuttering) and derives its theorems from it, for every value of the constants allowed
by the named assumptions: `OperationsAssumption`, `ResourceLocksAssumption`,
`PackageApplyAssumption`, `DeleteAssumption`, `CopyAssumption`, `BackupAssumption`,
`RestoreAssumption`, `MigrationAssumption`, `EventsAssumption` and
`ExtensionsAssumption` say that null values are not members of the sets they mark the
absence of, that bounds are naturals, that package ids are ordered and canonical ranks
distinct, that a copied project has two files, that what a preparation replaces is
numbered in its order, and that every preparation replaces the VPM manifest.

- `OperationsProofs`. `UnfinishedIsRecoverable` is not inductive: whether a step
  may close the journal depends on where its worker stands. `IInv` adds, per
  state, the journal and cancel flag a row has (`RowInv`), that a task owns one
  Operation and the guard (`TaskInv`), the states possible at each place of a
  worker (`WorkerInv`) and what recovery has left to do (`DaemonInv`). From it:
  `TypeCorrect`, `Recoverable`, `Serialised`, `Publishable`, `Hidden`; with the
  lemma that each step commits one legal transition, `Refinement`
  (`Operations` implements `OperationContract`) and `EventStream`. `KeysNameRows`
  needs only that a used key names an existing row; `AbandonedForAReason` adds
  `TendedInv`: an unfinished row of a ready daemon has a task unless it is
  `cancelling` or a fault happened, and one of a daemon that recovers is among those
  its two loops still have before them.
- `PackageApplyProofs`. `OpInv(o)` ties the place of a worker to what it owns: the
  lock, the loaded record, the states of its row, and between revalidation and
  first rename the files of its plan. The other workers cannot break it because
  files change only under the lock (`OthersKeep`). From it: `TypeCorrect`,
  `OneWriter`, `Transitions`, `SwapStart`.
  The theorems about the files (`Evidence`, `Halfway`, `Reports`, `Abandonment`) have
  the form `OneAccepted => ...`: any number of plans is made, one of them is accepted,
  and packages, deaths, failing steps and touches are arbitrary. The premise is
  needed: an abandoned attempt's marker outlives the writes of a second accepted plan,
  and then its evidence is about files that are no longer there ("a rollback over
  another's success"). They rest on `SoloInv`, which says for the accepted plan which
  marker the attempt has at each place of the worker (`MarkerInv`), what the attempt
  directory then holds of the manifest and of each package (`ManifestEvidence`,
  `PackageEvidence`), how far the swap or the rollback is (`ProgressInv`), and what
  row and worker still have to say (`WordInv`). The two kinds of evidence are where
  the order of the renames matters: a package is put back only after what stood in
  its place was taken away, and a second rollback of the same attempt sees from
  `rolled` and `backup` how far the first one came.
  Of any number of accepted plans speaks `FreshInv`, as long as the daemon has not died
  and no step failed (`Fresh`). `StageInv` says how far each worker is, and that none
  turns to a rollback; `WritingInv` and `WholeInv` that the files are between what the
  one writer's plan saw and what it asks for, and whole when nobody writes. `CalmInv`
  is the argument about revisions: while no plan that has begun to write is outrun
  (`Calm`; once one is, it stays so), at most one plan is between its first rename
  and its report (`Pending`), and the projects row shows the files it started from. A
  second one of the same revision would have to find those files after the first has
  changed them; `PeekInv` says the same of what a refresh has read. From it: `Success`,
  `HalfwayAmongMany`, `AbandonmentAmongMany`.
  Its last part is about `ResourceLocks`, whose definitions have names of their own so
  that one proof module can extend both. Exclusion rests on `OneLockPerKey`: while
  anybody refers to the lock of a key, the map names it. `LockIInv` adds that guards are
  grants of referenced locks and that no lock object serves two keys. From it:
  `LockTypeCorrect`, `LockIsSingle`, `LockExclusion`, `LockWakeUps`.
- `ProjectDeleteProofs`. `RegistryInv` says which deletion the missing row is due
  to, `OpInv(o)` what each place of a worker knows about phase, wrapper and tree,
  split into the places before and after the intent (`Early`, `Late`). From it:
  `TypeCorrect`, `CommitComesFirst`, `Owned`, `Truthful`, and `NeverTurnsBackHolds`,
  the refinement of `ForwardOnly`. `StuckHasAReason` adds `StuckInv`: while no
  step failed and nobody else moved the project there is one directory, and each
  place of a worker that was not cancelled knows where it is.
- `ProjectCopyProofs`. `TargetInv` says whose directory is at the target and what it is;
  `OpInv` has parts for the row, the registry, the staging directory and what is staged
  in it (`RowInv`, `RegInv`, `ShellInv`, `SnapInv`). When the last file is staged, the
  source is what is staged unless the first file was saved since; from then on either
  that moment is known or the first file was saved back (`Whole`), or the first file is
  not now as staged (`Kept`), which the second reading notices, in whichever order it
  goes. From it: `TypeCorrect`, `SnapshotOrSavedBack`, `Accounted`, `Truthful`,
  `NeverTurnsBackHolds`.
- `BackupCreateProofs`. Per Operation, `PlaceInv` says which phases the journal has
  where a worker stands, `RowInv` that exactly the succeeded are recorded, `FileInv`
  from when on there is an archive, `CauseInv` why a backup that has one can fail. The
  snapshot is an argument about two readings (`SnapInv`): versions only grow, so a file
  with the same version in both inventories had it in between. From it: `TypeCorrect`,
  `Snapshot`, `Truthful`, `Orphan`, `JournalForward`.
- `BackupRestoreProofs`. `PlaceInv` says which phase and which lock a worker has where it
  stands, `RowInv` what the state of its row allows, `FileInv` that a restore that made
  the target and has not committed still has its owner file (so that the next attempt
  recognises it), `CauseInv` that whoever has seen something at the target still finds
  something there unless others touched it, and that every failing attempt past the
  intent has a reason. `TargetInv` is about the directory whoever made it. The scan
  rests on `GuardInv` and `ScanInv`: before its lock, a restore that made the target has
  a recovery guard; a scan that has the lock saw no guards, and none is added while it
  runs. From it: `TypeCorrect`, `Truthful`, `StuckHasAReason`, `ScanIsSafe`,
  `JournalForward`.
- `UnityMigrationProofs`. `PlaceInv` says which phase the journal has where a worker
  stands, `RowInv` which states its row, `LaunchInv` that up to the launch intent, and
  at `spawn`, no editor was started (so that one start follows from the order of
  intent and launch, whatever dies), `JobInv` what the private directory holds and
  why an end may be reported, `CalmInv` that without a death or a failed observation
  whoever is past its preflight is alone with the project. From it: `TypeCorrect`,
  `OneLaunch`, `Truthful`, `JournalForward`. The order of a preparation needs a least
  element of every set of numbers (`Least`, from well-founded induction).
  `StuckHasAReason` adds `ReasonInv`. Its core is `PrepInv`: while nobody else can have
  disturbed a preparation (`Own`: nothing failed, nobody meddled, no torn marker, and
  after a death no other migration had the project), the marker says where each thing is:
  as found before its stage, moved away or replaced within it, replaced after it
  (`ThingInv`), so the next thing always fits (`NextThingFits`) and both verifications
  succeed (`VerificationFits`). It needs what materialize can find (`FilesInv`: files
  move in a preparation only, without a death all of them or none; a renewed project is
  recognised by its VPM manifest, hence that assumption), who wrote the version marker
  (`DiskInv`), what each place and phase knows of both (`ReadyInv`), and what every
  `recovery_required` rests on (`WordInv`).
- `ExtensionsProofs`. `HostInv` and `KnownInst` relate process, row and the instance
  a task remembers, `NoRowInv` the times without a row. From it: `TypeCorrect`,
  `Authority`, `Phantoms`, `RevokedForGood`.
  Its last part is about `EventsLive`. `QuietIsCurrent` relates the two ends of a chain,
  so `LiveIInv` follows a change along it: a page that is not going to read again shows
  what the store has, or a batch that marks it is on the wire (`InFlight`), or the
  subscription has yet to send it (`Untold`), which each hop passes on to the next
  (`PageInv`). `MarkInv` bounds how far the channel may be behind the tables, `SubInv` the
  subscription behind the channel, and `SleepInv` says that one that has looked, found
  nothing and was told nothing since has sent all there is; it needs that `Found` is
  empty only if nothing is left (a least element again). From it: `LiveTypeCorrect`,
  `QuietPagesAreCurrent`.

Four of these are action properties stated in the proof modules rather than in a run; each
was model-checked on the instance of its component's run before it was proved.
`JournalForward` (backups, restores, migrations): an Operation that ended never leaves its
end, no attempt and no restart takes its phase back, and what is recorded of a cancel (of
a migration also: of the editor's exit and of the project being unchanged after it) is
never withdrawn. The invariant is needed because a worker writes the phase of the place
where it stands: `PlaceInv` says that it is later than what the journal has, and `RowInv`
that a row that ended has a worker only where its steps leave the row alone. For a
migration the phases between the preflight and the commit have an order (`Place`), and
nothing comes after `recovery_required`. `RevokedForGood`: a lease that was
cancelled is never given back to its instance, and an instance that lost its row never
gets one again: every step that touches a lease, of a late task, a crash report or a
restart, ends the one there is, and only a start makes another, under a new number. It
needs no more of the invariant than the types.

Model-checked only: all liveness properties, which the prover cannot do (so
`SettlesUnlessStuck` and its like, `RequestsAreServed`, `StaleHostIsStopped`,
`CatchesUp`);
and `EvidenceSuffices` and `ReportsAreTrue` of `PackageApply` once a second plan is
accepted (they do not hold then).

## 6. Plan

1. `PackageApply` extended by the archive cache (repair against an apply that
   already resolved the path), and `ConfigStore`.
2. Project creation, of the shape of `ProjectCopy`; the installation of an
   extension; the resolver as recursive functions against a reference definition.

The modules are a selection: the parts whose steps may be interleaved or cut short.
Most of the repository translates requests, reads rows, parses archives and
manifests, or draws pages, and is in none of them.
