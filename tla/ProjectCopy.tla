------------------------------ MODULE ProjectCopy ------------------------------
(***************************************************************************)
(* projects.copy: a registered project is copied file by file into a       *)
(* staging directory next to the target, compared with the source once     *)
(* more, renamed to the target and registered.                             *)
(*                                                                         *)
(*   crates/alcomd-application/src/m7_copy.rs   handlers and worker        *)
(*   crates/alcomd-store/src/m7_copy.rs         transactions and recovery  *)
(*   crates/alcomd-vpm/src/project_copy.rs      steps on the file system   *)
(*                                                                         *)
(* Copies of one source to one target.  The source is two files; an editor *)
(* may save them at any time, no lock of the daemon keeps it from doing    *)
(* so, and what it saves may be what it had saved before.  A content is    *)
(* all that verify_source compares of a file: its identity, size,          *)
(* executable bit and digest, but no time stamp, so that a file saved back *)
(* in place is the file it was.                                            *)
(***************************************************************************)
EXTENDS Naturals

CONSTANTS
    Ops,          \* accepted copies
    Files,        \* files of the source, staged in their order
    Contents,     \* what a file may be saved as
    None,         \* "no holder", "nobody", "no file"
    MaxMishaps    \* bound: deaths, failing steps, changes of the target by others

ASSUME CopyAssumption ==
    /\ None \notin Ops /\ "other" \notin Ops /\ "client" \notin Ops
    /\ None \notin Contents
    /\ Files = 1..2
    /\ MaxMishaps \in Nat

VARIABLES
    row,        \* durable: the Operation: state, newest journal phase, cancel flag, and
                \* whether its journal holds the identity of the published directory
    registry,   \* durable: who registered the target directory as a project
    source,     \* files: the source
    shell,      \* files: the staging directory of each copy
    payload,    \* files: what is staged in it
    listing,    \* files: inventory.jsonl, the digests of what was staged
    moment,     \* history: what each copy has staged, if the source was that at a moment
                \* since
    back,       \* history: the copies whose first file, once staged, was saved as
                \* something else and then back
    target,     \* files: who made the target directory, and its content
    registered, \* history: the copies whose registration was committed
    daemon, pc, seen, lock,   \* the daemon process
    mishaps     \* deaths, failing steps and changes of the target so far

store  == <<row, registry, registered>>
past   == <<moment, back>>
files  == <<source, past, shell, payload, listing, target>>
vars   == <<store, files, daemon, pc, seen, lock, mishaps>>

Mishap == mishaps < MaxMishaps /\ mishaps' = mishaps + 1

Terminal == {"succeeded", "failed", "cancelled"}
States   == Terminal \cup {"absent", "queued", "running", "cancelling", "recovering"}

AfterIntent == {"publish_intent", "target_published", "project_registry_commit_intent",
                "state_committed", "cleanup_complete", "recovery_required"}
Phases == AfterIntent \cup {"accepted", "inventory_ready", "staging", "staging_complete"}

PCs == {"idle", "begin", "lock", "make", "own", "inventoried", "look1", "toStage",
        "stage1", "stage2", "staged", "look2", "verify", "verify1", "verify2", "intent",
        "publish", "published", "validate", "commitIntent", "commit", "cleanup",
        "unshell", "finish", "discard", "drop", "cancelled", "fail"}

Content == [Files -> Contents]
Nothing == [f \in Files |-> None]
Partial == [Files -> Contents \cup {None}]
Free    == [by |-> None, what |-> Nothing]

Live(o)       == row[o].state \notin Terminal \cup {"absent"}
PastIntent(o) == row[o].phase \in AfterIntent

TypeOK ==
    /\ row \in [Ops -> [state : States, phase : Phases,
                    cancel : BOOLEAN, known : BOOLEAN]]
    /\ registry \in Ops \cup {None, "client"}
    /\ source \in Content
    /\ shell \in [Ops -> {"none", "bare", "owned"}]
    /\ payload \in [Ops -> Partial] /\ listing \in [Ops -> Partial]
    /\ moment \in [Ops -> Partial] /\ back \subseteq Ops
    /\ target \in [by : Ops \cup {None, "other"}, what : Partial]
    /\ registered \subseteq Ops
    /\ daemon \in {"down", "up"}
    /\ pc \in [Ops -> PCs] /\ seen \in [Ops -> Phases]
    /\ lock \in Ops \cup {None}
    /\ mishaps \in Nat

Init ==
    /\ row = [o \in Ops |-> [state |-> "absent", phase |-> "accepted",
                             cancel |-> FALSE, known |-> FALSE]]
    /\ registry = None
    /\ source \in Content
    /\ shell = [o \in Ops |-> "none"]
    /\ payload = [o \in Ops |-> Nothing] /\ listing = [o \in Ops |-> Nothing]
    /\ moment = [o \in Ops |-> Nothing] /\ back = {}
    /\ target = Free
    /\ registered = {}
    /\ daemon = "up"
    /\ pc = [o \in Ops |-> "idle"] /\ seen = [o \in Ops |-> "accepted"]
    /\ lock = None
    /\ mishaps = 0

-----------------------------------------------------------------------------
(* Requests and the world outside *)

SetRow(o, s, p, c, k) ==
    row' = [row EXCEPT ![o] = [state |-> s, phase |-> p, cancel |-> c, known |-> k]]

SetState(o, s) == SetRow(o, s, row[o].phase, row[o].cancel, row[o].known)
SetPhase(o, p) == SetRow(o, row[o].state, p, row[o].cancel, row[o].known)
Goto(o, where) == pc' = [pc EXCEPT ![o] = where]

EndTask(o) == /\ Goto(o, "idle")
              /\ seen' = [seen EXCEPT ![o] = "accepted"]
              /\ lock' = IF lock = o THEN None ELSE lock

\* apply_copy, under the locks of source and target.  The worker never looks at the
\* revision of the source again, so the registry row of the source is left out.
Apply(o) ==
    /\ daemon = "up" /\ lock = None
    /\ row[o].state = "absent" /\ target = Free
    /\ SetState(o, "queued")
    /\ Goto(o, "begin")
    /\ UNCHANGED <<registry, registered, files, daemon, seen, lock, mishaps>>

\* cancel_operation: refused once the newest phase is at or after the intent.
Cancel(o) ==
    /\ daemon = "up"
    /\ Live(o) /\ ~PastIntent(o)
    /\ SetRow(o, IF row[o].state = "queued" THEN "cancelled" ELSE "cancelling",
              row[o].phase, TRUE, row[o].known)
    /\ UNCHANGED <<registry, registered, files, daemon, pc, seen, lock, mishaps>>

\* An editor saves one file or several, as anything.
Edit ==
    /\ source' \in Content \ {source}
    /\ moment' = [o \in Ops |-> IF payload[o] = source' THEN source' ELSE moment[o]]
    /\ back' = back \cup {o \in Ops : payload[o][1] # source[1] /\ payload[o][1] = source'[1]}
    /\ UNCHANGED <<store, shell, payload, listing, target, daemon, pc, seen, lock, mishaps>>

\* Another program makes or removes the target; a client registers the directory it
\* sees there, or unregisters it, under the locks of another application.
Meddle ==
    /\ Mishap
    /\ \/ /\ target' = IF target = Free THEN [Free EXCEPT !.by = "other"] ELSE Free
          /\ UNCHANGED registry
       \/ /\ daemon = "up" /\ registry = None /\ target # Free
          /\ registry' = "client" /\ UNCHANGED target
       \/ /\ daemon = "up" /\ registry # None
          /\ registry' = None /\ UNCHANGED target
    /\ UNCHANGED <<row, registered, source, past, shell, payload, listing, daemon, pc,
                   seen, lock>>

-----------------------------------------------------------------------------
(* The worker: run_inner *)

At(o, where) == daemon = "up" /\ pc[o] = where

\* begin_project_copy
Begin(o) ==
    /\ At(o, "begin")
    /\ IF row[o].state \in {"queued", "recovering", "running"}
       THEN /\ SetState(o, "running")
            /\ seen' = [seen EXCEPT ![o] = row[o].phase]
            /\ Goto(o, "lock")
       ELSE Goto(o, "fail") /\ UNCHANGED <<row, seen>>
    /\ UNCHANGED <<registry, registered, files, daemon, lock, mishaps>>

\* Where run_inner goes for the phase that begin loaded.
Entry(phase) ==
    CASE phase = "accepted" -> "make"
      [] phase \in {"inventory_ready", "staging", "staging_complete"} -> "look1"
      [] phase = "publish_intent" -> "publish"
      [] OTHER -> "validate"

Acquire(o) ==
    /\ At(o, "lock") /\ lock = None
    /\ lock' = o
    /\ Goto(o, Entry(seen[o]))
    /\ UNCHANGED <<store, files, daemon, seen, mishaps>>

\* A step on the file system that has no more to change than its own files.
FileStep(o, here, onward) ==
    /\ At(o, here) /\ Goto(o, onward)
    /\ UNCHANGED <<store, source, daemon, seen, lock, mishaps>>

Untouched == UNCHANGED <<past, shell, payload, listing, target>>

\* verify_owner: owner.json in the staging directory names this copy.
Verified(o) == shell[o] = "owned"

\* revalidate_plan and inventory: a new staging directory, or that of a dead attempt.
Make(o) ==
    \/ /\ target = Free /\ shell[o] = "none"
       /\ shell' = [shell EXCEPT ![o] = "bare"]
       /\ FileStep(o, "make", "own")
       /\ UNCHANGED <<past, payload, listing, target>>
    \/ target = Free /\ Verified(o) /\ FileStep(o, "make", "inventoried") /\ Untouched
    \/ /\ target # Free \/ shell[o] = "bare"
       /\ FileStep(o, "make", "fail") /\ Untouched

Own(o) ==
    /\ shell' = [shell EXCEPT ![o] = "owned"]
    /\ FileStep(o, "own", "inventoried")
    /\ UNCHANGED <<past, payload, listing, target>>

\* A plan expired, a link or a limit in the source: any of these may refuse.
Refuse(o) ==
    /\ pc[o] \in {"make", "inventoried", "stage1", "stage2", "verify"}
    /\ FileStep(o, pc[o], "fail") /\ Untouched

\* record_project_copy_checkpoint
Checkpoint(o, here, phase, onward) ==
    /\ At(o, here)
    /\ IF row[o].state \in {"running", "cancelling"}
       THEN /\ SetRow(o, row[o].state, phase, row[o].cancel,
                      row[o].known \/ here \in {"published", "commitIntent"})
            /\ Goto(o, onward)
       ELSE Goto(o, "fail") /\ UNCHANGED row
    /\ UNCHANGED <<registry, registered, files, daemon, seen, lock, mishaps>>

AfterLook(o) == IF seen[o] = "staging_complete" THEN "look2" ELSE "toStage"

\* Mutant: a cancelled copy keeps its staging directory.
LookKeepsShell(o, here, onward) ==
    FileStep(o, here, IF row[o].cancel THEN "cancelled" ELSE onward) /\ Untouched

\* project_copy_cancel_requested
Look(o, here, onward) ==
    FileStep(o, here, IF row[o].cancel THEN "discard" ELSE onward) /\ Untouched

\* stage: one file after the other into an empty payload, its digest into the listing.
StageFirst(o) ==
    IF Verified(o)
    THEN /\ payload' = [payload EXCEPT ![o] = [Nothing EXCEPT ![1] = source[1]]]
         /\ moment' = [moment EXCEPT ![o] = Nothing] /\ back' = back \ {o}
         /\ FileStep(o, "stage1", "stage2")
         /\ UNCHANGED <<shell, listing, target>>
    ELSE FileStep(o, "stage1", "fail") /\ Untouched

StageLast(o) ==
    /\ payload' = [payload EXCEPT ![o] = [payload[o] EXCEPT ![2] = source[2]]]
    /\ listing' = [listing EXCEPT ![o] = payload'[o]]
    /\ FileStep(o, "stage2", "staged")
    /\ moment' = [moment EXCEPT ![o] = IF payload'[o] = source THEN source ELSE Nothing]
    /\ UNCHANGED <<back, shell, target>>

\* Mutant: the source is not read a second time.
VerifyNothing(o, f, here, onward) == FileStep(o, here, onward) /\ Untouched

\* verify_source: the source is read once more, file by file.  The walk sorts each
\* directory by itself and staging sorts whole paths, so the order may be another one.
Verify(o, f, here, onward) ==
    FileStep(o, here, IF source[f] = listing[o][f] THEN onward ELSE "fail") /\ Untouched

\* The rename of publish, and of validate_published when it finds it still to do.
MoveIn(o, here, onward) ==
    /\ Verified(o) /\ payload[o] # Nothing /\ target = Free
    /\ target' = [by |-> o, what |-> payload[o]]
    /\ payload' = [payload EXCEPT ![o] = Nothing]
    /\ FileStep(o, here, onward)
    /\ UNCHANGED <<past, shell, listing>>

Publish(o) ==
    \/ MoveIn(o, "publish", "published")
    \/ /\ ~(Verified(o) /\ payload[o] # Nothing /\ target = Free)
       /\ FileStep(o, "publish", "fail") /\ Untouched

AfterValidate(o) == IF seen[o] = "state_committed" THEN "cleanup" ELSE "commitIntent"

\* What is at the target is what was staged, and is the directory that the journal
\* knows, if it knows one.
Matches(o) == /\ payload[o] = Nothing /\ target # Free /\ target.what = listing[o]
              /\ row[o].known => target.by = o

\* validate_published
Validate(o) ==
    \/ MoveIn(o, "validate", AfterValidate(o))
    \/ /\ Verified(o) /\ Matches(o)
       /\ FileStep(o, "validate", AfterValidate(o)) /\ Untouched
    \/ /\ ~Verified(o) \/ ~(Matches(o) \/ (payload[o] # Nothing /\ target = Free))
       /\ FileStep(o, "validate", "fail") /\ Untouched

\* complete: the identity of a project directory is unique in the registry, also when
\* it was this copy that registered it before.
Commit(o) ==
    /\ At(o, "commit")
    /\ IF row[o].state = "running" /\ registry = None
       THEN /\ registry' = o
            /\ registered' = registered \cup {o}
            /\ SetPhase(o, "state_committed")
            /\ Goto(o, "cleanup")
       ELSE Goto(o, "fail") /\ UNCHANGED store
    /\ UNCHANGED <<files, daemon, seen, lock, mishaps>>

Clearable(o, here) == IF here = "discard" THEN target = Free ELSE payload[o] = Nothing

\* cleanup and discard remove the staging directory; a death may leave part of it.
Clear(o, here, onward) ==
    \/ /\ Verified(o) /\ Clearable(o, here)
       /\ shell' = [shell EXCEPT ![o] = "bare"]
       /\ payload' = [payload EXCEPT ![o] = Nothing]
       /\ listing' = [listing EXCEPT ![o] = Nothing]
       /\ FileStep(o, here, onward)
       /\ UNCHANGED <<past, target>>
    \/ /\ ~(Verified(o) /\ Clearable(o, here))
       /\ FileStep(o, here, "fail") /\ Untouched

Unshell(o, here, onward) ==
    /\ shell' = [shell EXCEPT ![o] = "none"]
    /\ FileStep(o, here, onward)
    /\ UNCHANGED <<past, payload, listing, target>>

\* finish_project_copy_success
Finish(o) ==
    /\ At(o, "finish")
    /\ IF row[o].state = "running"
       THEN /\ SetRow(o, "succeeded", "cleanup_complete", row[o].cancel, row[o].known)
            /\ EndTask(o)
       ELSE Goto(o, "fail") /\ UNCHANGED <<row, seen, lock>>
    /\ UNCHANGED <<registry, registered, files, daemon, mishaps>>

\* finish_project_copy_cancelled
FinishCancelled(o) ==
    /\ At(o, "cancelled")
    /\ IF row[o].state \in {"running", "cancelling", "recovering"} /\ ~PastIntent(o)
       THEN SetState(o, "cancelled") /\ EndTask(o)
       ELSE Goto(o, "fail") /\ UNCHANGED <<row, seen, lock>>
    /\ UNCHANGED <<registry, registered, files, daemon, mishaps>>

\* Mutant: an error fails the Operation in every phase.
FailAlways(o) ==
    /\ At(o, "fail")
    /\ IF Live(o) THEN SetState(o, "failed") ELSE UNCHANGED row
    /\ EndTask(o)
    /\ UNCHANGED <<registry, registered, files, daemon, mishaps>>

\* fail_project_copy: past the intent the Operation stays, for the next start.
Fail(o) ==
    /\ At(o, "fail")
    /\ IF ~Live(o) THEN UNCHANGED row
       ELSE IF PastIntent(o)
       THEN SetRow(o, "recovering", "recovery_required", row[o].cancel, row[o].known)
       ELSE SetState(o, "failed")
    /\ EndTask(o)
    /\ UNCHANGED <<registry, registered, files, daemon, mishaps>>

\* Any store request or file operation fails, that of fail included.
Fault(o) ==
    /\ daemon = "up" /\ pc[o] \notin {"idle", "lock"}
    /\ Mishap
    /\ IF pc[o] = "fail" THEN EndTask(o)
                         ELSE Goto(o, "fail") /\ UNCHANGED <<seen, lock>>
    /\ UNCHANGED <<store, files, daemon>>

WorkerStep(o) ==
    \/ Begin(o) \/ Acquire(o)
    \/ Make(o) \/ Own(o) \/ Refuse(o)
    \/ Checkpoint(o, "inventoried", "inventory_ready", "look1")
    \/ Look(o, "look1", AfterLook(o))
    \/ Checkpoint(o, "toStage", "staging", "stage1")
    \/ StageFirst(o) \/ StageLast(o)
    \/ Checkpoint(o, "staged", "staging_complete", "look2")
    \/ Look(o, "look2", "verify")
    \/ Verify(o, 1, "verify", "verify2") \/ Verify(o, 2, "verify2", "intent")
    \/ Verify(o, 2, "verify", "verify1") \/ Verify(o, 1, "verify1", "intent")
    \/ Checkpoint(o, "intent", "publish_intent", "publish")
    \/ Publish(o)
    \/ Checkpoint(o, "published", "target_published", "commitIntent")
    \/ Validate(o)
    \/ Checkpoint(o, "commitIntent", "project_registry_commit_intent", "commit")
    \/ Commit(o)
    \/ Clear(o, "cleanup", "unshell") \/ Unshell(o, "unshell", "finish")
    \/ Finish(o)
    \/ Clear(o, "discard", "drop") \/ Unshell(o, "drop", "cancelled")
    \/ FinishCancelled(o)
    \/ Fail(o)

-----------------------------------------------------------------------------
(* The daemon process *)

Crash ==
    /\ daemon = "up"
    /\ Mishap
    /\ daemon' = "down"
    /\ pc' = [o \in Ops |-> "idle"]
    /\ seen' = [o \in Ops |-> "accepted"]
    /\ lock' = None
    /\ UNCHANGED <<store, files>>

\* recover: one transaction over every row but those found cancelling, then tasks.
Start ==
    /\ daemon = "down"
    /\ daemon' = "up"
    /\ row' = [o \in Ops |-> IF row[o].state = "running"
                             THEN [row[o] EXCEPT !.state = "recovering"] ELSE row[o]]
    /\ pc' = [o \in Ops |-> IF row[o].state \in {"queued", "running", "recovering"}
                            THEN "begin" ELSE "idle"]
    /\ UNCHANGED <<registry, registered, files, seen, lock, mishaps>>

Next ==
    \/ \E o \in Ops : Apply(o) \/ Cancel(o) \/ WorkerStep(o) \/ Fault(o)
    \/ Edit \/ Meddle \/ Crash \/ Start

Spec == Init /\ [][Next]_vars

-----------------------------------------------------------------------------
(* Properties *)

\* What is published at the target was the source at one moment since it was staged,
\* whatever an editor saves while the files are read and however the second reading walks,
\* with one exception: the file staged first was saved as something else and then back.
\* stage and verify_source may then have met two states of the source in turn, and what
\* is published may be a mixture that the source never was.
MixedOnlyIfSavedBack ==
    target.by \in Ops => target.what = moment[target.by] \/ target.by \in back

\* A directory published at the target belongs to a copy past its intent that is not
\* over or has succeeded: no failure, cancellation or death leaves one behind that no
\* Operation accounts for.
TargetIsAccounted ==
    \A o \in Ops : target.by = o =>
        PastIntent(o) /\ row[o].state \notin {"cancelled", "failed"}

\* What the Operation reports is what happened: success is a registration and no
\* staging directory left, a cancelled copy is not registered and leaves no staging directory,
\* and a failed copy is not registered.  (That neither published is TargetIsAccounted.)
ReportsAreTrue ==
    \A o \in Ops :
        /\ row[o].state = "succeeded" => o \in registered /\ shell[o] = "none"
        /\ row[o].state = "cancelled" => o \notin registered /\ shell[o] = "none"
        /\ row[o].state = "failed"    => o \notin registered

\* The stages of a copy, for its abstract specification.
Stage(o) == IF row[o].state = "absent" THEN "none"
            ELSE IF ~Live(o) THEN row[o].state
            ELSE IF PastIntent(o) THEN "closed" ELSE "open"

stages == [o \in Ops |-> Stage(o)]

Forward == INSTANCE ForwardOnly WITH stage <- stages

\* Past its intent a copy is never cancelled and never fails, and it succeeds only
\* from there.
NeverTurnsBack == Forward!ForwardSpec
=============================================================================
