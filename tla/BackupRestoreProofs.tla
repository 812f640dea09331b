-------------------------- MODULE BackupRestoreProofs --------------------------
(***************************************************************************)
(* Theorems about BackupRestore for every set of restores and any number   *)
(* of cancels, deaths, failing steps and interferences by others.          *)
(*                                                                         *)
(* The inductive invariant IInv says what the journal and the staging      *)
(* directory of a restore are where its worker stands, and who can have    *)
(* made what is at the target.  A restore that made it and has not         *)
(* committed still has its owner file, so that another attempt recognises  *)
(* it; as long as nobody else touched the target, an attempt that fails    *)
(* after the publish intent has one of the reasons of StuckForAReason.     *)
(* The scan has a part of its own: a restore that made the target keeps    *)
(* either the lock of the target or a recovery guard until it commits.     *)
(* The last part proves that journals only go forward, whoever resumes.    *)
(***************************************************************************)
EXTENDS BackupRestore, TLAPS

\* Phases from the intent on, from the published target on, and before the intent.
Intended == {"publish_intent", "target_published", "project_registry_commit_intent",
             "state_committed"}
Shown    == Intended \ {"publish_intent"}
Early    == {"accepted", "archive_verified", "extracting", "staging_complete"}

\* Places before the lock of the target and after the commit, and those in between.
Opening == {"begin", "prepare", "enter"}
Closing == {"revalidate", "finalize", "disown", "finish"}
Inside  == PCs \ (Opening \cup Closing \cup {"idle", "fail"})

\* Places after the look for a target, where the project is not moved there yet.
Staging == {"clear", "create", "own", "fill", "staged", "look", "intent", "publish", "drop",
            "cancelled"}

\* Places where the task cannot have found a target.
Blind == {"idle", "fail", "extract", "stage", "clear", "create", "own", "fill", "cancelled",
          "revalidate"} \cup Opening

\* The phase and the lock where the worker stands, and what it knows.
PlaceInv(o) ==
    /\ pc[o] \in Inside => lock = o
    /\ pc[o] \in {"publish", "validate", "published", "registering", "complete"}
          => row[o].phase \in Intended
    /\ pc[o] \in Closing => row[o].phase = "state_committed"
    /\ pc[o] \in {"drop", "cancelled"} \/ o \in quit => row[o].cancel
    /\ pc[o] \in Blind => o \notin had

\* What the state of a row says about the rest.
RowInv(o) ==
    /\ row[o].state = "absent" => pc[o] = "idle"
    /\ row[o].state \in {"absent", "queued"} => row[o].phase = "accepted" /\ staging[o] = Clean
    /\ row[o].state \in Terminal \cup {"queued"} => pc[o] \in {"begin", "fail", "idle"}
    /\ row[o].state = "cancelling" => row[o].cancel
    /\ pc[o] = "begin" => row[o].state \in {"queued", "recovering", "cancelling", "cancelled"}
    /\ row[o].state = "cancelled" => target.by # o /\ staging[o] = Clean
    /\ row[o].state = "failed" /\ target.by = o => row[o].phase = "state_committed"
    /\ row[o].state = "succeeded" => row[o].phase = "state_committed" /\ staging[o] = Clean

\* What a restore made, and its staging directory.
FileInv(o) ==
    /\ target.by = o => row[o].phase \in Intended
    /\ target.by = o => staging[o].owner = "ok" \/ row[o].phase = "state_committed"
    /\ target.reg = o => row[o].phase = "state_committed"
    /\ pc[o] \in Staging /\ o \notin had => target.by # o
    /\ pc[o] \in {"fill", "staged", "look", "intent", "publish"} => staging[o].owner = "ok"
    /\ pc[o] \in {"create", "finish", "cancelled"} => staging[o] = Clean

\* An attempt that fails from here on has a reason.
Reason(o) ==
    \/ o \in fault \/ row[o].cancel \/ ~archive \/ touched
    \/ staging[o].owner = "torn" \/ (staging[o].dir /\ staging[o].owner = "none")
    \/ target.by \notin {None, o} \/ target.reg \notin {None, o}

\* A restore that waits for the next start.
Waits(o) == Live(o) /\ row[o].phase \in Intended \ {"state_committed"}

\* The restore has seen something at the target.
Seen(o) == \/ o \in had \/ row[o].phase \in Shown
           \/ pc[o] \in {"validate", "published", "registering", "complete"}

CauseInv(o) ==
    /\ Seen(o) => target.by # None \/ touched
    /\ pc[o] = "idle" /\ Live(o) /\ daemon \in {"starting", "up"} => Reason(o)
    /\ pc[o] = "fail" /\ Waits(o) => Reason(o)

\* At a start, before it has the lock again, the restore has a recovery guard.
GuardInv(o) ==
    pc[o] \in Opening /\ target.by = o /\ row[o].phase # "state_committed" => o \in guards

OpInv(o) == PlaceInv(o) /\ RowInv(o) /\ FileInv(o) /\ CauseInv(o) /\ GuardInv(o)

TargetInv ==
    /\ target.by = None => target = Free
    /\ target.by = "other" => touched
    /\ target.by # None => target.intact \/ touched

ScanInv ==
    /\ scan.same => target.by # None
    /\ scan.fresh => discover
    /\ lock = "scan" <=> scan.at = "locked"
    /\ scan.at = "locked" => guards = {}

\* Nobody works in a daemon that is not there.
DownInv ==
    daemon \in {"down", "refused"} =>
        /\ \A o \in Ops : pc[o] = "idle"
        /\ lock = None /\ quit = {} /\ had = {} /\ guards = {} /\ scan = Rest

IInv == TypeOK /\ TargetInv /\ ScanInv /\ DownInv /\ \A o \in Ops : OpInv(o)

\* What a step of o's worker leaves to the others, and how it can change the target.
OnlyItsOwn(o) ==
    /\ \A a \in Ops \ {o} :
          /\ row'[a] = row[a] /\ pc'[a] = pc[a] /\ staging'[a] = staging[a]
          /\ a \in quit' => a \in quit
          /\ a \in had' <=> a \in had
          /\ a \in guards' <=> a \in guards
          /\ a \in fault => a \in fault'
          /\ lock = a => lock' = a
    /\ target'.by \in {target.by, o} /\ target'.reg \in {target.reg, o}
    /\ UNCHANGED <<archive, touched, daemon>>

Row     == [state : States, phase : {Phases[i] : i \in 1..8}, cancel : BOOLEAN]
Dirs    == [dir : BOOLEAN, owner : {"none", "torn", "ok"}]
Targets == [by : Ops \cup {None, "other"}, intact : BOOLEAN,
            reg : Ops \cup {None, "client", "scan"}]
Scans   == [at : {"idle", "listed", "locked"}, fresh : BOOLEAN, same : BOOLEAN]

-----------------------------------------------------------------------------
(* Helpers *)

LEMMA PhaseSet ==
    {Phases[i] : i \in 1..8} = Early \cup Intended
<1>1. 1..8 = {1, 2, 3, 4, 5, 6, 7, 8}
  OBVIOUS
<1> QED
  BY <1>1 DEF Phases, Early, Intended

LEMMA StepIs ==
    /\ Step("accepted") = 1 /\ Step("archive_verified") = 2 /\ Step("extracting") = 3
    /\ Step("staging_complete") = 4 /\ Step("publish_intent") = 5
    /\ Step("target_published") = 6 /\ Step("project_registry_commit_intent") = 7
    /\ Step("state_committed") = 8
<1>1. DOMAIN Phases = {1, 2, 3, 4, 5, 6, 7, 8}
  <2>1. DOMAIN Phases = 1..8
    BY DEF Phases
  <2> QED
    BY <2>1
<1>2. /\ Phases[1] = "accepted" /\ Phases[2] = "archive_verified" /\ Phases[3] = "extracting"
      /\ Phases[4] = "staging_complete" /\ Phases[5] = "publish_intent"
      /\ Phases[6] = "target_published" /\ Phases[7] = "project_registry_commit_intent"
      /\ Phases[8] = "state_committed"
  BY DEF Phases
<1>3. ASSUME NEW n \in {1, 2, 3, 4, 5, 6, 7, 8}
      PROVE  Step(Phases[n]) = n
  <2>1. \A i \in DOMAIN Phases : Phases[i] = Phases[n] <=> i = n
    BY <1>1, <1>2, <1>3
  <2> QED
    BY <2>1, <1>1 DEF Step
<1> QED
  BY <1>2, <1>3

\* phase_step, read as sets of phases.
LEMMA ReachedIs ==
    ASSUME TypeOK, NEW o \in Ops
    PROVE  /\ row[o].phase \in Early \cup Intended
           /\ Reached(o, "archive_verified") <=> row[o].phase # "accepted"
           /\ Reached(o, "extracting") <=>
                   row[o].phase \notin {"accepted", "archive_verified"}
           /\ Reached(o, "staging_complete") <=>
                   row[o].phase \in Intended \cup {"staging_complete"}
           /\ Reached(o, "publish_intent") <=> row[o].phase \in Intended
           /\ Reached(o, "target_published") <=> row[o].phase \in Shown
           /\ Reached(o, "project_registry_commit_intent") <=>
                   row[o].phase \in Shown \ {"target_published"}
           /\ Reached(o, "state_committed") <=> row[o].phase = "state_committed"
<1>1. row[o].phase \in Early \cup Intended
  BY PhaseSet DEF TypeOK
<1> QED
  BY <1>1, StepIs DEF Reached, Early, Intended, Shown

LEMMA OwnStep ==
    ASSUME IInv, NEW o \in Ops, TypeOK', TargetInv', ScanInv', DownInv', OpInv(o)',
           OnlyItsOwn(o)
    PROVE  IInv'
<1>1. None \notin Ops
  BY RestoreAssumption
<1>2. ASSUME NEW a \in Ops \ {o} PROVE OpInv(a)'
  <2>1. PlaceInv(a)' /\ RowInv(a)' /\ FileInv(a)' /\ GuardInv(a)'
    BY <1>2 DEF IInv, OpInv, PlaceInv, RowInv, FileInv, GuardInv, OnlyItsOwn
  <2>2. Reason(a) => Reason(a)'
    BY <1>1, <1>2 DEF Reason, OnlyItsOwn
  <2>3. CauseInv(a)'
    BY <1>1, <1>2, <2>2 DEF IInv, OpInv, CauseInv, Seen, Waits, Live, OnlyItsOwn
  <2> QED
    BY <2>1, <2>3 DEF OpInv
<1> QED
  BY <1>2 DEF IInv

\* Where a worker is after it went on, and what it forgets on the error path.
LEMMA OnwardIs ==
    ASSUME IInv, NEW o \in Ops, NEW there \in PCs, Onward(o, there)
    PROVE  /\ pc' \in [Ops -> PCs] /\ lock' \in Ops \cup {None, "scan"}
           /\ quit' \subseteq Ops /\ had' \subseteq Ops /\ guards' = guards
           /\ pc'[o] = there
           /\ there = "fail" => o \notin quit' /\ o \notin had'
           /\ there # "fail" => UNCHANGED <<lock, quit, had>>
           /\ lock' = "scan" <=> lock = "scan"
           /\ quit' \subseteq quit
           /\ \A a \in Ops \ {o} :
                 /\ pc'[a] = pc[a]
                 /\ a \in had' <=> a \in had
                 /\ lock = a => lock' = a
<1>1. None \notin Ops /\ "scan" \notin Ops /\ None # "scan"
  BY RestoreAssumption
<1>2. lock' = "scan" <=> lock = "scan"
  BY <1>1 DEF IInv, TypeOK, ScanInv, Onward, Unlock
<1> QED
  BY <1>1, <1>2 DEF IInv, TypeOK, Onward, Goto, Unlock

\* A step of o's worker that leaves the target alone keeps the invariant if it keeps it
\* for o.
LEMMA WorkerKeeps ==
    ASSUME IInv, NEW o \in Ops, NEW there \in PCs, Onward(o, there),
           daemon \in {"starting", "up"},
           UNCHANGED <<archive, target, discover, daemon, scan, touched>>,
           row' \in [Ops -> Row], staging' \in [Ops -> Dirs],
           fault \subseteq fault', fault' \subseteq Ops, mishaps' \in Nat,
           \A a \in Ops \ {o} : row'[a] = row[a] /\ staging'[a] = staging[a],
           OpInv(o)'
    PROVE  IInv'
<1>1. TypeOK'
  BY OnwardIs DEF IInv, TypeOK, Row, Dirs
<1>2. TargetInv' /\ ScanInv' /\ DownInv'
  BY OnwardIs DEF IInv, TargetInv, ScanInv, DownInv
<1>3. /\ quit' \subseteq quit /\ guards' = guards
      /\ \A a \in Ops \ {o} :
            /\ pc'[a] = pc[a]
            /\ a \in had' <=> a \in had
            /\ lock = a => lock' = a
  BY OnwardIs
<1>4. OnlyItsOwn(o)
  BY <1>3 DEF OnlyItsOwn
<1> QED
  BY <1>1, <1>2, <1>4, OwnStep

\* A step that only moves the worker.
LEMMA DecideIs ==
    ASSUME IInv, NEW o \in Ops, NEW here, NEW there \in PCs, Decide(o, here, there)
    PROVE  /\ pc[o] = here /\ pc'[o] = there /\ daemon \in {"starting", "up"}
           /\ UNCHANGED <<row, archive, target, staging, discover, daemon, scan, fault,
                          touched, mishaps, guards>>
           /\ there = "fail" => o \notin quit' /\ o \notin had'
           /\ there # "fail" => UNCHANGED <<lock, quit, had>>
           /\ OpInv(o)' => IInv'
<1>1. /\ pc[o] = here /\ daemon \in {"starting", "up"} /\ Onward(o, there)
      /\ UNCHANGED <<row, archive, target, staging, discover, daemon, scan, fault,
                     touched, mishaps>>
  BY DEF Decide, At, files, Rest1
<1>2. /\ pc'[o] = there /\ guards' = guards
      /\ there = "fail" => o \notin quit' /\ o \notin had'
      /\ there # "fail" => UNCHANGED <<lock, quit, had>>
  BY <1>1, OnwardIs
<1>3. ASSUME OpInv(o)' PROVE IInv'
  <2>1. /\ row' \in [Ops -> Row] /\ staging' \in [Ops -> Dirs]
        /\ fault \subseteq fault' /\ fault' \subseteq Ops /\ mishaps' \in Nat
        /\ \A a \in Ops \ {o} : row'[a] = row[a] /\ staging'[a] = staging[a]
    BY <1>1 DEF IInv, TypeOK, Row, Dirs
  <2> QED
    BY <1>1, <1>3, <2>1, WorkerKeeps
<1> QED
  BY <1>1, <1>2, <1>3

\* A step on the staging directory.
LEMMA StagesIs ==
    ASSUME IInv, NEW o \in Ops, NEW here, NEW s \in Dirs, NEW there \in PCs,
           Stages(o, here, s, there)
    PROVE  /\ pc[o] = here /\ pc'[o] = there /\ daemon \in {"starting", "up"}
           /\ staging'[o] = s
           /\ UNCHANGED <<row, archive, target, discover, daemon, scan, fault, touched,
                          mishaps, guards>>
           /\ there # "fail" => UNCHANGED <<lock, quit, had>>
           /\ OpInv(o)' => IInv'
<1>1. /\ pc[o] = here /\ daemon \in {"starting", "up"} /\ Onward(o, there)
      /\ UNCHANGED <<row, archive, target, discover, daemon, scan, fault, touched, mishaps>>
      /\ staging' = [staging EXCEPT ![o] = s]
  BY DEF Stages, At, Rest1
<1>2. /\ staging' \in [Ops -> Dirs] /\ staging'[o] = s
      /\ \A a \in Ops \ {o} : staging'[a] = staging[a]
  BY <1>1 DEF IInv, TypeOK, Dirs
<1>3. /\ pc'[o] = there /\ guards' = guards
      /\ there # "fail" => UNCHANGED <<lock, quit, had>>
  BY <1>1, OnwardIs
<1>4. ASSUME OpInv(o)' PROVE IInv'
  <2>1. /\ row' \in [Ops -> Row]
        /\ fault \subseteq fault' /\ fault' \subseteq Ops /\ mishaps' \in Nat
        /\ \A a \in Ops \ {o} : row'[a] = row[a]
    BY <1>1 DEF IInv, TypeOK, Row
  <2> QED
    BY <1>1, <1>2, <1>4, <2>1, WorkerKeeps
<1> QED
  BY <1>1, <1>2, <1>3, <1>4

\* The error path keeps the invariant if a restore that has to wait has a reason.
LEMMA ToFail ==
    ASSUME IInv, NEW o \in Ops, NEW here, here # "idle", Decide(o, here, "fail"),
           Waits(o) => Reason(o)
    PROVE  IInv'
<1>1. "fail" \in PCs
  BY DEF PCs
<1>2. /\ pc[o] = here /\ pc'[o] = "fail"
      /\ UNCHANGED <<row, archive, target, staging, discover, daemon, scan, fault,
                     touched, mishaps, guards>>
      /\ o \notin quit' /\ o \notin had'
      /\ OpInv(o)' => IInv'
  BY <1>1, DecideIs
<1>3. PlaceInv(o)' /\ RowInv(o)' /\ FileInv(o)' /\ GuardInv(o)'
  BY <1>2 DEF IInv, OpInv, PlaceInv, RowInv, FileInv, GuardInv, Inside, Opening, Closing,
     Staging
<1>4. CauseInv(o)'
  BY <1>2 DEF IInv, OpInv, CauseInv, Seen, Waits, Live, Reason
<1> QED
  BY <1>2, <1>3, <1>4 DEF OpInv

-----------------------------------------------------------------------------
(* The worker *)

LEMMA BeginInv == ASSUME IInv, NEW o \in Ops, Begin(o) PROVE IInv'
<1>1. CASE row[o].state \notin {"queued", "recovering"}
  <2>1. Decide(o, "begin", "fail") /\ pc[o] = "begin"
    BY <1>1 DEF Begin, Decide, At
  <2>2. Waits(o) => Reason(o)
    BY <1>1, <2>1 DEF IInv, OpInv, RowInv, Waits, Live, Reason, Terminal
  <2> QED
    BY <2>1, <2>2, ToFail
<1>2. CASE row[o].state \in {"queued", "recovering"}
  <2> DEFINE there == IF Reached(o, "state_committed") THEN "revalidate" ELSE "prepare"
  <2>1. /\ pc[o] = "begin" /\ daemon \in {"starting", "up"} /\ Onward(o, there)
        /\ UNCHANGED <<archive, target, staging, discover, daemon, scan, fault, touched,
                       mishaps>>
    BY <1>2 DEF Begin, At, files, Rest1
  <2>2. /\ row' \in [Ops -> Row] /\ \A a \in Ops \ {o} : row'[a] = row[a]
        /\ row'[o].state = "running" /\ row'[o].phase = row[o].phase
        /\ row'[o].cancel = row[o].cancel
    <3> DEFINE r == [row[o] EXCEPT !.state = "running"]
    <3>1. row' = [row EXCEPT ![o] = r] /\ "running" \in States
      BY <1>2 DEF Begin, SetState, States
    <3>2. row \in [Ops -> Row]
      BY DEF IInv, TypeOK, Row
    <3>3. r \in Row /\ r.state = "running" /\ r.phase = row[o].phase /\ r.cancel = row[o].cancel
      BY <3>1, <3>2 DEF Row
    <3> HIDE DEF r
    <3> QED
      BY <3>1, <3>2, <3>3
  <2>3. there \in PCs
    BY DEF PCs
  <2>4. /\ there = "revalidate" => row[o].phase = "state_committed"
        /\ there \in {"revalidate", "prepare"}
    BY ReachedIs DEF IInv
  <2> HIDE DEF there
  <2>5. pc'[o] = there /\ UNCHANGED <<lock, quit, had, guards>>
    BY <2>1, <2>3, <2>4, OnwardIs
  <2>6. OpInv(o)'
    <3>1. PlaceInv(o)'
      BY <2>1, <2>2, <2>4, <2>5 DEF IInv, OpInv, PlaceInv, Inside, Opening, Closing, Blind
    <3>2. RowInv(o)' /\ FileInv(o)' /\ GuardInv(o)'
      BY <1>2, <2>1, <2>2, <2>4, <2>5 DEF IInv, OpInv, RowInv, FileInv, GuardInv, Opening,
         Staging, Terminal
    <3>3. CauseInv(o)'
      BY <2>1, <2>2, <2>4, <2>5 DEF IInv, OpInv, CauseInv, Seen
    <3> QED
      BY <3>1, <3>2, <3>3 DEF OpInv
  <2>7. /\ staging' \in [Ops -> Dirs] /\ \A a \in Ops \ {o} : staging'[a] = staging[a]
        /\ fault \subseteq fault' /\ fault' \subseteq Ops /\ mishaps' \in Nat
    BY <2>1 DEF IInv, TypeOK, Dirs
  <2> QED
    BY <2>1, <2>2, <2>3, <2>6, <2>7, WorkerKeeps
<1> QED
  BY <1>1, <1>2

\* A phase is recorded once, and the journal never goes back.
LEMMA CheckpointIs ==
    ASSUME IInv, NEW o \in Ops, NEW here, NEW there \in PCs \ {"fail"},
           NEW p \in (Early \cup Intended) \ {"accepted", "state_committed"},
           Checkpoint(o, here, p, there)
    PROVE  /\ pc[o] = here /\ pc'[o] = there
           /\ row'[o].state = row[o].state /\ row'[o].cancel = row[o].cancel
           /\ row'[o].phase \in {row[o].phase, p}
           /\ row[o].phase \in Intended => row'[o].phase \in Intended
           /\ row[o].phase = "state_committed" => row'[o].phase = "state_committed"
           /\ p \in Intended => row'[o].phase \in Intended
           /\ UNCHANGED <<archive, target, staging, discover, daemon, scan, fault, touched,
                          mishaps, guards, lock, quit, had>>
           /\ OpInv(o)' => IInv'
<1>1. /\ pc[o] = here /\ daemon \in {"starting", "up"} /\ Onward(o, there)
      /\ UNCHANGED <<archive, target, staging, discover, daemon, scan, fault, touched, mishaps>>
      /\ row' = IF Reached(o, p) THEN row ELSE [row EXCEPT ![o].phase = p]
  BY DEF Checkpoint, At, files, Rest1
<1>2. /\ row' \in [Ops -> Row] /\ \A a \in Ops \ {o} : row'[a] = row[a]
      /\ row'[o].state = row[o].state /\ row'[o].cancel = row[o].cancel
      /\ row'[o].phase = IF Reached(o, p) THEN row[o].phase ELSE p
  <2>1. row \in [Ops -> Row] /\ p \in {Phases[i] : i \in 1..8}
    BY PhaseSet DEF IInv, TypeOK, Row
  <2> QED
    BY <1>1, <2>1 DEF Row
<1>3. /\ row'[o].phase \in {row[o].phase, p}
      /\ row[o].phase \in Intended => row'[o].phase \in Intended
      /\ row[o].phase = "state_committed" => row'[o].phase = "state_committed"
      /\ p \in Intended => row'[o].phase \in Intended
  BY <1>2, ReachedIs DEF IInv, Early, Intended, Shown
<1>4. pc'[o] = there /\ UNCHANGED <<lock, quit, had, guards>>
  BY <1>1, OnwardIs
<1>5. ASSUME OpInv(o)' PROVE IInv'
  <2>1. /\ staging' \in [Ops -> Dirs] /\ \A a \in Ops \ {o} : staging'[a] = staging[a]
        /\ fault \subseteq fault' /\ fault' \subseteq Ops /\ mishaps' \in Nat
    BY <1>1 DEF IInv, TypeOK, Dirs
  <2> QED
    BY <1>1, <1>2, <1>5, <2>1, WorkerKeeps
<1> QED
  BY <1>1, <1>2, <1>3, <1>4, <1>5

\* The checkpoints of the worker.
LEMMA CheckpointsInv ==
    ASSUME IInv, NEW o \in Ops, NEW here, NEW p, NEW there,
           \/ here = "prepare" /\ p = "archive_verified" /\ there = "enter"
           \/ here = "extract" /\ p = "extracting" /\ there = "stage"
           \/ here = "staged" /\ p = "staging_complete" /\ there = "look"
           \/ here = "intent" /\ p = "publish_intent" /\ there = "publish"
           \/ here = "published" /\ p = "target_published" /\ there = "registering"
           \/ /\ here = "registering" /\ p = "project_registry_commit_intent"
              /\ there = "complete",
           Checkpoint(o, here, p, there)
    PROVE  IInv'
<1>1. /\ there \in PCs \ {"fail"}
      /\ p \in (Early \cup Intended) \ {"accepted", "state_committed"}
  BY DEF PCs, Early, Intended
<1>2. /\ here \in PCs \ {"begin", "fail", "idle"}
      /\ there \notin Closing \cup {"begin", "fail", "idle", "drop", "cancelled", "finish",
                                   "create", "validate", "published"}
      /\ there \in Inside => here \in Inside
      /\ there \in {"publish", "registering", "complete"} => p \in Intended
      /\ there \in Blind => here \in Blind
      /\ there \in Opening => here \in Opening
      /\ there \in Staging => here \in Staging
      /\ there \in {"fill", "staged", "look", "intent", "publish"} => here \in {"staged", "intent"}
      /\ p \in Shown \/ there \in {"registering", "complete"}
            => here \in {"published", "registering"}
  BY DEF PCs, Early, Intended, Shown, Opening, Closing, Inside, Staging, Blind
<1>3. /\ pc[o] = here /\ pc'[o] = there
      /\ row'[o].state = row[o].state /\ row'[o].cancel = row[o].cancel
      /\ row'[o].phase \in {row[o].phase, p}
      /\ row[o].phase \in Intended => row'[o].phase \in Intended
      /\ row[o].phase = "state_committed" => row'[o].phase = "state_committed"
      /\ p \in Intended => row'[o].phase \in Intended
      /\ UNCHANGED <<archive, target, staging, discover, daemon, scan, fault, touched,
                     mishaps, guards, lock, quit, had>>
      /\ OpInv(o)' => IInv'
  BY <1>1, CheckpointIs
<1>4. PlaceInv(o)'
  BY <1>2, <1>3 DEF IInv, OpInv, PlaceInv
<1>5. RowInv(o)'
  BY <1>2, <1>3 DEF IInv, OpInv, RowInv, Terminal
<1>6. FileInv(o)' /\ GuardInv(o)'
  BY <1>2, <1>3 DEF IInv, OpInv, FileInv, GuardInv
<1>7. CauseInv(o)'
  <2>1. CauseInv(o)
    BY DEF IInv, OpInv
  <2>2. Seen(o)' => Seen(o)
    BY <1>2, <1>3 DEF Seen
  <2>3. pc'[o] \notin {"idle", "fail"}
    BY <1>2, <1>3
  <2> QED
    BY <1>3, <2>1, <2>2, <2>3 DEF CauseInv
<1> QED
  BY <1>3, <1>4, <1>5, <1>6, <1>7 DEF OpInv

LEMMA PrepareInv == ASSUME IInv, NEW o \in Ops, Prepare(o) PROVE IInv'
<1>1. CASE ~archive
  <2>1. Decide(o, "prepare", "fail")
    BY <1>1 DEF Prepare
  <2> QED
    BY <1>1, <2>1, ToFail DEF Reason
<1>2. CASE archive
  <2>1. Checkpoint(o, "prepare", "archive_verified", "enter")
    BY <1>2 DEF Prepare
  <2> QED
    BY <2>1, CheckpointsInv
<1> QED
  BY <1>1, <1>2

LEMMA EnterInv == ASSUME IInv, NEW o \in Ops, Enter(o) PROVE IInv'
<1>1. PICK there \in {"validate", "stage", "extract"} :
          /\ pc' = [pc EXCEPT ![o] = there]
          /\ there = "validate" <=> Reached(o, "target_published")
  BY DEF Enter, Goto
<1>2. /\ pc[o] = "enter" /\ lock = None /\ lock' = o /\ daemon \in {"starting", "up"}
      /\ UNCHANGED <<row, archive, target, staging, had, guards, discover, daemon, scan, fault,
                     touched, mishaps>>
      /\ quit' = IF ~Reached(o, "publish_intent") /\ row[o].cancel THEN quit \cup {o} ELSE quit
  BY DEF Enter, At, files, Rest1
<1>3. /\ pc'[o] = there /\ there \in PCs /\ \A a \in Ops \ {o} : pc'[a] = pc[a]
      /\ there = "validate" <=> row[o].phase \in Shown
  BY <1>1, ReachedIs DEF IInv, TypeOK, PCs
<1>4. None # "scan" /\ None \notin Ops /\ "scan" \notin Ops
  BY RestoreAssumption
<1>5. TypeOK'
  BY <1>1, <1>2, <1>3 DEF IInv, TypeOK
<1>6. TargetInv' /\ ScanInv' /\ DownInv'
  BY <1>2, <1>4 DEF IInv, TargetInv, ScanInv, DownInv
<1>7. OpInv(o)'
  <2>1. PlaceInv(o)'
    BY <1>1, <1>2, <1>3 DEF IInv, OpInv, PlaceInv, Inside, Opening, Closing, Blind, Shown
  <2>2. RowInv(o)' /\ FileInv(o)' /\ GuardInv(o)'
    BY <1>1, <1>2, <1>3 DEF IInv, OpInv, RowInv, FileInv, GuardInv, Opening, Staging, Terminal
  <2>3. CauseInv(o)'
    BY <1>1, <1>2, <1>3 DEF IInv, OpInv, CauseInv, Seen
  <2> QED
    BY <2>1, <2>2, <2>3 DEF OpInv
<1>8. OnlyItsOwn(o)
  BY <1>2, <1>3, <1>4 DEF OnlyItsOwn
<1> QED
  BY <1>5, <1>6, <1>7, <1>8, OwnStep

\* The steps on the staging directory: none takes away the owner file of a restore that
\* made what is at the target, before it committed.
LEMMA StagesInv ==
    ASSUME IInv, NEW o \in Ops, NEW here, NEW s \in Dirs, NEW there,
           \/ here = "clear" /\ there \in {"clear", "create"}
           \/ here = "create" /\ there = "own"
           \/ here = "own" /\ there \in {"own", "fill"}
           \/ here = "drop" /\ there \in {"drop", "cancelled"} /\ o \notin had
           \/ here = "finalize" /\ there = "disown"
           \/ here = "disown" /\ there = "finish",
           there = "fill" => s.owner = "ok",
           there \in {"create", "finish", "cancelled"} => s = Clean,
           Stages(o, here, s, there)
    PROVE  IInv'
<1>1. there \in PCs \ {"fail"}
  BY DEF PCs
<1>2. /\ here \in PCs \ {"begin", "fail", "idle"}
      /\ there \notin Opening \cup {"fail", "idle", "publish", "validate", "published",
                                    "registering", "complete", "staged", "look", "intent"}
      /\ there \in Inside => here \in Inside
      /\ there \in Closing => here \in Closing
      /\ there \in {"drop", "cancelled"} => here = "drop"
      /\ there \in Staging => here \in Staging /\ o \notin had
  <2>1. here \in {"clear", "create", "own"} => o \notin had
    <3>1. here \in {"clear", "create", "own"} => here \in Blind
      BY DEF Blind
    <3> QED
      BY <3>1 DEF IInv, OpInv, PlaceInv, Stages, At
  <2> QED
    BY <2>1 DEF PCs, Opening, Closing, Inside, Staging
<1>3. there \in Blind => o \notin had
  BY <1>2 DEF Blind, Staging
<1>4. /\ pc[o] = here /\ pc'[o] = there /\ staging'[o] = s
      /\ UNCHANGED <<row, archive, target, discover, daemon, scan, fault, touched,
                     mishaps, guards, lock, quit, had>>
      /\ OpInv(o)' => IInv'
  BY <1>1, StagesIs
<1>5. target.by = o => row[o].phase = "state_committed"
  BY <1>2, <1>4 DEF IInv, OpInv, PlaceInv, FileInv, Closing, Staging
<1>6. PlaceInv(o)'
  BY <1>2, <1>3, <1>4 DEF IInv, OpInv, PlaceInv
<1>7. RowInv(o)'
  BY <1>2, <1>4 DEF IInv, OpInv, RowInv, Terminal
<1>8. FileInv(o)' /\ GuardInv(o)'
  BY <1>2, <1>4, <1>5 DEF IInv, OpInv, FileInv, GuardInv
<1>9. CauseInv(o)'
  <2>1. Seen(o)' => Seen(o)
    BY <1>2, <1>4 DEF Seen
  <2> QED
    BY <1>2, <1>4, <2>1 DEF IInv, OpInv, CauseInv
<1> QED
  BY <1>4, <1>6, <1>7, <1>8, <1>9 DEF OpInv

LEMMA DirTypes ==
    ASSUME TypeOK, NEW o \in Ops
    PROVE  /\ Clean \in Dirs /\ staging[o] \in Dirs
           /\ \A d \in BOOLEAN : [staging[o] EXCEPT !.dir = d] \in Dirs
           /\ \A w \in {"none", "torn", "ok"} :
                 /\ [staging[o] EXCEPT !.owner = w] \in Dirs
                 /\ [staging[o] EXCEPT !.owner = w].owner = w
           /\ staging[o] = Clean <=> ~staging[o].dir /\ staging[o].owner = "none"
<1>1. Clean \in Dirs /\ staging[o] \in Dirs
  BY DEF TypeOK, Dirs, Clean
<1>2. staging[o] = Clean <=> ~staging[o].dir /\ staging[o].owner = "none"
  BY <1>1 DEF Dirs, Clean
<1> QED
  BY <1>1, <1>2 DEF Dirs

LEMMA ClearInv == ASSUME IInv, NEW o \in Ops, Remove(o, "clear", "create") PROVE IInv'
BY StagesInv, DirTypes DEF IInv, Remove

LEMMA CreateInv ==
    ASSUME IInv, NEW o \in Ops,
           Stages(o, "create", [staging[o] EXCEPT !.dir = TRUE], "own")
    PROVE  IInv'
BY StagesInv, DirTypes DEF IInv

LEMMA OwnInv == ASSUME IInv, NEW o \in Ops, Own(o) PROVE IInv'
BY StagesInv, DirTypes DEF IInv, Own

LEMMA DisownInv ==
    ASSUME IInv, NEW o \in Ops, Stages(o, "disown", Clean, "finish")
    PROVE  IInv'
BY StagesInv, DirTypes DEF IInv

\* The steps inside the lock that only decide where to go on.
LEMMA DecidesInv ==
    ASSUME IInv, NEW o \in Ops, NEW here, NEW there,
           \/ here = "fill" /\ there \in {"drop", "staged"}
           \/ here = "look" /\ there \in {"drop", "intent"}
           \/ here = "publish" /\ there = "validate"
           \/ here = "validate" /\ there = "published"
           \/ here = "revalidate" /\ there = "finalize"
           \/ here = "finalize" /\ there = "finish" /\ staging[o] = Clean,
           there = "drop" => row[o].cancel,
           there = "validate" => o \in had,
           Decide(o, here, there)
    PROVE  IInv'
<1>1. there \in PCs \ {"fail"}
  BY DEF PCs
<1>2. /\ here \in PCs \ {"begin", "fail", "idle"}
      /\ there \notin Opening \cup Blind \cup {"fail", "idle", "publish", "create", "registering",
                                              "complete", "cancelled"}
      /\ there \in Inside => here \in Inside
      /\ there \in Closing => here \in Closing
      /\ there \in {"validate", "published"} => here \in {"publish", "validate"}
      /\ there \in Staging => here \in Staging
      /\ there \in {"fill", "staged", "look", "intent"} => here \in {"fill", "look"}
      /\ there = "finish" => staging[o] = Clean
  BY DEF PCs, Opening, Closing, Inside, Staging, Blind
<1>3. /\ pc[o] = here /\ pc'[o] = there
      /\ UNCHANGED <<row, archive, target, staging, discover, daemon, scan, fault,
                     touched, mishaps, guards, lock, quit, had>>
      /\ OpInv(o)' => IInv'
  BY <1>1, DecideIs
<1>4. PlaceInv(o)'
  BY <1>2, <1>3 DEF IInv, OpInv, PlaceInv
<1>5. RowInv(o)'
  BY <1>2, <1>3 DEF IInv, OpInv, RowInv, Terminal
<1>6. FileInv(o)' /\ GuardInv(o)'
  BY <1>2, <1>3 DEF IInv, OpInv, FileInv, GuardInv
<1>7. CauseInv(o)'
  <2>1. Seen(o)' => Seen(o)
    BY <1>2, <1>3 DEF Seen
  <2> QED
    BY <1>2, <1>3, <2>1 DEF IInv, OpInv, CauseInv
<1> QED
  BY <1>3, <1>4, <1>5, <1>6, <1>7 DEF OpInv

LEMMA StageInv == ASSUME IInv, NEW o \in Ops, Stage(o) PROVE IInv'
<1> DEFINE there == IF target # Free
                    THEN IF staging[o].owner = "ok" THEN AfterStage(o) ELSE "fail"
                    ELSE CASE staging[o] = Clean       -> "create"
                           [] staging[o].owner = "ok"  -> "clear"
                           [] OTHER                    -> "fail"
<1>1. /\ pc[o] = "stage" /\ Goto(o, there) /\ daemon \in {"starting", "up"}
      /\ IF there = "fail" THEN Unlock(o)
         ELSE /\ had' = IF target # Free THEN had \cup {o} ELSE had
              /\ UNCHANGED <<lock, quit>>
      /\ UNCHANGED <<row, archive, target, staging, guards, discover, daemon, scan, fault,
                     touched, mishaps>>
  BY DEF Stage, At, files, Rest1
<1>2. Clean.owner # "ok"
  BY DEF Clean
<1>3. CASE there = "fail"
  <2>1. Decide(o, "stage", "fail")
    BY <1>1, <1>3 DEF Decide, At, Onward, files, Rest1, Stage
  <2>2. CASE target # Free
    <3>1. staging[o].owner # "ok"
      BY <1>3, <2>2 DEF AfterStage
    <3>2. target.by # None
      BY <2>2 DEF IInv, TargetInv
    <3>3. Waits(o) => Reason(o)
      BY <3>1, <3>2 DEF IInv, OpInv, FileInv, Waits, Reason
    <3> QED
      BY <2>1, <3>3, ToFail
  <2>3. CASE target = Free
    <3>1. staging[o] # Clean /\ staging[o].owner # "ok"
      BY <1>2, <1>3, <2>3
    <3>2. Reason(o)
      BY <3>1, DirTypes DEF IInv, TypeOK, Reason
    <3> QED
      BY <2>1, <3>2, ToFail
  <2> QED
    BY <2>2, <2>3
<1>4. CASE there # "fail"
  <2>1. /\ there \in {"drop", "staged", "create", "clear"}
        /\ there \in {"drop", "staged"} => target # Free /\ staging[o].owner = "ok"
        /\ there \in {"create", "clear"} => target = Free
        /\ there = "create" => staging[o] = Clean
        /\ there = "drop" => o \in quit
    BY <1>2, <1>4 DEF AfterStage
  <2> HIDE DEF there
  <2>2. /\ pc'[o] = there /\ \A a \in Ops \ {o} : pc'[a] = pc[a]
        /\ pc' \in [Ops -> PCs]
        /\ had' = IF target # Free THEN had \cup {o} ELSE had
        /\ UNCHANGED <<lock, quit>>
    <3>1. there \in PCs
      BY <2>1 DEF PCs
    <3> QED
      BY <1>1, <1>4, <3>1 DEF Goto, IInv, TypeOK
  <2>3. TypeOK'
    BY <1>1, <2>2 DEF IInv, TypeOK
  <2>4. TargetInv' /\ ScanInv' /\ DownInv'
    BY <1>1, <2>2 DEF IInv, TargetInv, ScanInv, DownInv
  <2>5. target = Free => target.by = None
    BY DEF Free
  <2>6. OpInv(o)'
    <3>1. o \notin had
      BY <1>1 DEF IInv, OpInv, PlaceInv, Blind
    <3>2. target # Free => target.by # None
      BY DEF IInv, TargetInv
    <3>3. PlaceInv(o)'
      BY <1>1, <2>1, <2>2, <3>1 DEF IInv, OpInv, PlaceInv, Inside, Opening, Closing, Blind, PCs
    <3>4. RowInv(o)' /\ FileInv(o)' /\ GuardInv(o)'
      BY <1>1, <2>1, <2>2, <2>5, RestoreAssumption DEF IInv, OpInv, RowInv, FileInv, GuardInv,
         Opening, Staging, Terminal
    <3>5. CauseInv(o)'
      BY <1>1, <2>1, <2>2, <3>2 DEF IInv, OpInv, CauseInv, Seen
    <3> QED
      BY <3>3, <3>4, <3>5 DEF OpInv
  <2>7. OnlyItsOwn(o)
    BY <1>1, <2>2 DEF OnlyItsOwn
  <2> QED
    BY <2>3, <2>4, <2>6, <2>7, OwnStep
<1> QED
  BY <1>3, <1>4

LEMMA FillInv == ASSUME IInv, NEW o \in Ops, Fill(o) PROVE IInv'
<1>1. CASE ~archive
  BY <1>1, ToFail DEF Fill, Reason
<1>2. CASE archive
  <2>1. Decide(o, "fill", AfterStage(o)) /\ (o \in quit => row[o].cancel)
    BY <1>2 DEF Fill, IInv, OpInv, PlaceInv
  <2> QED
    BY <2>1, DecidesInv DEF AfterStage
<1> QED
  BY <1>1, <1>2

LEMMA LookInv == ASSUME IInv, NEW o \in Ops, Look(o) PROVE IInv'
BY DecidesInv DEF Look

LEMMA DropInv == ASSUME IInv, NEW o \in Ops, Drop(o) PROVE IInv'
<1>1. CASE o \in had
  <2>1. Decide(o, "drop", "fail") /\ row[o].cancel
    BY <1>1 DEF Drop, Decide, At, IInv, OpInv, PlaceInv
  <2> QED
    BY <2>1, ToFail DEF Reason
<1>2. CASE o \notin had
  BY <1>2, StagesInv, DirTypes DEF Drop, Remove, IInv
<1> QED
  BY <1>1, <1>2

LEMMA PublishInv == ASSUME IInv, NEW o \in Ops, Publish(o) PROVE IInv'
<1>1. pc[o] = "publish"
  BY DEF Publish, Decide, At
<1>2. CASE o \in had
  BY <1>2, DecidesInv DEF Publish
<1>3. CASE o \notin had /\ target # Free
  <2>1. target.by \notin {None, o}
    BY <1>1, <1>3 DEF IInv, OpInv, FileInv, TargetInv, Staging
  <2> QED
    BY <1>3, <2>1, ToFail DEF Publish, Reason
<1>4. CASE o \notin had /\ target = Free
  <2>1. /\ Onward(o, "validate") /\ daemon \in {"starting", "up"}
        /\ target' = [by |-> o, intact |-> TRUE, reg |-> None]
        /\ UNCHANGED <<row, archive, staging, discover, daemon, scan, fault, touched, mishaps>>
    BY <1>4 DEF Publish, At, Rest1
  <2>2. "validate" \in PCs
    BY DEF PCs
  <2>3. /\ pc' \in [Ops -> PCs] /\ pc'[o] = "validate"
        /\ UNCHANGED <<lock, quit, had, guards>>
        /\ \A a \in Ops \ {o} : pc'[a] = pc[a]
    BY <2>1, <2>2, OnwardIs
  <2>4. target'.by = o /\ target'.intact /\ target'.reg = None /\ target.reg = None
    BY <1>4, <2>1 DEF Free
  <2>5. None \notin Ops /\ "other" \notin Ops
    BY RestoreAssumption
  <2>6. TypeOK'
    BY <2>1, <2>3 DEF IInv, TypeOK
  <2>7. TargetInv' /\ ScanInv' /\ DownInv'
    BY <2>1, <2>3, <2>4, <2>5 DEF IInv, TargetInv, ScanInv, DownInv
  <2>8. OpInv(o)'
    <3>1. PlaceInv(o)'
      BY <1>1, <2>1, <2>3 DEF IInv, OpInv, PlaceInv, Inside, Opening, Closing, Blind, PCs
    <3>2. row[o].phase \in Intended /\ staging[o].owner = "ok"
      BY <1>1 DEF IInv, OpInv, PlaceInv, FileInv
    <3>3. RowInv(o)' /\ FileInv(o)' /\ GuardInv(o)'
      BY <1>1, <2>1, <2>3, <2>4, <2>5, <3>2 DEF IInv, OpInv, RowInv, FileInv, GuardInv, Opening,
         Staging, Terminal
    <3>4. CauseInv(o)'
      BY <2>3, <2>4, <2>5 DEF CauseInv
    <3> QED
      BY <3>1, <3>3, <3>4 DEF OpInv
  <2>9. OnlyItsOwn(o)
    BY <2>1, <2>3, <2>4 DEF OnlyItsOwn
  <2> QED
    BY <2>6, <2>7, <2>8, <2>9, OwnStep
<1> QED
  BY <1>2, <1>3, <1>4

LEMMA ValidateInv == ASSUME IInv, NEW o \in Ops, Validate(o, "validate", "published") PROVE IInv'
<1>1. CASE Valid(o)
  BY <1>1, DecidesInv DEF Validate
<1>2. CASE ~Valid(o)
  <2>1. Decide(o, "validate", "fail") /\ pc[o] = "validate"
    BY <1>2 DEF Validate, Decide, At
  <2>2. Waits(o) => Reason(o)
    <3>1. target.by # None \/ touched
      BY <2>1 DEF IInv, OpInv, CauseInv, Seen
    <3>2. target.by # None => target.intact \/ touched
      BY DEF IInv, TargetInv
    <3>3. target.by = o => staging[o].owner = "ok" \/ row[o].phase = "state_committed"
      BY DEF IInv, OpInv, FileInv
    <3> QED
      BY <1>2, <3>1, <3>2, <3>3 DEF Valid, Waits, Reason
  <2> QED
    BY <2>1, <2>2, ToFail
<1> QED
  BY <1>1, <1>2

\* After the commit a restore fails without waiting.
LEMMA ClosingFails ==
    ASSUME IInv, NEW o \in Ops, NEW here \in Closing, Decide(o, here, "fail")
    PROVE  IInv'
<1>1. here # "idle" /\ row[o].phase = "state_committed"
  BY DEF IInv, OpInv, PlaceInv, Decide, At, Closing
<1> QED
  BY <1>1, ToFail DEF Waits

LEMMA RevalidateInv ==
    ASSUME IInv, NEW o \in Ops, Validate(o, "revalidate", "finalize")
    PROVE  IInv'
BY DecidesInv, ClosingFails DEF Validate, Closing

LEMMA CompleteInv == ASSUME IInv, NEW o \in Ops, Complete(o) PROVE IInv'
<1>1. pc[o] = "complete"
  BY DEF Complete, Decide, At
<1>2. CASE target.by \in Ops /\ target.reg # None
  <2>1. Waits(o) => Reason(o)
    BY <1>2 DEF IInv, OpInv, FileInv, Waits, Reason
  <2> QED
    BY <1>2, <2>1, ToFail DEF Complete
<1>3. CASE ~(target.by \in Ops /\ target.reg # None)
  <2>1. /\ Onward(o, "finalize") /\ daemon \in {"starting", "up"}
        /\ target' = IF target.by \in Ops THEN [target EXCEPT !.reg = o] ELSE target
        /\ row' = [row EXCEPT ![o].phase = "state_committed"]
        /\ UNCHANGED <<archive, staging, discover, daemon, scan, fault, touched, mishaps>>
    BY <1>3 DEF Complete, At, Rest1
  <2>2. "finalize" \in PCs
    BY DEF PCs
  <2>3. /\ pc' \in [Ops -> PCs] /\ pc'[o] = "finalize"
        /\ UNCHANGED <<lock, quit, had, guards>>
        /\ \A a \in Ops \ {o} : pc'[a] = pc[a]
    BY <2>1, <2>2, OnwardIs
  <2>4. /\ target' \in Targets /\ target'.by = target.by /\ target'.intact = target.intact
        /\ target'.reg \in {target.reg, o}
        /\ target.by = None => target' = target
    <3>1. target \in Targets /\ None \notin Ops
      BY RestoreAssumption DEF IInv, TypeOK, Targets
    <3> QED
      BY <2>1, <3>1 DEF Targets
  <2>5. /\ row' \in [Ops -> Row] /\ row'[o].phase = "state_committed"
        /\ row'[o].state = row[o].state /\ row'[o].cancel = row[o].cancel
        /\ \A a \in Ops \ {o} : row'[a] = row[a]
    <3>1. row \in [Ops -> Row] /\ "state_committed" \in {Phases[i] : i \in 1..8}
      BY PhaseSet DEF IInv, TypeOK, Row, Intended
    <3> QED
      BY <2>1, <3>1 DEF Row
  <2>6. TypeOK'
    BY <2>1, <2>3, <2>4, <2>5 DEF IInv, TypeOK, Row, Targets
  <2>7. TargetInv' /\ ScanInv' /\ DownInv'
    BY <2>1, <2>3, <2>4 DEF IInv, TargetInv, ScanInv, DownInv
  <2>8. OpInv(o)'
    <3>1. PlaceInv(o)' /\ RowInv(o)' /\ FileInv(o)' /\ GuardInv(o)'
      BY <1>1, <2>1, <2>3, <2>4, <2>5 DEF IInv, OpInv, PlaceInv, RowInv, FileInv, GuardInv,
         Inside, Opening, Closing, Blind, Staging, Terminal, Intended
    <3>2. CauseInv(o)'
      BY <1>1, <2>1, <2>3, <2>4, <2>5, ReachedIs
         DEF IInv, OpInv, CauseInv, Seen
    <3> QED
      BY <3>1, <3>2 DEF OpInv
  <2>9. OnlyItsOwn(o)
    BY <2>1, <2>3, <2>4, <2>5 DEF OnlyItsOwn
  <2> QED
    BY <2>6, <2>7, <2>8, <2>9, OwnStep
<1> QED
  BY <1>2, <1>3

LEMMA FinalizeInv == ASSUME IInv, NEW o \in Ops, Finalize(o) PROVE IInv'
<1>1. CASE target.intact /\ staging[o].owner = "ok"
  BY <1>1, StagesInv, DirTypes DEF Finalize, IInv
<1>2. CASE ~(target.intact /\ staging[o].owner = "ok") /\ target.intact /\ staging[o] = Clean
  BY <1>2, DecidesInv DEF Finalize
<1>3. CASE ~(target.intact /\ staging[o].owner = "ok") /\ ~(target.intact /\ staging[o] = Clean)
  BY <1>3, ClosingFails DEF Finalize, Closing
<1> QED
  BY <1>1, <1>2, <1>3

\* The end of a task keeps the invariant if the restore is finished or has a reason to wait.
LEMMA EndsInv ==
    ASSUME IInv, NEW o \in Ops, EndTask(o), daemon \in {"starting", "up"},
           UNCHANGED <<archive, target, staging, discover, daemon, scan, touched>>,
           row' \in [Ops -> Row], \A a \in Ops \ {o} : row'[a] = row[a],
           row'[o].phase = row[o].phase,
           fault \subseteq fault', fault' \subseteq Ops, mishaps' \in Nat,
           RowInv(o)', Live(o)' => Reason(o)'
    PROVE  IInv'
<1>1. None \notin Ops /\ None # "scan" /\ "scan" \notin Ops
  BY RestoreAssumption
<1>2. /\ pc' = [pc EXCEPT ![o] = "idle"] /\ lock' = IF lock = o THEN None ELSE lock
      /\ quit' = quit \ {o} /\ had' = had \ {o} /\ guards' = guards \ {o}
  BY DEF EndTask, Goto, Unlock
<1>3. /\ pc' \in [Ops -> PCs] /\ pc'[o] = "idle"
      /\ \A a \in Ops \ {o} : pc'[a] = pc[a]
  BY <1>2 DEF IInv, TypeOK, PCs
<1>4. TypeOK'
  BY <1>2, <1>3 DEF IInv, TypeOK, Row
<1>5. TargetInv' /\ ScanInv' /\ DownInv'
  BY <1>1, <1>2 DEF IInv, TypeOK, TargetInv, ScanInv, DownInv
<1>6. PlaceInv(o)' /\ FileInv(o)' /\ GuardInv(o)'
  BY <1>2, <1>3 DEF IInv, OpInv, PlaceInv, FileInv, GuardInv, Inside, Opening, Closing, Staging
<1>7. CauseInv(o)'
  BY <1>2, <1>3 DEF IInv, OpInv, CauseInv, Seen
<1>8. OnlyItsOwn(o)
  BY <1>2, <1>3 DEF OnlyItsOwn
<1> QED
  BY <1>4, <1>5, <1>6, <1>7, <1>8, OwnStep DEF OpInv

\* A new state of one row.
LEMMA SetStateIs ==
    ASSUME TypeOK, NEW o \in Ops, NEW s \in States, SetState(o, s)
    PROVE  /\ row' \in [Ops -> Row] /\ row'[o].state = s
           /\ row'[o].phase = row[o].phase /\ row'[o].cancel = row[o].cancel
           /\ \A a \in Ops \ {o} : row'[a] = row[a]
<1> DEFINE r == [row[o] EXCEPT !.state = s]
<1>1. row' = [row EXCEPT ![o] = r]
  BY DEF SetState
<1>2. row \in [Ops -> Row]
  BY DEF TypeOK, Row
<1>3. r \in Row /\ r.state = s /\ r.phase = row[o].phase /\ r.cancel = row[o].cancel
  BY <1>2 DEF Row
<1> HIDE DEF r
<1> QED
  BY <1>1, <1>2, <1>3

LEMMA FinishInv == ASSUME IInv, NEW o \in Ops, Finish(o) PROVE IInv'
<1>1. /\ pc[o] = "finish" /\ EndTask(o) /\ SetState(o, "succeeded")
      /\ daemon \in {"starting", "up"}
      /\ UNCHANGED <<archive, target, staging, discover, daemon, scan, fault, touched, mishaps>>
  BY DEF Finish, At, files, Rest1
<1>2. /\ row' \in [Ops -> Row] /\ row'[o].state = "succeeded"
      /\ row'[o].phase = row[o].phase
      /\ \A a \in Ops \ {o} : row'[a] = row[a]
  BY <1>1, SetStateIs DEF IInv, States, Terminal
<1>3. row[o].phase = "state_committed" /\ staging[o] = Clean
  BY <1>1 DEF IInv, OpInv, PlaceInv, FileInv, Closing
<1>4. pc'[o] = "idle"
  BY <1>1 DEF EndTask, Goto, IInv, TypeOK
<1>5. RowInv(o)'
  BY <1>1, <1>2, <1>3, <1>4 DEF RowInv
<1>6. ~Live(o)'
  BY <1>2 DEF Live, Terminal
<1>7. fault' \subseteq Ops /\ mishaps' \in Nat
  BY <1>1 DEF IInv, TypeOK
<1> QED
  BY <1>1, <1>2, <1>5, <1>6, <1>7, EndsInv

LEMMA CancelledInv == ASSUME IInv, NEW o \in Ops, Cancelled(o) PROVE IInv'
<1>1. pc[o] = "cancelled" /\ row[o].cancel
  BY DEF Cancelled, Decide, At, IInv, OpInv, PlaceInv
<1>2. CASE row[o].state = "running"
  BY <1>1, <1>2, ToFail DEF Cancelled, Reason
<1>3. CASE row[o].state # "running"
  <2>1. /\ EndTask(o) /\ daemon \in {"starting", "up"}
        /\ UNCHANGED <<archive, target, staging, discover, daemon, scan, fault, touched, mishaps>>
        /\ IF Live(o) THEN SetState(o, "cancelled") ELSE UNCHANGED row
    BY <1>3 DEF Cancelled, At, files, Rest1
  <2>2. Live(o)
    BY <1>1 DEF IInv, OpInv, RowInv, Live
  <2>3. /\ row' \in [Ops -> Row] /\ row'[o].state = "cancelled"
        /\ row'[o].phase = row[o].phase
        /\ \A a \in Ops \ {o} : row'[a] = row[a]
    BY <2>1, <2>2, SetStateIs DEF IInv, States, Terminal
  <2>4. target.by # o /\ staging[o] = Clean
    BY <1>1 DEF IInv, OpInv, PlaceInv, FileInv, Blind, Staging
  <2>5. pc'[o] = "idle"
    BY <2>1 DEF EndTask, Goto, IInv, TypeOK
  <2>6. RowInv(o)'
    BY <2>1, <2>3, <2>4, <2>5 DEF RowInv
  <2>7. ~Live(o)'
    BY <2>3 DEF Live, Terminal
  <2>8. fault' \subseteq Ops /\ mishaps' \in Nat
    BY <2>1 DEF IInv, TypeOK
  <2> QED
    BY <2>1, <2>3, <2>6, <2>7, <2>8, EndsInv
<1> QED
  BY <1>2, <1>3

LEMMA FailInv == ASSUME IInv, NEW o \in Ops, Fail(o) PROVE IInv'
<1> DEFINE wait == Reached(o, "publish_intent") /\ ~Reached(o, "state_committed")
<1>1. /\ pc[o] = "fail" /\ EndTask(o) /\ daemon \in {"starting", "up"}
      /\ UNCHANGED <<archive, target, staging, discover, daemon, scan, fault, touched, mishaps>>
      /\ IF Live(o) THEN SetState(o, IF wait THEN "recovering" ELSE "failed")
                    ELSE UNCHANGED row
  BY DEF Fail, At, files, Rest1
<1>2. wait <=> row[o].phase \in Intended \ {"state_committed"}
  BY ReachedIs DEF IInv
<1> HIDE DEF wait
<1>3. pc'[o] = "idle"
  BY <1>1 DEF EndTask, Goto, IInv, TypeOK
<1>4. fault' \subseteq Ops /\ mishaps' \in Nat
  BY <1>1 DEF IInv, TypeOK
<1>5. CASE ~Live(o)
  <2>1. row' = row /\ row \in [Ops -> Row]
    BY <1>1, <1>5 DEF IInv, TypeOK, Row
  <2>2. RowInv(o)'
    BY <1>1, <1>3, <2>1 DEF IInv, OpInv, RowInv
  <2> QED
    BY <1>1, <1>4, <1>5, <2>1, <2>2, EndsInv DEF Live
<1>6. CASE Live(o)
  <2>1. /\ row' \in [Ops -> Row] /\ row'[o].state = IF wait THEN "recovering" ELSE "failed"
        /\ row'[o].phase = row[o].phase /\ row'[o].cancel = row[o].cancel
        /\ \A a \in Ops \ {o} : row'[a] = row[a]
    BY <1>1, <1>6, SetStateIs DEF IInv, States, Terminal
  <2>2. ~wait /\ target.by = o => row[o].phase = "state_committed"
    BY <1>2 DEF IInv, OpInv, FileInv
  <2>3. RowInv(o)'
    BY <1>1, <1>2, <1>3, <2>1, <2>2 DEF RowInv, Terminal
  <2>4. Live(o)' => Reason(o)'
    <3>1. Live(o)' => wait
      BY <2>1 DEF Live, Terminal
    <3>2. wait => Reason(o)
      BY <1>1, <1>2, <1>6 DEF IInv, OpInv, CauseInv, Waits
    <3>3. Reason(o)' <=> Reason(o)
      BY <1>1, <2>1 DEF Reason
    <3> QED
      BY <3>1, <3>2, <3>3
  <2> QED
    BY <1>1, <1>4, <2>1, <2>3, <2>4, EndsInv
<1> QED
  BY <1>5, <1>6

LEMMA FaultInv == ASSUME IInv, NEW o \in Ops, Fault(o) PROVE IInv'
<1>1. /\ pc[o] \notin {"idle", "enter"} /\ daemon \in {"starting", "up"}
      /\ fault' = fault \cup {o}
      /\ IF pc[o] = "fail" THEN EndTask(o) ELSE Onward(o, "fail")
      /\ UNCHANGED <<row, archive, target, staging, discover, daemon, scan, touched>>
      /\ mishaps' = mishaps + 1
  BY DEF Fault, Mishap, files
<1>2. /\ row' \in [Ops -> Row] /\ \A a \in Ops \ {o} : row'[a] = row[a]
      /\ staging' \in [Ops -> Dirs] /\ \A a \in Ops \ {o} : staging'[a] = staging[a]
      /\ fault \subseteq fault' /\ fault' \subseteq Ops /\ mishaps' \in Nat
  BY <1>1 DEF IInv, TypeOK, Row, Dirs
<1>3. Reason(o)'
  BY <1>1 DEF Reason
<1>4. CASE pc[o] = "fail"
  <2>1. pc'[o] = "idle"
    BY <1>1, <1>4 DEF EndTask, Goto, IInv, TypeOK
  <2>2. RowInv(o)'
    BY <1>1, <1>4, <2>1 DEF IInv, OpInv, RowInv
  <2> QED
    BY <1>1, <1>2, <1>3, <1>4, <2>2, EndsInv
<1>5. CASE pc[o] # "fail"
  <2>1. "fail" \in PCs
    BY DEF PCs
  <2>2. pc'[o] = "fail" /\ guards' = guards /\ o \notin quit' /\ o \notin had'
    BY <1>1, <1>5, <2>1, OnwardIs
  <2>3. PlaceInv(o)' /\ RowInv(o)' /\ FileInv(o)' /\ GuardInv(o)'
    BY <1>1, <2>2 DEF IInv, OpInv, PlaceInv, RowInv, FileInv, GuardInv, Inside, Opening, Closing,
       Staging
  <2>4. CauseInv(o)'
    BY <1>1, <1>3, <2>2 DEF IInv, OpInv, CauseInv, Seen
  <2> QED
    BY <1>1, <1>2, <1>5, <2>1, <2>3, <2>4, WorkerKeeps DEF OpInv
<1> QED
  BY <1>4, <1>5

LEMMA WorkerInv == ASSUME IInv, NEW o \in Ops, WorkerStep(o) PROVE IInv'
BY BeginInv, PrepareInv, CheckpointsInv, StageInv, ClearInv, CreateInv, OwnInv, FillInv, LookInv,
   DropInv, PublishInv, ValidateInv, CompleteInv, RevalidateInv, FinalizeInv, DisownInv,
   FinishInv, CancelledInv, FailInv DEF WorkerStep

-----------------------------------------------------------------------------
(* Requests, the world outside, the scan and the daemon *)

LEMMA InitInv == Init => IInv
<1> SUFFICES ASSUME Init PROVE IInv
  OBVIOUS
<1>1. None # "scan" /\ None \notin Ops /\ "accepted" \in {Phases[i] : i \in 1..8}
  BY RestoreAssumption, PhaseSet DEF Early
<1>2. TypeOK
  BY <1>1 DEF Init, TypeOK, Free, Clean, Rest, States, PCs
<1>3. TargetInv /\ ScanInv /\ DownInv
  <2>1. target = Free /\ target.by = None
    BY DEF Init, Free
  <2>2. ~scan.same /\ ~scan.fresh /\ scan.at = "idle"
    BY DEF Init, Rest
  <2>3. lock = None /\ daemon = "up" /\ guards = {}
    BY DEF Init
  <2> QED
    BY <1>1, <2>1, <2>2, <2>3, RestoreAssumption DEF TargetInv, ScanInv, DownInv
<1>4. ASSUME NEW o \in Ops PROVE OpInv(o)
  <2>1. /\ pc[o] = "idle" /\ row[o].state = "absent" /\ row[o].phase = "accepted"
        /\ staging[o] = Clean /\ target.by = None /\ target.reg = None /\ o # None
        /\ quit = {} /\ had = {}
    BY <1>1, <1>4 DEF Init, Free
  <2>2. ~Live(o)
    BY <2>1 DEF Live
  <2> QED
    BY <2>1, <2>2 DEF OpInv, PlaceInv, RowInv, FileInv, CauseInv, GuardInv, Seen, Waits, Inside,
       Opening, Closing, Staging, Terminal, Shown, Intended
<1> QED
  BY <1>2, <1>3, <1>4 DEF IInv

LEMMA StutterInv == IInv /\ UNCHANGED vars => IInv'
BY DEF IInv, TypeOK, TargetInv, ScanInv, DownInv, OpInv, PlaceInv, RowInv, FileInv, CauseInv,
   GuardInv, Seen, Waits, Live, Reason, Pending, vars, files, volatile

LEMMA ApplyInv == ASSUME IInv, NEW o \in Ops, Apply(o) PROVE IInv'
<1>1. /\ row[o].state = "absent" /\ SetState(o, "queued") /\ daemon = "up"
      /\ pc' = [pc EXCEPT ![o] = "begin"]
      /\ UNCHANGED <<archive, target, staging, discover, daemon, lock, quit, had, guards, scan,
                     fault, touched, mishaps>>
  BY DEF Apply, files
<1>2. /\ row' \in [Ops -> Row] /\ row'[o].state = "queued" /\ row'[o].phase = row[o].phase
      /\ row'[o].cancel = row[o].cancel
      /\ \A a \in Ops \ {o} : row'[a] = row[a]
  BY <1>1, SetStateIs DEF IInv, States
<1>3. /\ pc' \in [Ops -> PCs] /\ pc'[o] = "begin"
      /\ \A a \in Ops \ {o} : pc'[a] = pc[a]
  BY <1>1 DEF IInv, TypeOK, PCs
<1>4. TypeOK'
  BY <1>1, <1>2, <1>3 DEF IInv, TypeOK, Row
<1>5. TargetInv' /\ ScanInv' /\ DownInv'
  BY <1>1 DEF IInv, TargetInv, ScanInv, DownInv
<1>6. /\ pc[o] = "idle" /\ row[o].phase = "accepted" /\ staging[o] = Clean
      /\ o \notin had /\ target.by # o
  <2>1. pc[o] = "idle" /\ row[o].phase = "accepted" /\ staging[o] = Clean
    BY <1>1 DEF IInv, OpInv, RowInv
  <2>2. target.by # o
    BY <2>1 DEF IInv, OpInv, FileInv, Intended
  <2>3. o \notin had
    BY <2>1 DEF IInv, OpInv, PlaceInv, Blind
  <2> QED
    BY <2>1, <2>2, <2>3
<1>7. OpInv(o)'
  <2>1. PlaceInv(o)' /\ RowInv(o)' /\ FileInv(o)' /\ GuardInv(o)'
    BY <1>1, <1>2, <1>3, <1>6 DEF IInv, OpInv, PlaceInv, RowInv, FileInv, GuardInv, Inside,
       Opening, Closing, Staging, Terminal
  <2>2. CauseInv(o)'
    BY <1>1, <1>2, <1>3, <1>6 DEF CauseInv, Seen, Shown, Intended
  <2> QED
    BY <2>1, <2>2 DEF OpInv
<1>8. OnlyItsOwn(o)
  BY <1>1, <1>2, <1>3 DEF OnlyItsOwn
<1> QED
  BY <1>4, <1>5, <1>7, <1>8, OwnStep

LEMMA CancelInv == ASSUME IInv, NEW o \in Ops, Cancel(o) PROVE IInv'
<1> DEFINE s == IF row[o].state = "queued" THEN "cancelled" ELSE "cancelling"
<1>1. /\ Live(o) /\ mishaps' = mishaps + 1 /\ daemon = "up"
      /\ row' = [row EXCEPT ![o].cancel = TRUE,
                            ![o].state = IF @ = "queued" THEN "cancelled" ELSE "cancelling"]
      /\ UNCHANGED <<archive, target, staging, discover, daemon, pc, lock, quit, had, guards,
                     scan, fault, touched>>
  BY DEF Cancel, Mishap, files, volatile
<1>2. /\ row' \in [Ops -> Row] /\ row'[o].state = s /\ row'[o].phase = row[o].phase
      /\ row'[o].cancel
      /\ \A a \in Ops \ {o} : row'[a] = row[a]
  <2> DEFINE r == [row[o] EXCEPT !.cancel = TRUE, !.state = s]
  <2>1. row \in [Ops -> Row] /\ s \in States
    BY DEF IInv, TypeOK, Row, States, Terminal
  <2> HIDE DEF s
  <2>2. r \in Row /\ r.state = s /\ r.phase = row[o].phase /\ r.cancel
    <3>1. row[o] \in Row
      BY <2>1
    <3> QED
      BY <2>1, <3>1 DEF Row
  <2>3. row' = [row EXCEPT ![o] = r]
    BY <1>1, <2>1 DEF s, Row
  <2> HIDE DEF r
  <2> QED
    BY <2>1, <2>2, <2>3
<1>3. TypeOK'
  BY <1>1, <1>2 DEF IInv, TypeOK, Row
<1>4. TargetInv' /\ ScanInv' /\ DownInv'
  BY <1>1 DEF IInv, TargetInv, ScanInv, DownInv
<1>5. OpInv(o)'
  <2>1. PlaceInv(o)' /\ FileInv(o)' /\ GuardInv(o)'
    BY <1>1, <1>2 DEF IInv, OpInv, PlaceInv, FileInv, GuardInv
  <2>2. RowInv(o)'
    BY <1>1, <1>2 DEF IInv, OpInv, RowInv, FileInv, Live, Terminal, Intended
  <2>3. CauseInv(o)'
    BY <1>1, <1>2 DEF IInv, OpInv, CauseInv, Seen, Reason
  <2> QED
    BY <2>1, <2>2, <2>3 DEF OpInv
<1>6. OnlyItsOwn(o)
  BY <1>1, <1>2 DEF OnlyItsOwn
<1> QED
  BY <1>3, <1>4, <1>5, <1>6, OwnStep

\* A change of the target or the archive by others keeps the invariant: it is a reason for
\* every restore, and none made what is there then unless it was there before.
LEMMA OthersKeep ==
    ASSUME IInv, target' \in Targets, archive' \in BOOLEAN, touched' \in BOOLEAN,
           scan' \in Scans,
           mishaps' \in Nat, discover' \in BOOLEAN,
           UNCHANGED <<row, staging, daemon, pc, lock, quit, had, guards, fault>>,
           archive' => archive, touched => touched',
           target' # target => touched' \/ target' = [target EXCEPT !.reg = "scan"],
           target' # target => target'.reg \notin Ops \/ target'.reg = target.reg,
           target'.by # target.by => target'.by \notin Ops,
           TargetInv', ScanInv', DownInv'
    PROVE  IInv'
<1>1. TypeOK'
  BY DEF IInv, TypeOK, Targets, Scans
<1>2. target' # target /\ ~touched' => target'.by = target.by /\ target'.reg = "scan"
  <2>1. target \in Targets
    BY DEF IInv, TypeOK, Targets
  <2> QED
    BY <2>1 DEF Targets
<1>3. ASSUME NEW o \in Ops PROVE OpInv(o)'
  <2>1. PlaceInv(o)'
    BY <1>3 DEF IInv, OpInv, PlaceInv
  <2>2. target'.by = o => target.by = o
    BY <1>3
  <2>3. target'.reg = o => target.reg = o
    BY <1>3
  <2>4. RowInv(o)' /\ FileInv(o)' /\ GuardInv(o)'
    BY <1>3, <2>2, <2>3 DEF IInv, OpInv, RowInv, FileInv, GuardInv
  <2>5. Reason(o) => Reason(o)'
    BY <1>2, <1>3, RestoreAssumption DEF Reason
  <2>6. CauseInv(o)'
    BY <1>2, <1>3, <2>5 DEF IInv, OpInv, CauseInv, Seen, Waits, Live
  <2> QED
    BY <2>1, <2>4, <2>6 DEF OpInv
<1> QED
  BY <1>1, <1>3 DEF IInv

LEMMA MeddleInv == ASSUME IInv, Meddle PROVE IInv'
<1>1. /\ UNCHANGED <<row, staging, discover, daemon, pc, lock, quit, had, guards, fault>>
      /\ mishaps' \in Nat
  BY DEF Meddle, Mishap, IInv, TypeOK
<1>2. target \in Targets /\ scan \in Scans /\ None \notin Ops /\ "other" \notin Ops /\ None # "other"
  BY RestoreAssumption DEF IInv, TypeOK, Targets, Scans
<1>4. CASE target.intact /\ target' = [target EXCEPT !.intact = FALSE] /\ touched'
           /\ UNCHANGED <<archive, scan>>
  <2>1. /\ target' \in Targets /\ target'.by = target.by /\ target'.reg = target.reg
    BY <1>2, <1>4 DEF Targets
  <2>2. target.by # None
    BY <1>4 DEF IInv, TargetInv, Free
  <2>3. TargetInv' /\ ScanInv' /\ DownInv'
    BY <1>1, <1>4, <2>1, <2>2 DEF IInv, TargetInv, ScanInv, DownInv
  <2>4. archive \in BOOLEAN /\ discover \in BOOLEAN
    BY DEF IInv, TypeOK
  <2> QED
    BY <1>1, <1>2, <1>4, <2>1, <2>3, <2>4, OthersKeep
<1>5. CASE /\ target' = IF target = Free THEN [Free EXCEPT !.by = "other"] ELSE Free
           /\ touched' /\ scan' = [scan EXCEPT !.same = FALSE] /\ UNCHANGED archive
  <2>1. /\ target' \in Targets /\ target'.by \notin Ops /\ target'.reg = None
        /\ target'.by \in {None, "other"} /\ (target'.by = None => target' = Free)
    BY <1>2, <1>5 DEF Targets, Free
  <2>2. /\ scan' \in Scans /\ ~scan'.same /\ scan'.fresh = scan.fresh /\ scan'.at = scan.at
        /\ scan = Rest => scan' = Rest
    <3>1. scan' \in Scans /\ ~scan'.same /\ scan'.fresh = scan.fresh /\ scan'.at = scan.at
      BY <1>2, <1>5 DEF Scans
    <3>2. Rest \in Scans /\ ~Rest.same
      BY DEF Scans, Rest
    <3>3. scan = Rest => scan' = Rest
      BY <1>2, <3>1, <3>2 DEF Scans
    <3> QED
      BY <3>1, <3>3
  <2>3. TargetInv' /\ ScanInv' /\ DownInv'
    BY <1>1, <1>5, <2>1, <2>2 DEF IInv, TargetInv, ScanInv, DownInv
  <2>4. archive \in BOOLEAN /\ discover \in BOOLEAN
    BY DEF IInv, TypeOK
  <2> QED
    BY <1>1, <1>2, <1>5, <2>1, <2>2, <2>3, <2>4, OthersKeep
<1>6. CASE archive' = FALSE /\ UNCHANGED <<target, touched, scan>>
  <2>1. TargetInv' /\ ScanInv' /\ DownInv'
    BY <1>1, <1>6 DEF IInv, TargetInv, ScanInv, DownInv
  <2>2. touched \in BOOLEAN /\ discover \in BOOLEAN
    BY DEF IInv, TypeOK
  <2> QED
    BY <1>1, <1>2, <1>6, <2>1, <2>2, OthersKeep
<1> QED
  BY <1>4, <1>5, <1>6 DEF Meddle

LEMMA RegisterInv == ASSUME IInv, Register PROVE IInv'
<1>1. /\ target' = [target EXCEPT !.reg = IF @ = None THEN "client" ELSE None] /\ touched'
      /\ target # Free
      /\ UNCHANGED <<row, archive, staging, discover, daemon, pc, lock, quit, had, guards, scan,
                     fault>>
      /\ mishaps' \in Nat
  BY DEF Register, Mishap, volatile, IInv, TypeOK
<1>2. target \in Targets /\ None \notin Ops /\ "client" \notin Ops
  BY RestoreAssumption DEF IInv, TypeOK, Targets
<1>3. /\ target' \in Targets /\ target'.by = target.by /\ target'.intact = target.intact
      /\ target'.reg \notin Ops
  BY <1>1, <1>2 DEF Targets
<1>4. TargetInv' /\ ScanInv' /\ DownInv'
  BY <1>1, <1>3 DEF IInv, TargetInv, ScanInv, DownInv
<1>5. /\ archive \in BOOLEAN /\ discover \in BOOLEAN /\ scan \in Scans
  BY DEF IInv, TypeOK, Scans
<1> QED
  BY <1>1, <1>3, <1>4, <1>5, OthersKeep

\* A step of the scan, or of the settings under it, that leaves the restores alone.
LEMMA ConfigureInv == ASSUME IInv, Configure PROVE IInv'
<1>1. /\ discover' = ~discover /\ scan' = [scan EXCEPT !.fresh = FALSE]
      /\ UNCHANGED <<row, archive, target, staging, daemon, pc, lock, quit, had, guards, fault,
                     touched>>
      /\ mishaps' \in Nat /\ daemon = "up"
  BY DEF Configure, Mishap, files, IInv, TypeOK
<1>2. scan \in Scans /\ discover \in BOOLEAN /\ archive \in BOOLEAN /\ touched \in BOOLEAN
      /\ target \in Targets
  BY DEF IInv, TypeOK, Scans, Targets
<1>3. scan' \in Scans /\ ~scan'.fresh /\ scan'.at = scan.at /\ scan'.same = scan.same
  BY <1>1, <1>2 DEF Scans
<1>4. TargetInv' /\ ScanInv' /\ DownInv'
  BY <1>1, <1>3 DEF IInv, TargetInv, ScanInv, DownInv
<1> QED
  BY <1>1, <1>2, <1>3, <1>4, OthersKeep

LEMMA ScanStartInv == ASSUME IInv, ScanStart PROVE IInv'
<1>1. /\ daemon = "up" /\ scan.at = "idle" /\ discover /\ target # Free
      /\ scan' = [at |-> "listed", fresh |-> TRUE, same |-> TRUE]
      /\ UNCHANGED <<row, archive, target, staging, discover, daemon, pc, lock, quit, had,
                     guards, fault, touched, mishaps>>
  BY DEF ScanStart, files
<1>2. /\ discover \in BOOLEAN /\ archive \in BOOLEAN /\ touched \in BOOLEAN /\ mishaps \in Nat
      /\ target \in Targets
  BY DEF IInv, TypeOK, Targets
<1>3. scan' \in Scans /\ scan'.at = "listed"
  BY <1>1 DEF Scans
<1>4. TargetInv' /\ ScanInv' /\ DownInv'
  BY <1>1, <1>3 DEF IInv, TargetInv, ScanInv, DownInv
<1> QED
  BY <1>1, <1>2, <1>3, <1>4, OthersKeep

LEMMA ScanLockInv == ASSUME IInv, ScanLock PROVE IInv'
<1>1. /\ scan.at = "listed"
      /\ UNCHANGED <<row, archive, target, staging, discover, daemon, pc, quit, had, guards,
                     fault, touched, mishaps>>
  BY DEF ScanLock, files
<1>2. None \notin Ops /\ None # "scan" /\ "scan" \notin Ops
  BY RestoreAssumption
<1>3. daemon \notin {"down", "refused"}
  BY <1>1 DEF IInv, DownInv, Rest
<1>4. CASE ~Pending /\ scan.fresh /\ lock = None /\ lock' = "scan"
           /\ scan' = [scan EXCEPT !.at = "locked"]
  <2>1. /\ scan' \in Scans /\ scan'.at = "locked" /\ scan'.fresh = scan.fresh
        /\ scan'.same = scan.same
    BY <1>4 DEF IInv, TypeOK, Scans
  <2>2. TypeOK'
    BY <1>1, <1>4, <2>1 DEF IInv, TypeOK, Scans
  <2>3. TargetInv' /\ ScanInv' /\ DownInv'
    BY <1>1, <1>3, <1>4, <2>1 DEF IInv, TargetInv, ScanInv, DownInv, Pending
  <2>4. ASSUME NEW o \in Ops PROVE OpInv(o)'
    <3>1. pc[o] \notin Inside
      BY <1>2, <1>4, <2>4 DEF IInv, OpInv, PlaceInv
    <3>2. PlaceInv(o)'
      BY <1>1, <2>4, <3>1 DEF IInv, OpInv, PlaceInv
    <3>3. RowInv(o)' /\ FileInv(o)' /\ GuardInv(o)' /\ CauseInv(o)'
      BY <1>1, <2>4 DEF IInv, OpInv, RowInv, FileInv, GuardInv, CauseInv, Seen, Waits, Live,
         Reason
    <3> QED
      BY <3>2, <3>3 DEF OpInv
  <2> QED
    BY <2>2, <2>3, <2>4 DEF IInv
<1>5. CASE scan' = Rest /\ UNCHANGED lock
  <2>1. /\ scan' \in Scans /\ scan'.at = "idle" /\ ~scan'.fresh /\ ~scan'.same
    BY <1>5 DEF Scans, Rest
  <2>2. /\ discover \in BOOLEAN /\ archive \in BOOLEAN /\ touched \in BOOLEAN /\ mishaps \in Nat
        /\ target \in Targets
    BY DEF IInv, TypeOK, Targets
  <2>3. TargetInv' /\ ScanInv' /\ DownInv'
    BY <1>1, <1>3, <1>5, <2>1 DEF IInv, TargetInv, ScanInv, DownInv
  <2> QED
    BY <1>1, <1>5, <2>1, <2>2, <2>3, OthersKeep
<1> QED
  BY <1>4, <1>5 DEF ScanLock

LEMMA ScanRegisterInv == ASSUME IInv, ScanRegister PROVE IInv'
<1>1. /\ scan.at = "locked" /\ lock = "scan" /\ lock' = None /\ scan' = Rest
      /\ target' = IF scan.same /\ scan.fresh /\ target.reg = None
                   THEN [target EXCEPT !.reg = "scan"] ELSE target
      /\ UNCHANGED <<row, archive, staging, discover, daemon, pc, quit, had, guards, fault,
                     touched, mishaps>>
  BY DEF ScanRegister, IInv, ScanInv
<1>2. None \notin Ops /\ None # "scan" /\ "scan" \notin Ops
  BY RestoreAssumption
<1>3. daemon \notin {"down", "refused"}
  BY <1>1 DEF IInv, DownInv, Rest
<1>4. /\ target' \in Targets /\ target'.by = target.by /\ target'.intact = target.intact
      /\ target'.reg \in {target.reg, "scan"}
      /\ target.reg # None => target' = target
      /\ ~scan.same => target' = target
  BY <1>1 DEF IInv, TypeOK, Targets
<1>5. scan' \in Scans /\ scan'.at = "idle" /\ ~scan'.fresh /\ ~scan'.same
  BY <1>1 DEF Scans, Rest
<1>6. TypeOK'
  BY <1>1, <1>4, <1>5 DEF IInv, TypeOK, Scans, Targets
<1>7. TargetInv' /\ ScanInv' /\ DownInv'
  BY <1>1, <1>2, <1>3, <1>4, <1>5 DEF IInv, TargetInv, ScanInv, DownInv
<1>8. ASSUME NEW o \in Ops PROVE OpInv(o)'
  <2>1. PlaceInv(o)'
    BY <1>1, <1>2, <1>8 DEF IInv, OpInv, PlaceInv
  <2>2. RowInv(o)' /\ FileInv(o)' /\ GuardInv(o)'
    BY <1>1, <1>2, <1>4, <1>8 DEF IInv, OpInv, RowInv, FileInv, GuardInv
  <2>3. Reason(o) => Reason(o)'
    BY <1>1, <1>2, <1>4, <1>8 DEF Reason
  <2>4. CauseInv(o)'
    BY <1>1, <1>4, <1>8, <2>3 DEF IInv, OpInv, CauseInv, Seen, Waits, Live
  <2> QED
    BY <2>1, <2>2, <2>4 DEF OpInv
<1> QED
  BY <1>6, <1>7, <1>8 DEF IInv

\* The daemon is gone: no task is left, and what the journals and the files say stays.
LEMMA DeadInv ==
    ASSUME IInv, Dead, daemon' \in {"down", "refused"}, mishaps' \in Nat,
           UNCHANGED <<row, archive, target, staging, discover, fault, touched>>
    PROVE  IInv'
<1>1. /\ pc' = [o \in Ops |-> "idle"] /\ lock' = None
      /\ quit' = {} /\ had' = {} /\ guards' = {} /\ scan' = Rest
  BY DEF Dead
<1>2. scan' \in Scans /\ scan'.at = "idle" /\ ~scan'.fresh /\ ~scan'.same
  BY <1>1 DEF Scans, Rest
<1>3. None # "scan"
  BY RestoreAssumption
<1>4. TypeOK'
  BY <1>1, <1>2 DEF IInv, TypeOK, PCs, Scans
<1>5. TargetInv' /\ ScanInv' /\ DownInv'
  BY <1>1, <1>2, <1>3 DEF IInv, TargetInv, ScanInv, DownInv
<1>6. ASSUME NEW o \in Ops PROVE OpInv(o)'
  <2>1. pc'[o] = "idle"
    BY <1>1, <1>6
  <2>2. PlaceInv(o)' /\ RowInv(o)' /\ FileInv(o)' /\ GuardInv(o)'
    BY <1>1, <1>6, <2>1 DEF IInv, OpInv, PlaceInv, RowInv, FileInv, GuardInv, Inside, Opening,
       Closing, Staging
  <2>3. CauseInv(o)'
    BY <1>1, <1>6, <2>1 DEF IInv, OpInv, CauseInv, Seen
  <2> QED
    BY <2>2, <2>3 DEF OpInv
<1> QED
  BY <1>4, <1>5, <1>6 DEF IInv

LEMMA CrashInv == ASSUME IInv, Crash PROVE IInv'
BY DeadInv DEF Crash, Mishap, files, IInv, TypeOK

LEMMA RefuseInv == ASSUME IInv, Refuse PROVE IInv'
BY DeadInv DEF Refuse, files, IInv, TypeOK

LEMMA StartInv == ASSUME IInv, Start PROVE IInv'
<1>1. /\ daemon \in {"down", "refused"} /\ daemon' = "starting"
      /\ row' = [o \in Ops |-> IF Live(o) /\ row[o].state # "queued"
                               THEN [row[o] EXCEPT !.state = "recovering"] ELSE row[o]]
      /\ pc' = [o \in Ops |-> IF Live(o) THEN "begin" ELSE "idle"]
      /\ guards' = {o \in Ops : Live(o)} /\ fault' = {}
      /\ UNCHANGED <<archive, target, staging, discover, lock, quit, had, scan, touched, mishaps>>
  BY DEF Start, Guarded, files
<1>2. /\ lock = None /\ quit = {} /\ had = {} /\ scan = Rest /\ scan.at = "idle"
  BY <1>1 DEF IInv, DownInv, Rest
<1>3. ASSUME NEW o \in Ops
      PROVE  /\ row'[o] \in Row
             /\ row'[o].phase = row[o].phase /\ row'[o].cancel = row[o].cancel
             /\ row'[o].state = IF Live(o) /\ row[o].state # "queued"
                                THEN "recovering" ELSE row[o].state
  <2>1. row[o] \in Row
    BY <1>3 DEF IInv, TypeOK, Row
  <2> QED
    BY <1>1, <1>3, <2>1 DEF Row, States, Terminal
<1>4. TypeOK'
  <2>1. row' \in [Ops -> Row]
    BY <1>1, <1>3
  <2>2. pc' \in [Ops -> PCs]
    BY <1>1 DEF PCs
  <2> QED
    BY <1>1, <2>1, <2>2 DEF IInv, TypeOK, Row
<1>5. TargetInv' /\ ScanInv' /\ DownInv'
  BY <1>1, <1>2 DEF IInv, TargetInv, ScanInv, DownInv
<1>6. ASSUME NEW o \in Ops PROVE OpInv(o)'
  <2>1. pc'[o] = IF Live(o) THEN "begin" ELSE "idle"
    BY <1>1, <1>6
  <2>2. pc[o] = "idle"
    BY <1>1, <1>6 DEF IInv, DownInv
  <2>3. Live(o)' <=> Live(o)
    BY <1>3, <1>6 DEF Live, Terminal
  <2>4. PlaceInv(o)'
    BY <1>1, <1>2, <1>6, <2>1 DEF PlaceInv, Inside, Opening, Closing
  <2>5. RowInv(o)'
    BY <1>1, <1>3, <1>6, <2>1 DEF IInv, OpInv, RowInv, Live, Terminal
  <2>6. FileInv(o)'
    BY <1>1, <1>3, <1>6, <2>1 DEF IInv, OpInv, FileInv, Staging
  <2>7. GuardInv(o)'
    BY <1>1, <1>6, <2>1 DEF GuardInv, Opening
  <2>8. CauseInv(o)'
    BY <1>1, <1>2, <1>3, <1>6, <2>1, <2>2, <2>3 DEF IInv, OpInv, CauseInv, Seen
  <2> QED
    BY <2>4, <2>5, <2>6, <2>7, <2>8 DEF OpInv
<1> QED
  BY <1>4, <1>5, <1>6 DEF IInv

LEMMA ReadyInv == ASSUME IInv, Ready PROVE IInv'
<1>1. /\ daemon = "starting" /\ daemon' = "up"
      /\ UNCHANGED <<row, archive, target, staging, discover, pc, lock, quit, had, guards, scan,
                     fault, touched, mishaps>>
  BY DEF Ready, files, volatile
<1>2. TypeOK' /\ TargetInv' /\ ScanInv' /\ DownInv'
  BY <1>1 DEF IInv, TypeOK, TargetInv, ScanInv, DownInv
<1>3. ASSUME NEW o \in Ops PROVE OpInv(o)'
  <2>1. PlaceInv(o)' /\ RowInv(o)' /\ FileInv(o)' /\ GuardInv(o)'
    BY <1>1, <1>3 DEF IInv, OpInv, PlaceInv, RowInv, FileInv, GuardInv
  <2>2. CauseInv(o)'
    BY <1>1, <1>3 DEF IInv, OpInv, CauseInv, Seen, Waits, Live, Reason
  <2> QED
    BY <2>1, <2>2 DEF OpInv
<1> QED
  BY <1>2, <1>3 DEF IInv

LEMMA NextInv == IInv /\ [Next]_vars => IInv'
<1> SUFFICES ASSUME IInv, [Next]_vars PROVE IInv'
  OBVIOUS
<1>1. CASE \E o \in Ops : Apply(o) \/ Cancel(o) \/ WorkerStep(o) \/ Enter(o) \/ Fault(o)
  BY <1>1, ApplyInv, CancelInv, WorkerInv, EnterInv, FaultInv
<1>2. CASE Meddle \/ Register \/ Configure
  BY <1>2, MeddleInv, RegisterInv, ConfigureInv
<1>3. CASE ScanStart \/ ScanLock \/ ScanRegister
  BY <1>3, ScanStartInv, ScanLockInv, ScanRegisterInv
<1>4. CASE Crash \/ Start \/ Ready \/ Refuse
  BY <1>4, CrashInv, StartInv, ReadyInv, RefuseInv
<1>5. CASE UNCHANGED vars
  BY <1>5, StutterInv
<1> QED
  BY <1>1, <1>2, <1>3, <1>4, <1>5 DEF Next

-----------------------------------------------------------------------------
(* Theorems *)

\* The inductive invariant.
THEOREM Invariance == Spec => []IInv
BY InitInv, NextInv, PTL DEF Spec

\* Every variable stays in its type, whatever happens to a restore.
THEOREM TypeCorrect == Spec => []TypeOK
<1>1. IInv => TypeOK
  BY DEF IInv
<1> QED
  BY <1>1, Invariance, PTL

\* What a finished restore reports is what it did: a cancelled one made nothing and left
\* nothing, a failed one made nothing it did not also register, a succeeded one cleaned up.
THEOREM Truthful == Spec => []ReportsAreTrue
<1>1. IInv => ReportsAreTrue
  BY ReachedIs DEF IInv, OpInv, RowInv, ReportsAreTrue
<1> QED
  BY <1>1, Invariance, PTL

\* A death of the daemon alone never leaves an accepted restore without anybody working on
\* it: every one that is left so has a failing step, a cancel, a lost archive, a touched
\* target or a torn owner file to show for it.
THEOREM StuckHasAReason == Spec => []StuckForAReason
<1>1. IInv => StuckForAReason
  BY DEF IInv, OpInv, CauseInv, StuckForAReason, Stuck, Reason
<1> QED
  BY <1>1, Invariance, PTL

\* The only step by which the scan registers what is at the target.
LEMMA ScanStep ==
    ASSUME IInv, [Next]_vars, target.reg = None, target'.reg = "scan"
    PROVE  ScanRegister
<1>1. None # "scan" /\ "scan" \notin Ops /\ None # "client"
  BY RestoreAssumption
<1>2. target \in Targets
  BY DEF IInv, TypeOK, Targets
<1>3. target' # target
  BY <1>1
<1>4. ASSUME NEW o \in Ops, WorkerStep(o) PROVE FALSE
  <2>1. target' = [by |-> o, intact |-> TRUE, reg |-> None] \/ target' = [target EXCEPT !.reg = o]
    BY <1>3, <1>4 DEF WorkerStep, Begin, Prepare, Checkpoint, Stage, Remove, Stages, Own, Fill,
       Look, Drop, Publish, Validate, Complete, Finalize, Finish, Cancelled, Fail, Decide, files
  <2> QED
    BY <1>1, <1>2, <1>4, <2>1 DEF Targets
<1>5. ~Meddle
  <2>1. Meddle => target'.reg \in {target.reg, None}
    BY <1>2 DEF Meddle, Targets, Free
  <2> QED
    BY <1>1, <2>1
<1>6. ~Register
  BY <1>1, <1>2 DEF Register, Targets
<1> QED
  BY <1>3, <1>4, <1>5, <1>6 DEF Next, Apply, Cancel, Enter, Fault, Configure, ScanStart, ScanLock,
     Crash, Start, Ready, Refuse, files, vars

\* A scan never registers the directory of a restore that is about to do so, because the
\* restore holds the lock of the target or a recovery guard, and it registers nothing while
\* the settings forbid it.
THEOREM ScanIsSafe == Spec => ScanWaitsForRestores
<1>1. ASSUME IInv, [Next]_vars
      PROVE  [target.reg = None /\ target'.reg = "scan"
                => /\ discover
                   /\ \A o \in Ops : target.by = o /\ ~Reached(o, "state_committed")
                                     => pc[o] \in {"idle", "fail"}]_vars
  <2> SUFFICES ASSUME target.reg = None, target'.reg = "scan"
               PROVE  /\ discover
                      /\ \A o \in Ops : target.by = o /\ ~Reached(o, "state_committed")
                                        => pc[o] \in {"idle", "fail"}
    OBVIOUS
  <2>1. scan.at = "locked" /\ target' = IF scan.same /\ scan.fresh /\ target.reg = None
                                         THEN [target EXCEPT !.reg = "scan"] ELSE target
    BY <1>1, ScanStep DEF ScanRegister
  <2>2. scan.fresh /\ None # "scan" /\ "scan" \notin Ops
    BY <2>1, RestoreAssumption
  <2>3. discover /\ guards = {} /\ lock = "scan"
    BY <1>1, <2>1, <2>2 DEF IInv, ScanInv
  <2>4. ASSUME NEW o \in Ops, target.by = o, ~Reached(o, "state_committed")
        PROVE  pc[o] \in {"idle", "fail"}
    <3>1. row[o].phase # "state_committed"
      BY <1>1, <2>4, ReachedIs DEF IInv
    <3>2. pc[o] \notin Opening /\ pc[o] \notin Closing /\ pc[o] \notin Inside
      BY <1>1, <2>2, <2>3, <2>4, <3>1 DEF IInv, OpInv, PlaceInv, GuardInv
    <3> QED
      BY <1>1, <2>4, <3>2 DEF Inside, IInv, TypeOK
  <2> QED
    BY <2>3, <2>4
<1> QED
  BY <1>1, Invariance, PTL DEF Spec, ScanWaitsForRestores

-----------------------------------------------------------------------------
(* The journal of a restore *)

\* What a row may become, whoever writes it: an end is final, the phase never goes back, a
\* cancel is never withdrawn, and no row goes.
Forward(r, s) ==
    /\ r.state \in Terminal => s = r
    /\ Step(s.phase) >= Step(r.phase)
    /\ r.cancel => s.cancel
    /\ s.state = "absent" => r.state = "absent"

\* In every step, of a worker, a client or a start after a death.
JournalGoesForward == [][\A o \in Ops : Forward(row[o], row'[o])]_vars

\* How a worker writes the row of its restore: an open one gets a state or a later phase.
Writes(o) ==
    \/ UNCHANGED row
    \/ /\ row[o].state \notin Terminal
       /\ \/ \E s \in States \ {"absent"} : SetState(o, s)
          \/ \E p \in {Phases[i] : i \in 1..8} :
                Step(p) >= Step(row[o].phase) /\ row' = [row EXCEPT ![o].phase = p]
          \/ \E s \in States \ {"absent"} :
                row' = [row EXCEPT ![o].cancel = TRUE, ![o].state = s]

LEMMA StepNat == \A p \in {Phases[i] : i \in 1..8} : Step(p) \in Nat
BY StepIs, PhaseSet DEF Early, Intended

LEMMA SameIsForward == ASSUME TypeOK, NEW o \in Ops PROVE Forward(row[o], row[o])
<1>1. Step(row[o].phase) \in Nat
  BY StepNat DEF TypeOK
<1> QED
  BY <1>1 DEF Forward

LEMMA WritesForward ==
    ASSUME TypeOK, NEW o \in Ops, Writes(o), NEW a \in Ops
    PROVE  Forward(row[a], row'[a])
<1>1. row \in [Ops -> Row] /\ Step(row[o].phase) \in Nat
  BY StepNat DEF TypeOK, Row
<1>2. CASE UNCHANGED row \/ (a # o /\ row' # row)
  <2>1. row'[a] = row[a]
    BY <1>1, <1>2 DEF Writes, SetState
  <2> QED
    BY <2>1, SameIsForward
<1>3. CASE a = o /\ row[o].state \notin Terminal
  <2>1. ASSUME NEW s \in States \ {"absent"}, SetState(o, s) PROVE Forward(row[o], row'[o])
    BY <1>1, <1>3, <2>1 DEF SetState, Forward, Row
  <2>2. ASSUME NEW p \in {Phases[i] : i \in 1..8}, Step(p) >= Step(row[o].phase),
               row' = [row EXCEPT ![o].phase = p]
        PROVE  Forward(row[o], row'[o])
    BY <1>1, <1>3, <2>2 DEF Forward, Row
  <2>3. ASSUME NEW s \in States \ {"absent"},
               row' = [row EXCEPT ![o].cancel = TRUE, ![o].state = s]
        PROVE  Forward(row[o], row'[o])
    BY <1>1, <1>3, <2>3 DEF Forward, Row
  <2> QED
    BY <1>2, <1>3, <2>1, <2>2, <2>3 DEF Writes
<1> QED
  BY <1>2, <1>3 DEF Writes

\* A place where a worker writes the row is one where the row has not ended.
LEMMA CheckpointWrites ==
    ASSUME IInv, NEW o \in Ops, NEW here, here \notin {"begin", "fail", "idle"},
           NEW p \in {Phases[i] : i \in 1..8}, NEW there, Checkpoint(o, here, p, there)
    PROVE  Writes(o)
<1>1. pc[o] = here /\ row' = IF Reached(o, p) THEN row ELSE [row EXCEPT ![o].phase = p]
  BY DEF Checkpoint, At
<1>2. row[o].state \notin Terminal
  BY <1>1 DEF IInv, OpInv, RowInv
<1>3. Step(p) \in Nat /\ Step(row[o].phase) \in Nat
  BY StepNat DEF IInv, TypeOK
<1>4. ~Reached(o, p) => Step(p) >= Step(row[o].phase)
  BY <1>3 DEF Reached
<1> QED
  BY <1>1, <1>2, <1>4 DEF Writes

LEMMA StateWrites ==
    ASSUME NEW o, NEW s \in States \ {"absent"}, Live(o), SetState(o, s)
    PROVE  Writes(o)
BY DEF Live, Writes

LEMMA WorkerWrites == ASSUME IInv, NEW o \in Ops, WorkerStep(o) PROVE Writes(o)
<1>1. \A i \in {"archive_verified", "extracting", "staging_complete", "publish_intent",
                "target_published", "project_registry_commit_intent", "state_committed"} :
          i \in {Phases[j] : j \in 1..8}
  BY PhaseSet DEF Early, Intended
<1>2. {"running", "recovering", "failed", "cancelled", "succeeded"} \subseteq States \ {"absent"}
  BY DEF States, Terminal
<1>3. CASE Begin(o)
  <2>1. row[o].state \in {"queued", "recovering"} => Live(o) /\ SetState(o, "running")
    BY <1>3 DEF Begin, Live, Terminal
  <2>2. row[o].state \notin {"queued", "recovering"} => UNCHANGED row
    BY <1>3 DEF Begin, Decide
  <2>3. Writes(o) \/ (Live(o) /\ SetState(o, "running"))
    BY <2>1, <2>2 DEF Writes
  <2> QED
    BY <1>2, <2>3, StateWrites
<1>4. CASE Prepare(o)
  <2>1. Checkpoint(o, "prepare", "archive_verified", "enter") \/ UNCHANGED row
    BY <1>4 DEF Prepare, Decide
  <2> QED
    BY <1>1, <2>1, CheckpointWrites DEF Writes
<1>5. CASE \/ Checkpoint(o, "extract", "extracting", "stage")
           \/ Checkpoint(o, "staged", "staging_complete", "look")
           \/ Checkpoint(o, "intent", "publish_intent", "publish")
           \/ Checkpoint(o, "published", "target_published", "registering")
           \/ Checkpoint(o, "registering", "project_registry_commit_intent", "complete")
  BY <1>1, <1>5, CheckpointWrites
<1>6. CASE \/ Stage(o) \/ Remove(o, "clear", "create")
           \/ Stages(o, "create", [staging[o] EXCEPT !.dir = TRUE], "own")
           \/ Own(o) \/ Fill(o) \/ Look(o) \/ Drop(o) \/ Publish(o)
           \/ Validate(o, "validate", "published") \/ Validate(o, "revalidate", "finalize")
           \/ Finalize(o) \/ Stages(o, "disown", Clean, "finish")
  BY <1>6 DEF Stage, Remove, Stages, Own, Fill, Look, Drop, Publish, Validate, Finalize, Decide,
     Writes, files
<1>7. CASE Complete(o)
  <2>1. CASE UNCHANGED row
    BY <2>1 DEF Writes
  <2>2. CASE pc[o] = "complete" /\ row' = [row EXCEPT ![o].phase = "state_committed"]
    <3>1. row[o].state \notin Terminal
      BY <2>2 DEF IInv, OpInv, RowInv
    <3>2. Step("state_committed") >= Step(row[o].phase)
      <4>1. row[o].phase \in Early \cup Intended
        BY ReachedIs DEF IInv
      <4> QED
        BY <4>1, StepIs DEF Early, Intended
    <3> QED
      BY <1>1, <2>2, <3>1, <3>2 DEF Writes
  <2> QED
    BY <1>7, <2>1, <2>2 DEF Complete, Decide, At
<1>8. CASE Finish(o)
  <2>1. pc[o] = "finish" /\ SetState(o, "succeeded")
    BY <1>8 DEF Finish, At
  <2>2. row[o].state \notin Terminal
    BY <2>1 DEF IInv, OpInv, RowInv
  <2> QED
    BY <1>2, <2>1, <2>2 DEF Writes
<1>9. CASE Cancelled(o)
  <2>1. UNCHANGED row \/ (Live(o) /\ SetState(o, "cancelled"))
    BY <1>9 DEF Cancelled, Decide
  <2> QED
    BY <1>2, <2>1, StateWrites DEF Writes
<1>10. CASE Fail(o)
  <2>1. UNCHANGED row \/ (Live(o) /\ \E s \in {"recovering", "failed"} : SetState(o, s))
    BY <1>10 DEF Fail
  <2> QED
    BY <1>2, <2>1, StateWrites DEF Writes
<1> QED
  BY <1>3, <1>4, <1>5, <1>6, <1>7, <1>8, <1>9, <1>10 DEF WorkerStep

\* begin_backup_restore, the checkpoints, cancel_operation and recover_backup_operations: a
\* restore that ended is never opened again, by a late worker or by a start; no retry takes
\* the journal back behind a phase it recorded; and a cancel once asked for stays asked for,
\* whatever the daemon lives through.
THEOREM JournalForward == Spec => JournalGoesForward
<1>1. ASSUME IInv, [Next]_vars, NEW a \in Ops PROVE Forward(row[a], row'[a])
  <2>1. CASE \E o \in Ops : WorkerStep(o)
    BY <1>1, <2>1, WorkerWrites, WritesForward DEF IInv
  <2>2. CASE \E o \in Ops : Apply(o)
    <3>1. PICK o \in Ops : row[o].state \notin Terminal /\ SetState(o, "queued")
      BY <2>2 DEF Apply, Terminal
    <3>2. Writes(o)
      BY <3>1 DEF Writes, States
    <3> QED
      BY <1>1, <3>2, WritesForward DEF IInv
  <2>3. CASE \E o \in Ops : Cancel(o)
    <3>1. PICK o \in Ops : Cancel(o)
      BY <2>3
    <3>2. /\ row[o].state \notin Terminal
          /\ \E s \in {"cancelled", "cancelling"} :
                row' = [row EXCEPT ![o].cancel = TRUE, ![o].state = s]
      BY <3>1 DEF Cancel, Live
    <3>3. {"cancelled", "cancelling"} \subseteq States \ {"absent"}
      BY DEF States, Terminal
    <3>4. Writes(o)
      BY <3>2, <3>3 DEF Writes
    <3> QED
      BY <1>1, <3>1, <3>4, WritesForward DEF IInv
  <2>4. CASE Start
    <3>1. row'[a] = IF Live(a) /\ row[a].state # "queued"
                    THEN [row[a] EXCEPT !.state = "recovering"] ELSE row[a]
      BY <2>4 DEF Start
    <3>2. row[a] \in Row /\ Step(row[a].phase) \in Nat
      BY <1>1, StepNat DEF IInv, TypeOK, Row
    <3>3. Live(a) => Forward(row[a], [row[a] EXCEPT !.state = "recovering"])
      BY <3>2 DEF Live, Forward, Row
    <3> QED
      BY <1>1, <3>1, <3>3, SameIsForward DEF IInv
  <2>5. CASE UNCHANGED row
    BY <1>1, <2>5, SameIsForward DEF IInv
  <2>6. (\E o \in Ops : Enter(o) \/ Fault(o)) \/ UNCHANGED vars => UNCHANGED row
    BY DEF Enter, Fault, vars
  <2>7. \/ Meddle \/ Register \/ Configure \/ ScanStart \/ ScanLock \/ ScanRegister
        \/ Crash \/ Ready \/ Refuse
        => UNCHANGED row
    BY DEF Meddle, Register, Configure, ScanStart, ScanLock, ScanRegister, Crash, Ready, Refuse
  <2> QED
    BY <1>1, <2>1, <2>2, <2>3, <2>4, <2>5, <2>6, <2>7 DEF Next
<1>2. ASSUME IInv, [Next]_vars PROVE [\A o \in Ops : Forward(row[o], row'[o])]_vars
  BY <1>1, <1>2
<1> QED
  BY <1>2, Invariance, PTL DEF Spec, JournalGoesForward
=============================================================================
