-------------------------- MODULE PackageApplyProofs --------------------------
(***************************************************************************)
(* Theorems about PackageApply for every set of plans and packages, and    *)
(* any number of daemon deaths, failing steps and touches of the project.  *)
(*                                                                         *)
(* The inductive invariant IInv is a conjunction over the Operations.  Its *)
(* part OpInv(o) ties the place of o's worker to what o then owns: its     *)
(* plan, the Project lock, the record it loaded, the states its row can    *)
(* have, and, before the first rename, the files its plan saw.  A step of  *)
(* one worker keeps OpInv of every other because it changes files only     *)
(* under the lock.                                                         *)
(*                                                                         *)
(* The theorems about what the files hold rest on a second invariant,      *)
(* SoloInv, of the behaviours in which one plan has been accepted.  The    *)
(* code does not keep a second plan off an abandoned first one, and the    *)
(* evidence of the first does not survive the writes of the second.        *)
(*                                                                         *)
(* A third, FreshInv, is about any number of accepted plans, before the    *)
(* daemon first dies or a step fails: then no worker leaves the files      *)
(* halfway, and what it says of success is about writers of the current    *)
(* revision of the projects row.                                           *)
(*                                                                         *)
(* The last part is about the lock coordinator, ResourceLocks, that gives  *)
(* an apply its Project lock, for every set of tasks, keys and lock cells. *)
(* That an acquired key excludes every other task rests on one fact about  *)
(* the Weak map: while anybody refers to a lock of a key, the map names    *)
(* that lock, so nobody can be given another one.                          *)
(***************************************************************************)
EXTENDS PackageApply, ResourceLocks, TLAPS

\* Places of a worker that holds the Project lock.
Inside == {"revalidate", "cancel2", "prepare", "intent", "swap", "publish",
           "commitIntent", "commit1", "commit2", "verify", "inspect", "undo",
           "recheck"}

\* Places after Load, and after Begin.
Loaded  == PCs \ {"idle", "look", "cancelled", "begin", "load"}
Running == Loaded \cup {"load"}

\* Places between the revalidation and the first rename.
Proved == {"cancel2", "prepare", "intent"}

OpInv(o) ==
    /\ state[o] # "absent" \/ w[o].pc # "idle" => plan[o] # None
    /\ w[o].pc \in Inside => lock = o
    /\ w[o].pc \in Loaded => w[o].row \in Row
    /\ w[o].pc \in Running => state[o] \in {"running", "cancelling"}
    /\ w[o].pc = "inspect" => manifest # None
    /\ w[o].pc \in Proved => manifest # None /\ Snapshot = plan[o].seen
    /\ daemon # "up" => w[o] = Idle
    /\ daemon = "up" => state[o] # "interrupted"

IInv == TypeOK /\ \A o \in Ops : OpInv(o)

\* What a step of o's worker leaves to the others.
OnlyItsOwn(o) ==
    /\ \A a \in Ops \ {o} : w'[a] = w[a] /\ state'[a] = state[a]
    /\ UNCHANGED <<plan, daemon>>
    /\ lock' = lock \/ lock \in {o, None}
    /\ UNCHANGED <<live, manifest>> \/ w[o].pc \in Inside

-----------------------------------------------------------------------------
(* Helpers *)

LEMMA TreeUpdate ==
    ASSUME NEW t \in Tree, NEW p \in Pkgs, NEW c \in Content
    PROVE  [t EXCEPT ![p] = c] \in Tree
BY DEF Tree

LEMMA NothingIsTree == Nothing \in Tree
BY DEF Nothing, Tree, Content

LEMMA IdleIsWorker == Idle \in Worker
BY DEF Idle, Worker, PCs

LEMMA SnapshotSame == UNCHANGED <<live, manifest>> => Snapshot' = Snapshot
BY DEF Snapshot

LEMMA SnapshotType == TypeOK /\ manifest # None => Snapshot \in Seen
<1>1. SUFFICES ASSUME TypeOK, manifest # None PROVE Snapshot \in Seen
  OBVIOUS
<1>2. manifest \in Tree /\ live \in Tree
  BY <1>1 DEF TypeOK
<1>3. [p \in Pkgs |-> IF manifest[p] = "absent" THEN "absent" ELSE live[p]] \in Tree
  BY <1>2 DEF Tree, Content
<1> QED
  BY <1>2, <1>3 DEF Snapshot, Seen

\* A worker goes on to another place and keeps the record it loaded.
LEMMA GoFacts ==
    ASSUME TypeOK, NEW o \in Ops, NEW pc \in PCs, Go(o, pc)
    PROVE  /\ w' \in [Ops -> Worker]
           /\ \A a \in Ops \ {o} : w'[a] = w[a]
           /\ w'[o].pc = pc /\ w'[o].row = w[o].row
<1>1. w[o] \in Worker
  BY DEF TypeOK
<1>2. [w[o] EXCEPT !.pc = pc] \in Worker
  BY <1>1 DEF Worker
<1>3. w' = [w EXCEPT ![o] = [w[o] EXCEPT !.pc = pc]]
  BY DEF Go
<1>4. w'[o] = [w[o] EXCEPT !.pc = pc]
  BY <1>3 DEF TypeOK
<1> QED
  BY <1>1, <1>2, <1>3, <1>4 DEF TypeOK, Worker

\* A task ends and drops its guards.
LEMMA EndFacts ==
    ASSUME TypeOK, NEW o \in Ops, EndTask(o)
    PROVE  /\ w' \in [Ops -> Worker]
           /\ \A a \in Ops \ {o} : w'[a] = w[a]
           /\ w'[o] = Idle
           /\ lock' \in Ops \cup {None} /\ (lock' = lock \/ lock = o)
BY IdleIsWorker DEF EndTask, Unlock, TypeOK

\* A step of one worker keeps OpInv of every other Operation.
LEMMA OthersKeep ==
    ASSUME IInv, NEW o \in Ops, OnlyItsOwn(o), NEW a \in Ops \ {o}
    PROVE  OpInv(a)'
<1>1. OpInv(a) /\ OpInv(o)
  BY DEF IInv
<1>2. w'[a] = w[a] /\ state'[a] = state[a] /\ plan' = plan /\ daemon' = daemon
  BY DEF OnlyItsOwn
<1>3. w[a].pc \in Inside => lock' = a
  BY <1>1, PackageApplyAssumption DEF OpInv, OnlyItsOwn
<1>4. w[a].pc \in Inside => UNCHANGED <<live, manifest>>
  BY <1>1 DEF OpInv, OnlyItsOwn
<1>5. w[a].pc \in Inside => Snapshot' = Snapshot
  BY <1>4, SnapshotSame
<1>6. w[a].pc = "inspect" \/ w[a].pc \in Proved => w[a].pc \in Inside
  BY DEF Inside, Proved
<1> QED
  BY <1>1, <1>2, <1>3, <1>4, <1>5, <1>6 DEF OpInv

-----------------------------------------------------------------------------
LEMMA InitInv == Init => IInv
<1>1. SUFFICES ASSUME Init PROVE IInv
  OBVIOUS
<1>2. live \in Tree
  BY <1>1 DEF Init, Tree, Content
<1>3. NoAttempt \in Attempt
  BY NothingIsTree DEF NoAttempt, NewAttempt, Attempt, Marks
<1>4. TypeOK
  BY <1>1, <1>2, <1>3, IdleIsWorker DEF Init, TypeOK, Row
<1>5. \A o \in Ops : OpInv(o)
  BY <1>1 DEF Init, OpInv, Idle, Inside, Loaded, Running, Proved
<1> QED
  BY <1>4, <1>5 DEF IInv

LEMMA StutterInv == IInv /\ UNCHANGED vars => IInv'
<1>1. SUFFICES ASSUME IInv, UNCHANGED vars PROVE IInv'
  OBVIOUS
<1>2. Snapshot' = Snapshot
  BY <1>1, SnapshotSame DEF vars, files
<1>3. TypeOK'
  BY <1>1 DEF IInv, TypeOK, vars, db, files, bounds
<1>4. \A o \in Ops : OpInv(o)'
  BY <1>1, <1>2 DEF IInv, OpInv, vars, db, files, bounds
<1> QED
  BY <1>3, <1>4 DEF IInv

-----------------------------------------------------------------------------
(* Requests *)

LEMMA MakePlanInv ==
    ASSUME IInv, NEW o \in Ops, NEW target \in Tree, MakePlan(o, target)
    PROVE  IInv'
<1>1. Snapshot \in Seen /\ project \in Row
  BY SnapshotType DEF IInv, TypeOK, MakePlan
<1>2. [rev |-> project.rev, seen |-> Snapshot, target |-> target] \in Plan
  BY <1>1 DEF Plan, Row
<1>3. TypeOK'
  BY <1>2 DEF IInv, TypeOK, MakePlan, files, bounds
<1>4. \A a \in Ops \ {o} : plan'[a] = plan[a]
  BY DEF MakePlan, IInv, TypeOK
<1>5. plan[o] = None /\ Snapshot' = Snapshot
  BY SnapshotSame DEF MakePlan, files
<1>6. state[o] = "absent" /\ w[o].pc = "idle"
  BY <1>5 DEF IInv, OpInv
<1>7. \A a \in Ops : OpInv(a)'
  BY <1>4, <1>5, <1>6 DEF IInv, OpInv, MakePlan, files, bounds, Inside, Loaded,
     Running, Proved
<1> QED
  BY <1>3, <1>7 DEF IInv

LEMMA AcceptPlanInv ==
    ASSUME IInv, NEW o \in Ops, AcceptPlan(o)
    PROVE  IInv'
<1>1. Go(o, "look")
  BY DEF AcceptPlan, Go
<1>2. w' \in [Ops -> Worker] /\ (\A a \in Ops \ {o} : w'[a] = w[a]) /\ w'[o].pc = "look"
  BY <1>1, GoFacts DEF IInv, PCs
<1>3. TypeOK'
  BY <1>2 DEF IInv, TypeOK, AcceptPlan, files, bounds, States
<1>4. OnlyItsOwn(o)
  BY <1>2 DEF OnlyItsOwn, AcceptPlan, files, IInv, TypeOK
<1>5. OpInv(o)'
  BY <1>2 DEF AcceptPlan, IInv, OpInv, TypeOK, Inside, Loaded, Running, Proved
<1> QED
  BY <1>3, <1>4, <1>5, OthersKeep DEF IInv

LEMMA CancelInv ==
    ASSUME IInv, NEW o \in Ops, Cancel(o)
    PROVE  IInv'
<1>1. TypeOK'
  BY DEF IInv, TypeOK, Cancel, files, bounds, States, Terminal
<1>2. Snapshot' = Snapshot
  BY SnapshotSame DEF Cancel, files
<1>3. \A a \in Ops \ {o} : state'[a] = state[a]
  BY DEF Cancel, IInv, TypeOK
<1>4. /\ state'[o] # "interrupted" /\ state[o] # "absent"
      /\ state[o] \in {"running", "cancelling"} => state'[o] = "cancelling"
  BY DEF Cancel, IInv, TypeOK
<1>5. \A a \in Ops : OpInv(a)'
  BY <1>2, <1>3, <1>4 DEF IInv, OpInv, Cancel, files, bounds
<1> QED
  BY <1>1, <1>5 DEF IInv

\* Only the projects row and what a refresh has read change.
LEMMA TouchInv ==
    ASSUME IInv, SetFavorite \/ InspectProject \/ RefreshProject
    PROVE  IInv'
<1>1. /\ project' \in Row
      /\ peek' \in Row \cup {None}
      /\ touches' \in Nat
  <2>1. CASE SetFavorite
    BY <2>1 DEF IInv, TypeOK, SetFavorite, Row
  <2>2. CASE InspectProject
    BY <2>2 DEF IInv, TypeOK, InspectProject, Row, db
  <2>3. CASE RefreshProject
    BY <2>3 DEF IInv, TypeOK, RefreshProject, Row, bounds
  <2> QED
    BY <2>1, <2>2, <2>3
<1>2. UNCHANGED <<state, cancelReq, plan, live, manifest, att, daemon, w, lock,
                  crashes, faults>>
  BY DEF SetFavorite, InspectProject, RefreshProject, db, files, bounds
<1>3. TypeOK'
  BY <1>1, <1>2 DEF IInv, TypeOK
<1>4. Snapshot' = Snapshot
  BY <1>2, SnapshotSame
<1>5. \A a \in Ops : OpInv(a)'
  BY <1>2, <1>4 DEF IInv, OpInv
<1> QED
  BY <1>3, <1>5 DEF IInv

-----------------------------------------------------------------------------
(* The daemon process *)

LEMMA CrashInv == ASSUME IInv, Crash PROVE IInv'
<1>1. TypeOK'
  BY IdleIsWorker DEF IInv, TypeOK, Crash, db, files
<1>2. \A a \in Ops : OpInv(a)'
  BY DEF IInv, OpInv, Crash, db, files, Idle, Inside, Loaded, Running, Proved
<1> QED
  BY <1>1, <1>2 DEF IInv

LEMMA StartInv == ASSUME IInv, Start PROVE IInv'
<1>1. TypeOK'
  BY DEF IInv, TypeOK, Start, db, files, bounds
<1>2. Snapshot' = Snapshot
  BY SnapshotSame DEF Start, files
<1>3. \A a \in Ops : OpInv(a)'
  BY <1>2 DEF IInv, OpInv, Start, db, files
<1> QED
  BY <1>1, <1>3 DEF IInv

LEMMA RecoverRowInv == ASSUME IInv, NEW o \in Ops, RecoverRow(o) PROVE IInv'
<1>1. TypeOK'
  BY DEF IInv, TypeOK, RecoverRow, SetState, files, bounds, States
<1>2. \A a \in Ops : w[a] = Idle
  BY DEF IInv, OpInv, RecoverRow
<1>3. \A a \in Ops \ {o} : state'[a] = state[a]
  BY DEF IInv, TypeOK, RecoverRow, SetState
<1>4. plan[o] # None
  BY DEF IInv, OpInv, RecoverRow
<1>5. w' = w /\ plan' = plan /\ daemon' # "up"
  BY DEF RecoverRow
<1>6. \A a \in Ops : state'[a] # "absent" => plan[a] # None
  BY <1>3, <1>4 DEF IInv, OpInv
<1>7. \A a \in Ops : w[a].pc = "idle"
  BY <1>2 DEF Idle
<1>8. \A a \in Ops : OpInv(a)'
  BY <1>2, <1>5, <1>6, <1>7 DEF OpInv, Inside, Loaded, Running, Proved
<1> QED
  BY <1>1, <1>8 DEF IInv

LEMMA ReadyInv == ASSUME IInv, Ready PROVE IInv'
<1>1. [Idle EXCEPT !.pc = "look"] \in Worker
  BY DEF Idle, Worker, PCs
<1>2. TypeOK'
  BY <1>1, IdleIsWorker DEF IInv, TypeOK, Ready, db, files, bounds
<1>3. \A a \in Ops : /\ w'[a].pc \in {"idle", "look"}
                     /\ w'[a].pc = "look" => state[a] # "absent"
  BY DEF Ready, Idle
<1>4. \A a \in Ops : OpInv(a)'
  BY <1>3 DEF IInv, OpInv, Ready, db, files, Inside, Loaded, Running, Proved
<1> QED
  BY <1>2, <1>4 DEF IInv

-----------------------------------------------------------------------------
(* The worker *)

LEMMA OwnStep ==
    ASSUME IInv, NEW o \in Ops, TypeOK', OnlyItsOwn(o), OpInv(o)'
    PROVE  IInv'
BY OthersKeep DEF IInv

\* A step that only moves the worker, and may give the lock back.
LEMMA MoveInv ==
    ASSUME IInv, NEW o \in Ops, NEW pc \in PCs, Go(o, pc),
           UNCHANGED <<db, files, daemon, peek, bounds>>,
           w[o].pc # "idle",
           lock' = lock \/ Unlock(o),
           pc \in Inside => lock' = lock /\ w[o].pc \in Inside,
           pc \in Loaded => w[o].pc \in Loaded,
           pc \in Running => w[o].pc \in Running,
           pc = "inspect" => manifest # None,
           pc \in Proved => manifest # None /\ Snapshot = plan[o].seen
    PROVE  IInv'
<1>1. /\ w' \in [Ops -> Worker]
      /\ \A a \in Ops \ {o} : w'[a] = w[a]
      /\ w'[o].pc = pc /\ w'[o].row = w[o].row
  BY GoFacts DEF IInv
<1>2. lock' \in Ops \cup {None} /\ (lock' = lock \/ lock = o)
  BY DEF IInv, TypeOK, Unlock
<1>3. TypeOK'
  BY <1>1, <1>2 DEF IInv, TypeOK, db, files, bounds
<1>4. OnlyItsOwn(o)
  BY <1>1, <1>2 DEF OnlyItsOwn, db, files
<1>5. Snapshot' = Snapshot
  BY SnapshotSame DEF files
<1>6. daemon = "up"
  BY DEF IInv, OpInv, Idle
<1>7. OpInv(o)'
  BY <1>1, <1>2, <1>5, <1>6 DEF IInv, OpInv, db, files
<1> QED
  BY <1>3, <1>4, <1>7, OwnStep

\* A step that ends the task and changes no file.
LEMMA EndInv ==
    ASSUME IInv, NEW o \in Ops, EndTask(o),
           UNCHANGED <<plan, files, daemon, peek, crashes, touches>>,
           cancelReq' = cancelReq, project' \in Row, faults' \in Nat,
           state' \in [Ops -> States \cup {"absent"}],
           \A a \in Ops \ {o} : state'[a] = state[a],
           state'[o] # "absent" => w[o].pc # "idle" \/ state[o] # "absent",
           daemon = "up" => state'[o] # "interrupted"
    PROVE  IInv'
<1>1. /\ w' \in [Ops -> Worker]
      /\ \A a \in Ops \ {o} : w'[a] = w[a]
      /\ w'[o] = Idle
      /\ lock' \in Ops \cup {None} /\ (lock' = lock \/ lock = o)
  BY EndFacts DEF IInv
<1>2. TypeOK'
  BY <1>1 DEF IInv, TypeOK, files
<1>3. OnlyItsOwn(o)
  BY <1>1 DEF OnlyItsOwn, files
<1>4. w'[o].pc = "idle"
  BY <1>1 DEF Idle
<1>5. OpInv(o)'
  BY <1>1, <1>4 DEF IInv, OpInv, Inside, Loaded, Running, Proved
<1> QED
  BY <1>2, <1>3, <1>5, OwnStep

LEMMA CheckCancelledInv ==
    ASSUME IInv, NEW o \in Ops,
           NEW here \in {"look", "cancel1", "cancel2"}, NEW onward \in PCs,
           <<here, onward>> \in {<<"look", "begin">>, <<"cancel1", "lockApply">>,
                                 <<"cancel2", "prepare">>},
           CheckCancelled(o, here, onward)
    PROVE  IInv'
<1>1. w[o].pc = here
  BY DEF CheckCancelled, At
<1>2. CASE cancelReq[o]
  <2>1. "cancelled" \in PCs /\ Go(o, "cancelled") /\ Unlock(o)
    BY <1>2 DEF CheckCancelled, PCs
  <2> QED
    BY <1>1, <2>1, MoveInv DEF CheckCancelled, Inside, Loaded, Running, Proved
<1>3. CASE ~cancelReq[o]
  <2>1. Go(o, onward) /\ lock' = lock
    BY <1>3 DEF CheckCancelled
  <2>2. onward = "prepare" => manifest # None /\ Snapshot = plan[o].seen
    BY <1>1 DEF IInv, OpInv, Proved
  <2> QED
    BY <1>1, <2>1, <2>2, MoveInv DEF CheckCancelled, Inside, Loaded, Running, Proved, PCs
<1> QED
  BY <1>2, <1>3

LEMMA FinishCancelledInv ==
    ASSUME IInv, NEW o \in Ops, FinishCancelled(o)
    PROVE  IInv'
<1>1. w[o].pc = "cancelled" /\ EndTask(o)
  BY DEF FinishCancelled, At
<1>2. /\ state' \in [Ops -> States \cup {"absent"}]
      /\ \A a \in Ops \ {o} : state'[a] = state[a]
      /\ state'[o] \in {state[o], "cancelled"}
  BY DEF FinishCancelled, SetState, IInv, TypeOK, States, Terminal
<1>3. daemon = "up" => state'[o] # "interrupted"
  BY <1>2 DEF IInv, OpInv
<1> QED
  BY <1>1, <1>2, <1>3, EndInv DEF FinishCancelled, IInv, TypeOK, bounds

LEMMA BeginInv ==
    ASSUME IInv, NEW o \in Ops, Begin(o)
    PROVE  IInv'
<1>1. w[o].pc = "begin"
  BY DEF Begin, At
<1>2. CASE state[o] \in {"queued", "recovering"}
  <2>1. Go(o, "load") /\ lock' = lock /\ SetState(o, "running")
    BY <1>2 DEF Begin
  <2>2. /\ w' \in [Ops -> Worker]
        /\ \A a \in Ops \ {o} : w'[a] = w[a]
        /\ w'[o].pc = "load"
    BY <2>1, GoFacts DEF IInv, PCs
  <2>3. /\ state' \in [Ops -> States \cup {"absent"}]
        /\ \A a \in Ops \ {o} : state'[a] = state[a]
        /\ state'[o] = "running"
    BY <2>1 DEF SetState, IInv, TypeOK, States
  <2>4. TypeOK'
    BY <2>1, <2>2, <2>3 DEF Begin, IInv, TypeOK, files, bounds
  <2>5. OnlyItsOwn(o)
    BY <2>1, <2>2, <2>3 DEF Begin, OnlyItsOwn, files
  <2>6. daemon = "up"
    BY <1>1 DEF IInv, OpInv, Idle
  <2>7. OpInv(o)'
    BY <1>1, <2>2, <2>3, <2>6 DEF Begin, IInv, OpInv, Inside, Loaded, Running, Proved
  <2> QED
    BY <2>4, <2>5, <2>7, OwnStep
<1>3. CASE state[o] \notin {"queued", "recovering"}
  <2>1. EndTask(o) /\ state' = state
    BY <1>3 DEF Begin
  <2>2. daemon = "up" => state[o] # "interrupted"
    BY DEF IInv, OpInv
  <2> QED
    BY <1>1, <2>1, <2>2, EndInv DEF Begin, IInv, TypeOK, bounds
<1> QED
  BY <1>2, <1>3

LEMMA LoadInv ==
    ASSUME IInv, NEW o \in Ops, Load(o)
    PROVE  IInv'
<1>1. w[o].pc = "load" /\ daemon = "up" /\ state[o] \in {"running", "cancelling"}
  BY DEF Load, At, IInv, OpInv, Idle, Running
<1>2. CASE att[o].mark = "unmarked"
  <2>1. EndTask(o)
    BY <1>2 DEF Load
  <2> QED
    BY <1>1, <2>1, EndInv DEF Load, db, bounds, IInv, TypeOK
<1>3. CASE att[o].mark # "unmarked"
  <2>1. Resume(o) \in {"lockFinal", "lockUndo", "create"}
    BY DEF Resume
  <2>2. /\ w' = [w EXCEPT ![o] = [w[o] EXCEPT !.pc = Resume(o), !.row = project]]
        /\ lock' = lock
    BY <1>3 DEF Load
  <2>3. w[o] \in Worker /\ project \in Row
    BY DEF IInv, TypeOK
  <2>4. [w[o] EXCEPT !.pc = Resume(o), !.row = project] \in Worker
    BY <2>1, <2>3 DEF Worker, PCs
  <2>5. w'[o] = [w[o] EXCEPT !.pc = Resume(o), !.row = project]
    BY <2>2 DEF IInv, TypeOK
  <2>6. w'[o].pc = Resume(o) /\ w'[o].row = project
    BY <2>3, <2>5 DEF Worker
  <2>7. TypeOK'
    BY <2>2, <2>4 DEF Load, IInv, TypeOK, db, files, bounds
  <2>8. OnlyItsOwn(o)
    BY <2>2 DEF Load, OnlyItsOwn, db, files, IInv, TypeOK
  <2>9. OpInv(o)'
    BY <1>1, <2>1, <2>3, <2>6 DEF Load, IInv, OpInv, db, files, Inside, Proved
  <2> QED
    BY <2>7, <2>8, <2>9, OwnStep
<1> QED
  BY <1>2, <1>3

LEMMA LockInv ==
    ASSUME IInv, NEW o \in Ops, NEW here \in {"lockApply", "lockFinal", "lockUndo"},
           NEW onward \in {"revalidate", "recheck", "undo"}, Lock(o, here, onward)
    PROVE  IInv'
<1> DEFINE todo == IF onward = "undo" THEN Changes(o) ELSE {}
<1>1. w[o].pc = here /\ lock = None /\ lock' = o
  BY DEF Lock, At
<1>2. w[o].row \in Row /\ daemon = "up" /\ state[o] \in {"running", "cancelling"}
  BY <1>1 DEF IInv, OpInv, Idle, Loaded, Running, PCs
<1>3. w' = [w EXCEPT ![o] = [w[o] EXCEPT !.pc = onward, !.todo = todo]]
  BY DEF Lock
<1>4. w[o] \in Worker /\ todo \in SUBSET Pkgs
  BY DEF IInv, TypeOK, Changes
<1> HIDE DEF todo
<1>5. [w[o] EXCEPT !.pc = onward, !.todo = todo] \in Worker
  BY <1>4 DEF Worker, PCs
<1>6. w'[o] = [w[o] EXCEPT !.pc = onward, !.todo = todo]
  BY <1>3 DEF IInv, TypeOK
<1>7. w'[o].pc = onward /\ w'[o].row = w[o].row
  BY <1>4, <1>6 DEF Worker
<1>8. TypeOK'
  BY <1>1, <1>3, <1>5 DEF Lock, IInv, TypeOK, db, files, bounds
<1>9. OnlyItsOwn(o)
  BY <1>1, <1>3 DEF Lock, OnlyItsOwn, db, files, IInv, TypeOK
<1>10. OpInv(o)'
  BY <1>1, <1>2, <1>7 DEF Lock, IInv, OpInv, db, files, Proved
<1> QED
  BY <1>8, <1>9, <1>10, OwnStep

\* What a step that moves a worker among the places after Load has to show.
LEMMA InsideInv ==
    ASSUME IInv, NEW o \in Ops, w[o].pc \in Loaded,
           UNCHANGED <<db, daemon, peek, bounds>>,
           w' \in [Ops -> Worker], \A a \in Ops \ {o} : w'[a] = w[a],
           w'[o].pc \in Loaded \ {"inspect"}, w'[o].row = w[o].row,
           lock' = lock, live' \in Tree, manifest' \in Tree \cup {None},
           att' \in [Ops -> Attempt],
           UNCHANGED <<live, manifest>> \/ w[o].pc \in Inside,
           w'[o].pc \in Inside => w[o].pc \in Inside,
           w'[o].pc \in Proved => w[o].pc \in Proved /\ UNCHANGED <<live, manifest>>
    PROVE  IInv'
<1>1. TypeOK'
  BY DEF IInv, TypeOK, db, bounds
<1>2. OnlyItsOwn(o)
  BY DEF OnlyItsOwn, db
<1>3. daemon = "up"
  BY DEF IInv, OpInv, Idle, Loaded
<1>4. w'[o].pc \in Proved => Snapshot' = Snapshot
  BY SnapshotSame
<1>5. OpInv(o)'
  BY <1>3, <1>4 DEF IInv, OpInv, db, Loaded, Running
<1> QED
  BY <1>1, <1>2, <1>5, OwnStep

\* The worker goes on, its attempt changes, the project does not.
LEMMA AttemptInv ==
    ASSUME IInv, NEW o \in Ops, NEW pc \in Loaded \ {"inspect"},
           w[o].pc \in Loaded, Go(o, pc),
           UNCHANGED <<db, live, manifest, daemon, lock, peek, bounds>>,
           att' \in [Ops -> Attempt],
           pc \in Inside => w[o].pc \in Inside,
           pc \in Proved => w[o].pc \in Proved
    PROVE  IInv'
<1>1. /\ w' \in [Ops -> Worker]
      /\ \A a \in Ops \ {o} : w'[a] = w[a]
      /\ w'[o].pc = pc /\ w'[o].row = w[o].row
  BY GoFacts DEF IInv, Loaded
<1> QED
  BY <1>1, InsideInv DEF IInv, TypeOK

LEMMA CreateAttemptInv ==
    ASSUME IInv, NEW o \in Ops, CreateAttempt(o)
    PROVE  IInv'
<1>1. NewAttempt \in Attempt
  BY NothingIsTree DEF NewAttempt, Attempt, Marks
<1>2. att' \in [Ops -> Attempt]
  BY <1>1 DEF CreateAttempt, IInv, TypeOK
<1> QED
  BY <1>2, AttemptInv DEF CreateAttempt, At, Loaded, Inside, Proved, PCs

LEMMA MarkInv ==
    ASSUME IInv, NEW o \in Ops, NEW here \in PCs, NEW mark \in Marks,
           NEW onward \in PCs, NEW todo \in SUBSET Pkgs,
           <<here, onward>> \in {<<"fetch", "extract">>, <<"prepare", "intent">>,
                                 <<"intent", "swap">>, <<"commitIntent", "commit1">>},
           Mark(o, here, mark, onward, todo)
    PROVE  IInv'
<1>1. w[o] \in Worker /\ att[o] \in Attempt
  BY DEF IInv, TypeOK
<1>2. [att[o] EXCEPT !.mark = mark] \in Attempt
  BY <1>1 DEF Attempt
<1>3. att' \in [Ops -> Attempt]
  BY <1>2 DEF Mark, IInv, TypeOK
<1>4. [w[o] EXCEPT !.pc = onward, !.todo = todo] \in Worker
  BY <1>1 DEF Worker
<1>5. w' = [w EXCEPT ![o] = [w[o] EXCEPT !.pc = onward, !.todo = todo]]
  BY DEF Mark
<1>6. w'[o] = [w[o] EXCEPT !.pc = onward, !.todo = todo]
  BY <1>5 DEF IInv, TypeOK
<1>7. /\ w' \in [Ops -> Worker]
      /\ \A a \in Ops \ {o} : w'[a] = w[a]
      /\ w'[o].pc = onward /\ w'[o].row = w[o].row
  BY <1>1, <1>4, <1>5, <1>6 DEF IInv, TypeOK, Worker
<1>8. w[o].pc = here /\ UNCHANGED <<db, live, manifest, daemon, lock, peek, bounds>>
  BY DEF Mark, At
<1>9. live' \in Tree /\ manifest' \in Tree \cup {None}
  BY <1>8 DEF IInv, TypeOK
<1> QED
  BY <1>3, <1>7, <1>8, <1>9, InsideInv DEF Loaded, Inside, Proved, PCs

LEMMA ExtractInv ==
    ASSUME IInv, NEW o \in Ops, Extract(o)
    PROVE  IInv'
<1>1. att[o] \in Attempt /\ Changes(o) \ Removes(o) \in SUBSET Pkgs
  BY DEF IInv, TypeOK, Changes
<1>2. [att[o] EXCEPT !.mark = "extracted", !.staged = Changes(o) \ Removes(o)] \in Attempt
  BY <1>1 DEF Attempt, Marks
<1>3. att' \in [Ops -> Attempt]
  BY <1>2 DEF Extract, IInv, TypeOK
<1> QED
  BY <1>3, AttemptInv DEF Extract, At, Loaded, Inside, Proved, PCs

LEMMA RevalidateInv ==
    ASSUME IInv, NEW o \in Ops, Revalidate(o)
    PROVE  IInv'
<1>1. w[o].pc = "revalidate"
  BY DEF Revalidate, At
<1>2. CASE Go(o, "cancel2") /\ lock' = lock /\ manifest # None /\ Snapshot = plan[o].seen
  BY <1>1, <1>2, MoveInv DEF Revalidate, Loaded, Running, Inside, Proved, PCs
<1>3. CASE Go(o, "failing") /\ Unlock(o)
  BY <1>1, <1>3, MoveInv DEF Revalidate, Loaded, Running, Inside, Proved, PCs
<1> QED
  BY <1>2, <1>3 DEF Revalidate

\* A worker's record with a new place, list of packages and aftermath.
LEMMA RecordFacts ==
    ASSUME TypeOK, NEW o \in Ops, NEW pc \in PCs, NEW todo \in SUBSET Pkgs,
           NEW after \in {"retry", "fail", "stop"},
           w' = [w EXCEPT ![o] = [w[o] EXCEPT !.pc = pc, !.todo = todo, !.after = after]]
    PROVE  /\ w' \in [Ops -> Worker]
           /\ \A a \in Ops \ {o} : w'[a] = w[a]
           /\ w'[o].pc = pc /\ w'[o].row = w[o].row
<1>1. w[o] \in Worker
  BY DEF TypeOK
<1>2. [w[o] EXCEPT !.pc = pc, !.todo = todo, !.after = after] \in Worker
  BY <1>1 DEF Worker
<1>3. w'[o] = [w[o] EXCEPT !.pc = pc, !.todo = todo, !.after = after]
  BY DEF TypeOK
<1> QED
  BY <1>1, <1>2, <1>3 DEF TypeOK, Worker

\* A step that turns to the rollback.
LEMMA TurnInv ==
    ASSUME IInv, NEW o \in Ops, NEW after \in {"fail", "stop"},
           w[o].pc \in {"swap", "publish", "commit1", "commit2", "verify"},
           UNCHANGED <<db, files, daemon, lock, peek, crashes, touches>>,
           faults' \in Nat,
           w' = [w EXCEPT ![o] = [w[o] EXCEPT !.pc = "undo", !.todo = Changes(o),
                                              !.after = after]]
    PROVE  IInv'
<1>1. Changes(o) \in SUBSET Pkgs /\ "undo" \in PCs
  BY DEF Changes, PCs
<1>2. /\ w' \in [Ops -> Worker]
      /\ \A a \in Ops \ {o} : w'[a] = w[a]
      /\ w'[o].pc = "undo" /\ w'[o].row = w[o].row
  BY <1>1, RecordFacts DEF IInv
<1>3. TypeOK'
  BY <1>2 DEF IInv, TypeOK, db, files
<1>4. OnlyItsOwn(o)
  BY <1>2 DEF OnlyItsOwn, db, files
<1>5. w[o].pc \in Inside \cap Loaded /\ daemon = "up"
  BY DEF Inside, Loaded, PCs, IInv, OpInv, Idle
<1>6. OpInv(o)'
  BY <1>2, <1>5 DEF IInv, OpInv, db, Running, Proved
<1> QED
  BY <1>3, <1>4, <1>6, OwnStep

LEMMA SwapInv ==
    ASSUME IInv, NEW o \in Ops, NEW p \in Pkgs, Swap(o, p)
    PROVE  IInv'
<1>1. w[o].pc = "swap" /\ w[o] \in Worker /\ att[o] \in Attempt /\ live \in Tree
  BY DEF Swap, At, IInv, TypeOK
<1>2. CASE (live[p] = "absent") # (p \in Installs(o))
  <2>1. /\ w' = [w EXCEPT ![o] = [w[o] EXCEPT !.pc = "undo", !.todo = Changes(o),
                                             !.after = "fail"]]
        /\ UNCHANGED <<live, att>> /\ UNCHANGED <<db, manifest, daemon, lock, peek, bounds>>
    BY <1>2 DEF Swap
  <2>2. UNCHANGED <<db, files, daemon, lock, peek, crashes, touches>> /\ faults' \in Nat
    BY <2>1 DEF files, bounds, IInv, TypeOK
  <2> QED
    BY <1>1, <2>1, <2>2, TurnInv
<1>3. CASE ~((live[p] = "absent") # (p \in Installs(o)))
  <2> DEFINE pc   == IF p \in Removes(o) THEN "swap" ELSE "publish"
             todo == IF p \in Removes(o) THEN w[o].todo \ {p} ELSE w[o].todo
  <2>1. /\ w' = [w EXCEPT ![o] = [w[o] EXCEPT !.pc = pc, !.todo = todo]]
        /\ live' = [live EXCEPT ![p] = "absent"]
        /\ att' = [att EXCEPT ![o] = [att[o] EXCEPT
                      !.backup = [att[o].backup EXCEPT ![p] = live[p]]]]
    BY <1>3 DEF Swap
  <2>2. pc \in {"swap", "publish"} /\ todo \in SUBSET Pkgs
    BY <1>1 DEF Worker
  <2> HIDE DEF pc, todo
  <2>3. live' \in Tree
    BY <1>1, <2>1, TreeUpdate DEF Content
  <2>4. [att[o].backup EXCEPT ![p] = live[p]] \in Tree
    BY <1>1, TreeUpdate DEF Attempt, Tree
  <2>5. att' \in [Ops -> Attempt]
    BY <1>1, <2>1, <2>4 DEF Attempt, IInv, TypeOK
  <2>6. [w[o] EXCEPT !.pc = pc, !.todo = todo] \in Worker
    BY <1>1, <2>2 DEF Worker, PCs
  <2>7. w'[o] = [w[o] EXCEPT !.pc = pc, !.todo = todo]
    BY <2>1 DEF IInv, TypeOK
  <2>8. /\ w' \in [Ops -> Worker]
        /\ \A a \in Ops \ {o} : w'[a] = w[a]
        /\ w'[o].pc = pc /\ w'[o].row = w[o].row
    BY <1>1, <2>1, <2>6, <2>7 DEF IInv, TypeOK, Worker
  <2>9. UNCHANGED <<db, daemon, peek, bounds>> /\ lock' = lock
        /\ manifest' \in Tree \cup {None}
    BY DEF Swap, IInv, TypeOK
  <2> QED
    BY <1>1, <2>2, <2>3, <2>5, <2>8, <2>9, InsideInv DEF Loaded, Inside, Proved, PCs
<1> QED
  BY <1>2, <1>3

LEMMA PublishInv ==
    ASSUME IInv, NEW o \in Ops, NEW p \in Pkgs, Publish(o, p)
    PROVE  IInv'
<1>1. w[o].pc = "publish" /\ w[o] \in Worker /\ att[o] \in Attempt /\ live \in Tree
  BY DEF Publish, At, IInv, TypeOK
<1>2. live' \in Tree
  BY <1>1, TreeUpdate DEF Publish, Content
<1>3. [att[o] EXCEPT !.staged = att[o].staged \ {p}] \in Attempt
  BY <1>1 DEF Attempt
<1>4. att' \in [Ops -> Attempt]
  BY <1>3 DEF Publish, IInv, TypeOK
<1>5. w' = [w EXCEPT ![o] = [w[o] EXCEPT !.pc = "swap", !.todo = w[o].todo \ {p}]]
  BY DEF Publish
<1>6. [w[o] EXCEPT !.pc = "swap", !.todo = w[o].todo \ {p}] \in Worker
  BY <1>1 DEF Worker, PCs
<1>7. w'[o] = [w[o] EXCEPT !.pc = "swap", !.todo = w[o].todo \ {p}]
  BY <1>5 DEF IInv, TypeOK
<1>8. /\ w' \in [Ops -> Worker]
      /\ \A a \in Ops \ {o} : w'[a] = w[a]
      /\ w'[o].pc = "swap" /\ w'[o].row = w[o].row
  BY <1>1, <1>5, <1>6, <1>7 DEF IInv, TypeOK, Worker
<1>9. UNCHANGED <<db, daemon, peek, bounds>> /\ lock' = lock
      /\ manifest' \in Tree \cup {None}
  BY DEF Publish, IInv, TypeOK
<1> QED
  BY <1>1, <1>2, <1>4, <1>8, <1>9, InsideInv DEF Loaded, Inside, Proved, PCs

LEMMA SwappedInv ==
    ASSUME IInv, NEW o \in Ops, Swapped(o)
    PROVE  IInv'
BY MoveInv DEF Swapped, At, Loaded, Running, Inside, Proved, PCs

LEMMA CommitInv ==
    ASSUME IInv, NEW o \in Ops, CommitManifestAway(o) \/ CommitManifest(o)
    PROVE  IInv'
<1>1. CASE CommitManifestAway(o)
  <2>1. w[o].pc = "commit1" /\ Go(o, "commit2")
    BY <1>1 DEF CommitManifestAway, At
  <2>2. /\ w' \in [Ops -> Worker]
        /\ \A a \in Ops \ {o} : w'[a] = w[a]
        /\ w'[o].pc = "commit2" /\ w'[o].row = w[o].row
    BY <2>1, GoFacts DEF IInv, PCs
  <2>3. [att[o] EXCEPT !.oldManifest = manifest] \in Attempt
    BY DEF IInv, TypeOK, Attempt
  <2>4. att' \in [Ops -> Attempt]
    BY <1>1, <2>3 DEF CommitManifestAway, IInv, TypeOK
  <2> QED
    BY <1>1, <2>1, <2>2, <2>4, InsideInv DEF CommitManifestAway, IInv, TypeOK, Loaded,
       Inside, Proved, PCs
<1>2. CASE CommitManifest(o)
  <2>1. w[o].pc = "commit2" /\ Go(o, "verify")
    BY <1>2 DEF CommitManifest, At
  <2>2. /\ w' \in [Ops -> Worker]
        /\ \A a \in Ops \ {o} : w'[a] = w[a]
        /\ w'[o].pc = "verify" /\ w'[o].row = w[o].row
    BY <2>1, GoFacts DEF IInv, PCs
  <2>3. plan[o] \in Plan
    BY <2>1 DEF IInv, OpInv, TypeOK
  <2>4. manifest' \in Tree
    BY <1>2, <2>3 DEF CommitManifest, Plan
  <2> QED
    BY <1>2, <2>1, <2>2, <2>4, InsideInv DEF CommitManifest, IInv, TypeOK, Loaded,
       Inside, Proved, PCs
<1> QED
  BY <1>1, <1>2

LEMMA VerifyInv ==
    ASSUME IInv, NEW o \in Ops, Verify(o)
    PROVE  IInv'
<1>1. w[o].pc = "verify" /\ lock = o
  BY DEF Verify, At, IInv, OpInv, Inside
<1>2. plan[o] \in Plan /\ None \notin Tree
  BY <1>1, PackageApplyAssumption DEF IInv, OpInv, TypeOK
<1>3. CASE Final(o)
  <2>1. manifest # None
    BY <1>2, <1>3 DEF Final, Plan
  <2>2. [att[o] EXCEPT !.mark = "filesystem_committed"] \in Attempt
    <3>1. att[o] \in Attempt
      BY DEF IInv, TypeOK
    <3> QED
      BY <3>1 DEF Attempt, Marks
  <2>3. Go(o, "inspect") /\ att' \in [Ops -> Attempt]
    BY <1>3, <2>2 DEF Verify, IInv, TypeOK
  <2>4. /\ w' \in [Ops -> Worker]
        /\ \A a \in Ops \ {o} : w'[a] = w[a]
        /\ w'[o].pc = "inspect" /\ w'[o].row = w[o].row
    BY <2>3, GoFacts DEF IInv, PCs
  <2>5. TypeOK'
    BY <2>3, <2>4 DEF Verify, IInv, TypeOK, db, bounds
  <2>6. OnlyItsOwn(o)
    BY <2>4 DEF Verify, OnlyItsOwn, db
  <2>7. OpInv(o)'
    BY <1>1, <2>1, <2>4 DEF Verify, IInv, OpInv, db, Idle, Loaded, Running, Proved, PCs
  <2> QED
    BY <2>5, <2>6, <2>7, OwnStep
<1>4. CASE ~Final(o)
  <2>1. /\ w' = [w EXCEPT ![o] = [w[o] EXCEPT !.pc = "undo", !.todo = Changes(o),
                                             !.after = "fail"]]
        /\ UNCHANGED att /\ UNCHANGED <<db, live, manifest, daemon, lock, peek, bounds>>
    BY <1>4 DEF Verify
  <2>2. UNCHANGED <<db, files, daemon, lock, peek, crashes, touches>> /\ faults' \in Nat
    BY <2>1 DEF files, bounds, IInv, TypeOK
  <2> QED
    BY <1>1, <2>1, <2>2, TurnInv
<1> QED
  BY <1>3, <1>4

LEMMA RecheckInv ==
    ASSUME IInv, NEW o \in Ops, Recheck(o)
    PROVE  IInv'
<1>1. w[o].pc = "recheck"
  BY DEF Recheck, At
<1>2. plan[o] \in Plan /\ None \notin Tree
  BY <1>1, PackageApplyAssumption DEF IInv, OpInv, TypeOK
<1>3. CASE Final(o)
  <2>1. manifest # None
    BY <1>2, <1>3 DEF Final, Plan
  <2> QED
    BY <1>1, <1>3, <2>1, MoveInv DEF Recheck, Loaded, Running, Inside, Proved, PCs
<1>4. CASE ~Final(o)
  BY <1>1, <1>4, EndInv DEF Recheck, IInv, OpInv, TypeOK, db, bounds
<1> QED
  BY <1>3, <1>4

LEMMA InspectInv ==
    ASSUME IInv, NEW o \in Ops, Inspect(o)
    PROVE  IInv'
<1>1. /\ w[o].pc = "inspect" /\ w[o] \in Worker /\ w[o].row \in Row
      /\ manifest \in Tree /\ daemon = "up" /\ state[o] \in {"running", "cancelling"}
  BY DEF Inspect, At, IInv, OpInv, TypeOK, Idle, Loaded, Running, PCs
<1>2. [w[o].row EXCEPT !.obs = manifest] \in Row
  BY <1>1 DEF Row
<1> DEFINE new == [w[o] EXCEPT !.pc = "complete", !.row = [w[o].row EXCEPT !.obs = manifest]]
<1>3. new \in Worker /\ new.pc = "complete" /\ new.row \in Row
  BY <1>1, <1>2 DEF Worker, PCs
<1>4. w' = [w EXCEPT ![o] = new]
  BY DEF Inspect
<1> HIDE DEF new
<1>5. /\ w' \in [Ops -> Worker]
      /\ \A a \in Ops \ {o} : w'[a] = w[a]
      /\ w'[o] = new
  BY <1>3, <1>4 DEF IInv, TypeOK
<1>6. lock' \in Ops \cup {None} /\ (lock' = lock \/ lock = o)
  BY DEF Inspect, Unlock, IInv, TypeOK
<1>7. TypeOK'
  BY <1>5, <1>6 DEF Inspect, IInv, TypeOK, db, files, bounds
<1>8. OnlyItsOwn(o)
  BY <1>5, <1>6 DEF Inspect, OnlyItsOwn, db, files
<1>9. OpInv(o)'
  BY <1>1, <1>3, <1>5 DEF Inspect, IInv, OpInv, db, files, Inside, Proved
<1> QED
  BY <1>7, <1>8, <1>9, OwnStep

\* The two steps that end the task with a last word in the rows.
LEMMA EndsInv ==
    ASSUME IInv, NEW o \in Ops, Complete(o) \/ Fail(o)
    PROVE  IInv'
<1>1. /\ w[o].pc \in {"complete", "failing"} /\ EndTask(o)
      /\ UNCHANGED <<plan, files, daemon, peek, crashes, touches, cancelReq, faults>>
  BY DEF Complete, Fail, At, bounds
<1>2. /\ state[o] \in {"running", "cancelling"} /\ w[o].row \in Row /\ project \in Row
  BY <1>1 DEF IInv, OpInv, TypeOK, Loaded, Running, PCs
<1>3. project' \in Row
  BY <1>2 DEF Complete, Fail, Row
<1>4. /\ state' \in [Ops -> States \cup {"absent"}]
      /\ \A a \in Ops \ {o} : state'[a] = state[a]
      /\ state'[o] \in {"running", "cancelling", "succeeded", "failed"}
  BY <1>2 DEF Complete, Fail, SetState, IInv, TypeOK, States, Terminal
<1>5. faults' \in Nat
  BY <1>1 DEF IInv, TypeOK
<1> QED
  BY <1>1, <1>3, <1>4, <1>5, EndInv

-----------------------------------------------------------------------------
(* The rollback *)

LEMMA UndoManifestInv ==
    ASSUME IInv, NEW o \in Ops, UndoManifest(o)
    PROVE  IInv'
<1> DEFINE a == att[o]
<1>1. w[o].pc = "undo" /\ a \in Attempt /\ a.oldManifest \in Tree
  BY DEF UndoManifest, At, IInv, TypeOK, Attempt
<1>2. CASE manifest # None /\ a.newManifest # None
  <2>1. EndTask(o) /\ UNCHANGED <<att, manifest>>
    BY <1>2 DEF UndoManifest
  <2> QED
    BY <1>1, <2>1, EndInv DEF UndoManifest, IInv, OpInv, TypeOK, db, files, bounds
<1>3. CASE ~(manifest # None /\ a.newManifest # None)
  <2>1. /\ w' = w /\ lock' = lock
        /\ manifest' \in Tree \cup {None} /\ att' \in [Ops -> Attempt]
    <3>1. CASE manifest # None
      <4>1. [att[o] EXCEPT !.newManifest = manifest] \in Attempt
        BY DEF IInv, TypeOK, Attempt
      <4> QED
        BY <1>3, <3>1, <4>1 DEF UndoManifest, IInv, TypeOK
    <3>2. CASE manifest = None
      <4>1. [att[o] EXCEPT !.oldManifest = None] \in Attempt
        BY DEF IInv, TypeOK, Attempt
      <4> QED
        BY <1>1, <3>2, <4>1 DEF UndoManifest, IInv, TypeOK
    <3> QED
      BY <3>1, <3>2
  <2> QED
    BY <1>1, <2>1, InsideInv DEF UndoManifest, IInv, TypeOK, Loaded, Inside, Proved, PCs
<1> QED
  BY <1>2, <1>3

LEMMA UndoPackageInv ==
    ASSUME IInv, NEW o \in Ops, NEW p \in Pkgs, UndoPackage(o, p)
    PROVE  IInv'
<1> DEFINE a == att[o]
<1>1. /\ w[o].pc = "undo" /\ w[o] \in Worker /\ a \in Attempt /\ live \in Tree
      /\ live[p] \in Content /\ a.backup[p] \in Content
  BY DEF UndoPackage, At, IInv, TypeOK, Attempt, Tree
<1>2. /\ [a EXCEPT !.rolled = [a.rolled EXCEPT ![p] = live[p]]] \in Attempt
      /\ [a EXCEPT !.backup = [a.backup EXCEPT ![p] = "absent"]] \in Attempt
  BY <1>1, TreeUpdate DEF Attempt, Content
<1>3. /\ [live EXCEPT ![p] = "absent"] \in Tree
      /\ [live EXCEPT ![p] = a.backup[p]] \in Tree
  BY <1>1, TreeUpdate DEF Content
<1>4. ASSUME w' = [w EXCEPT ![o].todo = @ \ {p}]
      PROVE  /\ w' \in [Ops -> Worker]
             /\ \A b \in Ops \ {o} : w'[b] = w[b]
             /\ w'[o].pc = "undo" /\ w'[o].row = w[o].row
  <2>1. w' = [w EXCEPT ![o] = [w[o] EXCEPT !.todo = w[o].todo \ {p}]]
    BY <1>4
  <2>2. [w[o] EXCEPT !.todo = w[o].todo \ {p}] \in Worker
    BY <1>1 DEF Worker
  <2>3. w'[o] = [w[o] EXCEPT !.todo = w[o].todo \ {p}]
    BY <2>1 DEF IInv, TypeOK
  <2> QED
    BY <1>1, <2>1, <2>2, <2>3 DEF IInv, TypeOK, Worker
<1>5. CASE EndTask(o) /\ UNCHANGED <<live, att>>
  BY <1>1, <1>5, EndInv DEF UndoPackage, IInv, OpInv, TypeOK, db, files, bounds
<1>6. CASE ~(EndTask(o) /\ UNCHANGED <<live, att>>)
  <2>1. /\ lock' = lock /\ live' \in Tree /\ att' \in [Ops -> Attempt]
        /\ w' = w \/ w' = [w EXCEPT ![o].todo = @ \ {p}]
    <3>1. lock' = lock /\ (w' = w \/ w' = [w EXCEPT ![o].todo = @ \ {p}])
      BY <1>6 DEF UndoPackage
    <3>2. \/ UNCHANGED <<live, att>>
          \/ /\ att' = [att EXCEPT ![o] = [a EXCEPT !.rolled = [a.rolled EXCEPT ![p] = live[p]]]]
             /\ live' = [live EXCEPT ![p] = "absent"]
          \/ /\ att' = [att EXCEPT ![o] = [a EXCEPT !.backup = [a.backup EXCEPT ![p] = "absent"]]]
             /\ live' = [live EXCEPT ![p] = a.backup[p]]
      BY <1>6 DEF UndoPackage
    <3>3. live \in Tree /\ att \in [Ops -> Attempt]
      BY DEF IInv, TypeOK
    <3> HIDE DEF a
    <3> QED
      BY <1>2, <1>3, <3>1, <3>2, <3>3
  <2>2. /\ w' \in [Ops -> Worker]
        /\ \A b \in Ops \ {o} : w'[b] = w[b]
        /\ w'[o].pc = "undo" /\ w'[o].row = w[o].row
    BY <1>1, <1>4, <2>1 DEF IInv, TypeOK
  <2> QED
    BY <1>1, <2>1, <2>2, InsideInv DEF UndoPackage, IInv, TypeOK, Loaded, Inside, Proved,
       PCs
<1> QED
  BY <1>5, <1>6

LEMMA UndoneInv ==
    ASSUME IInv, NEW o \in Ops, UndoneRetry(o) \/ UndoneEnd(o)
    PROVE  IInv'
<1>1. /\ w[o].pc = "undo" /\ w[o] \in Worker /\ daemon = "up"
      /\ state[o] \in {"running", "cancelling"} /\ w[o].row \in Row
  BY DEF UndoneRetry, UndoneEnd, At, IInv, OpInv, TypeOK, Idle, Loaded, Running, PCs
<1>2. CASE UndoneRetry(o)
  <2>1. /\ w' \in [Ops -> Worker]
        /\ \A a \in Ops \ {o} : w'[a] = w[a]
        /\ w'[o].pc = "create" /\ w'[o].row = w[o].row
    BY <1>2, GoFacts DEF UndoneRetry, IInv, PCs
  <2>2. [att[o] EXCEPT !.mark = "rolled_back"] \in Attempt
    BY DEF IInv, TypeOK, Attempt, Marks
  <2>3. att' \in [Ops -> Attempt]
    BY <1>2, <2>2 DEF UndoneRetry, IInv, TypeOK
  <2>4. lock' \in Ops \cup {None} /\ (lock' = lock \/ lock = o)
    BY <1>2 DEF UndoneRetry, Unlock, IInv, TypeOK
  <2>5. TypeOK'
    BY <1>2, <2>1, <2>3, <2>4 DEF UndoneRetry, IInv, TypeOK, db, bounds
  <2>6. OnlyItsOwn(o)
    BY <1>2, <2>1, <2>4 DEF UndoneRetry, OnlyItsOwn, db
  <2>7. OpInv(o)'
    BY <1>1, <1>2, <2>1 DEF UndoneRetry, IInv, OpInv, db, Inside, Proved
  <2> QED
    BY <2>5, <2>6, <2>7, OwnStep
<1>3. CASE UndoneEnd(o)
  <2>1. CASE Go(o, "failing") /\ Unlock(o)
    BY <1>1, <1>3, <2>1, MoveInv DEF UndoneEnd, Loaded, Running, Inside, Proved, PCs
  <2>2. CASE EndTask(o)
    BY <1>1, <1>3, <2>2, EndInv DEF UndoneEnd, IInv, OpInv, TypeOK, db, bounds
  <2> QED
    BY <1>3, <2>1, <2>2 DEF UndoneEnd
<1> QED
  BY <1>2, <1>3

-----------------------------------------------------------------------------
(* Failing steps *)

LEMMA FailingFacts ==
    ASSUME IInv, NEW o \in Ops, NEW points, "idle" \notin points, Failing(o, points)
    PROVE  /\ w[o].pc \in points /\ w[o].pc # "idle" /\ faults' \in Nat
           /\ daemon = "up" /\ state[o] # "interrupted"
           /\ UNCHANGED <<db, files, daemon, peek, crashes, touches>>
BY DEF Failing, IInv, TypeOK, OpInv, Idle

LEMMA StopErrorInv ==
    ASSUME IInv, NEW o \in Ops, StopError(o)
    PROVE  IInv'
<1>1. /\ w[o].pc # "idle" /\ faults' \in Nat /\ daemon = "up" /\ state[o] # "interrupted"
      /\ UNCHANGED <<db, files, daemon, peek, crashes, touches>> /\ EndTask(o)
  BY FailingFacts DEF StopError
<1> QED
  BY <1>1, EndInv DEF db, IInv, TypeOK

LEMMA FailErrorInv ==
    ASSUME IInv, NEW o \in Ops, FailError(o)
    PROVE  IInv'
<1>1. /\ w[o].pc \in {"fetch", "extract", "cancel1", "revalidate", "cancel2", "intent",
                      "inspect"}
      /\ faults' \in Nat /\ daemon = "up"
      /\ UNCHANGED <<db, files, daemon, peek, crashes, touches>>
      /\ Go(o, "failing") /\ Unlock(o)
  BY FailingFacts DEF FailError
<1>2. /\ w' \in [Ops -> Worker]
      /\ \A a \in Ops \ {o} : w'[a] = w[a]
      /\ w'[o].pc = "failing" /\ w'[o].row = w[o].row
  BY <1>1, GoFacts DEF IInv, PCs
<1>3. lock' \in Ops \cup {None} /\ (lock' = lock \/ lock = o)
  BY <1>1 DEF Unlock, IInv, TypeOK
<1>4. TypeOK'
  BY <1>1, <1>2, <1>3 DEF IInv, TypeOK, db, files
<1>5. OnlyItsOwn(o)
  BY <1>1, <1>2, <1>3 DEF OnlyItsOwn, db, files
<1>6. w[o].pc \in Loaded
  BY <1>1 DEF Loaded, PCs
<1>7. OpInv(o)'
  BY <1>1, <1>2, <1>6 DEF IInv, OpInv, db, Inside, Proved, Running
<1> QED
  BY <1>4, <1>5, <1>7, OwnStep

LEMMA UndoErrorInv ==
    ASSUME IInv, NEW o \in Ops, UndoError(o)
    PROVE  IInv'
<1>1. /\ w[o].pc \in {"swap", "publish", "commit1", "commit2", "verify"}
      /\ faults' \in Nat
      /\ UNCHANGED <<db, files, daemon, peek, crashes, touches>> /\ lock' = lock
  BY FailingFacts DEF UndoError
<1>2. CASE At(o, "verify")
  BY <1>1, <1>2, TurnInv DEF UndoError
<1>3. CASE ~At(o, "verify")
  BY <1>1, <1>3, TurnInv DEF UndoError
<1> QED
  BY <1>2, <1>3

-----------------------------------------------------------------------------
LEMMA WorkerStepInv ==
    ASSUME IInv, NEW o \in Ops, WorkerStep(o)
    PROVE  IInv'
<1>1. CASE \/ CheckCancelled(o, "look", "begin")
           \/ CheckCancelled(o, "cancel1", "lockApply")
           \/ CheckCancelled(o, "cancel2", "prepare")
  BY <1>1, CheckCancelledInv DEF PCs
<1>2. CASE FinishCancelled(o) \/ Begin(o) \/ Load(o)
  BY <1>2, FinishCancelledInv, BeginInv, LoadInv
<1>3. CASE CreateAttempt(o) \/ Extract(o)
  BY <1>3, CreateAttemptInv, ExtractInv
<1>4. CASE \/ Mark(o, "fetch", "archive_ready", "extract", {})
           \/ Mark(o, "prepare", "prepared", "intent", {})
           \/ Mark(o, "intent", "packages_replaced", "swap", Changes(o))
           \/ Mark(o, "commitIntent", "vpm_manifest_committed", "commit1", {})
  <2>1. Changes(o) \in SUBSET Pkgs /\ {} \in SUBSET Pkgs
    BY DEF Changes
  <2> QED
    BY <1>4, <2>1, MarkInv DEF PCs, Marks
<1>5. CASE \/ Lock(o, "lockApply", "revalidate")
           \/ Lock(o, "lockFinal", "recheck")
           \/ Lock(o, "lockUndo", "undo")
  BY <1>5, LockInv
<1>6. CASE \E p \in Pkgs : Swap(o, p) \/ Publish(o, p) \/ UndoPackage(o, p)
  BY <1>6, SwapInv, PublishInv, UndoPackageInv
<1>7. CASE Revalidate(o) \/ Swapped(o) \/ CommitManifestAway(o) \/ CommitManifest(o)
  BY <1>7, RevalidateInv, SwappedInv, CommitInv
<1>8. CASE Verify(o) \/ Recheck(o) \/ Inspect(o) \/ Complete(o) \/ Fail(o)
  BY <1>8, VerifyInv, RecheckInv, InspectInv, EndsInv
<1>9. CASE UndoManifest(o) \/ UndoneRetry(o) \/ UndoneEnd(o)
  BY <1>9, UndoManifestInv, UndoneInv
<1> QED
  BY <1>1, <1>2, <1>3, <1>4, <1>5, <1>6, <1>7, <1>8, <1>9 DEF WorkerStep

LEMMA NextInv == IInv /\ [Next]_vars => IInv'
<1>1. SUFFICES ASSUME IInv, [Next]_vars PROVE IInv'
  OBVIOUS
<1>2. CASE Request
  BY <1>1, <1>2, MakePlanInv, AcceptPlanInv, CancelInv, TouchInv DEF Request
<1>3. CASE \E o \in Ops : WorkerStep(o)
  BY <1>1, <1>3, WorkerStepInv
<1>4. CASE Fault
  BY <1>1, <1>4, CrashInv, StopErrorInv, FailErrorInv, UndoErrorInv DEF Fault
<1>5. CASE Restart
  BY <1>1, <1>5, StartInv, RecoverRowInv, ReadyInv DEF Restart
<1>6. CASE UNCHANGED vars
  BY <1>1, <1>6, StutterInv
<1> QED
  BY <1>1, <1>2, <1>3, <1>4, <1>5, <1>6 DEF Next

LEMMA Invariance == Spec => []IInv
<1> QED
  BY InitInv, NextInv, PTL DEF Spec

-----------------------------------------------------------------------------
(* Theorems *)

\* Every row, attempt directory, worker and project file keeps its type; in
\* particular a worker that reports success has read a manifest that was there.
THEOREM TypeCorrect == Spec => []TypeOK
<1>1. IInv => TypeOK
  BY DEF IInv
<1> QED
  BY <1>1, Invariance, PTL

\* Workers never meet inside the section that reads the project anew, renames,
\* verifies or rolls back: rollback_attempt and execute run one at a time.
THEOREM OneWriter ==
    Spec => [](\A a, b \in Ops : w[a].pc \in Inside /\ w[b].pc \in Inside => a = b)
<1>1. IInv => \A a, b \in Ops : w[a].pc \in Inside /\ w[b].pc \in Inside => a = b
  BY DEF IInv, OpInv
<1> QED
  BY <1>1, Invariance, PTL

-----------------------------------------------------------------------------
(* What steps may do *)

\* Most steps leave the states alone; a worker that writes one is past Begin,
\* where a cancel can only have made it cancelling.
LEMMA StateSteps ==
    ASSUME IInv, [Next]_vars, NEW o \in Ops, state'[o] # state[o]
    PROVE  \/ AcceptPlan(o) \/ Cancel(o) \/ RecoverRow(o)
           \/ FinishCancelled(o) \/ Begin(o) \/ Complete(o) \/ Fail(o)
<1>1. state \in [Ops -> States \cup {"absent"}]
  BY DEF IInv, TypeOK
<1>2. CASE Request
  <2>1. ASSUME NEW a \in Ops, NEW target \in Tree, MakePlan(a, target) PROVE FALSE
    BY <2>1 DEF MakePlan
  <2>2. ASSUME NEW a \in Ops, AcceptPlan(a) PROVE AcceptPlan(o)
    BY <1>1, <2>2 DEF AcceptPlan
  <2>3. ASSUME NEW a \in Ops, Cancel(a) PROVE Cancel(o)
    BY <1>1, <2>3 DEF Cancel
  <2>4. ~SetFavorite /\ ~InspectProject /\ ~RefreshProject
    BY DEF SetFavorite, InspectProject, RefreshProject, db
  <2> QED
    BY <1>2, <2>1, <2>2, <2>3, <2>4 DEF Request
<1>3. CASE \E a \in Ops : WorkerStep(a)
  <2>1. PICK a \in Ops : WorkerStep(a)
    BY <1>3
  <2>2. /\ ~CheckCancelled(a, "look", "begin") /\ ~CheckCancelled(a, "cancel1", "lockApply")
        /\ ~CheckCancelled(a, "cancel2", "prepare")
    BY DEF CheckCancelled, db
  <2>3. /\ ~Load(a) /\ ~CreateAttempt(a) /\ ~Extract(a) /\ ~Revalidate(a) /\ ~Swapped(a)
        /\ ~CommitManifestAway(a) /\ ~CommitManifest(a) /\ ~Verify(a) /\ ~Recheck(a)
        /\ ~Inspect(a) /\ ~UndoManifest(a) /\ ~UndoneRetry(a) /\ ~UndoneEnd(a)
    BY DEF Load, CreateAttempt, Extract, Revalidate, Swapped, CommitManifestAway,
       CommitManifest, Verify, Recheck, Inspect, UndoManifest, UndoneRetry, UndoneEnd, db
  <2>4. /\ ~Mark(a, "fetch", "archive_ready", "extract", {})
        /\ ~Mark(a, "prepare", "prepared", "intent", {})
        /\ ~Mark(a, "intent", "packages_replaced", "swap", Changes(a))
        /\ ~Mark(a, "commitIntent", "vpm_manifest_committed", "commit1", {})
    BY DEF Mark, db
  <2>5. /\ ~Lock(a, "lockApply", "revalidate") /\ ~Lock(a, "lockFinal", "recheck")
        /\ ~Lock(a, "lockUndo", "undo")
    BY DEF Lock, db
  <2>6. \A p \in Pkgs : ~Swap(a, p) /\ ~Publish(a, p) /\ ~UndoPackage(a, p)
    BY DEF Swap, Publish, UndoPackage, db
  <2>7. FinishCancelled(a) \/ Begin(a) \/ Complete(a) \/ Fail(a)
    BY <2>1, <2>2, <2>3, <2>4, <2>5, <2>6 DEF WorkerStep
  <2>8. a = o
    BY <1>1, <2>7 DEF FinishCancelled, Begin, Complete, Fail, SetState
  <2> QED
    BY <2>7, <2>8
<1>4. CASE Fault
  BY <1>4 DEF Fault, Crash, StopError, FailError, UndoError, Failing, db
<1>5. CASE Restart
  <2>1. ~Start /\ ~Ready
    BY DEF Start, Ready, db
  <2>2. ASSUME NEW a \in Ops, RecoverRow(a) PROVE RecoverRow(o)
    BY <1>1, <2>2 DEF RecoverRow, SetState
  <2> QED
    BY <1>5, <2>1, <2>2 DEF Restart
<1>6. CASE UNCHANGED vars
  BY <1>6 DEF vars, db
<1> QED
  BY <1>2, <1>3, <1>4, <1>5, <1>6 DEF Next

LEMMA StepIsLegal ==
    ASSUME IInv, [Next]_vars, NEW o \in Ops, state'[o] # state[o]
    PROVE  state[o] = "absent" \/ CanTransition(state[o], state'[o])
<1>1. /\ state \in [Ops -> States \cup {"absent"}]
      /\ w[o].pc \in Running => state[o] \in {"running", "cancelling"}
  BY DEF IInv, TypeOK, OpInv
<1>2. CASE AcceptPlan(o)
  BY <1>2 DEF AcceptPlan
<1>3. CASE Cancel(o)
  <2>1. state[o] \notin Terminal \cup {"absent", "interrupted"}
    BY <1>3 DEF Cancel, IInv, OpInv
  <2>2. state'[o] = IF state[o] = "queued" THEN "cancelled" ELSE "cancelling"
    BY <1>1, <1>3 DEF Cancel
  <2> QED
    BY <1>1, <2>1, <2>2 DEF CanTransition, States, Terminal
<1>4. CASE RecoverRow(o)
  <2>1. state'[o] = IF state[o] = "interrupted" THEN "recovering" ELSE "interrupted"
    BY <1>1, <1>4 DEF RecoverRow, SetState
  <2> QED
    BY <1>4, <2>1 DEF RecoverRow, CanTransition
<1>5. CASE FinishCancelled(o)
  BY <1>1, <1>5 DEF FinishCancelled, SetState
<1>6. CASE Begin(o)
  BY <1>1, <1>6 DEF Begin, SetState, CanTransition
<1>7. CASE Complete(o) \/ Fail(o)
  <2>1. state[o] \in {"running", "cancelling"}
    BY <1>1, <1>7 DEF Complete, Fail, At, Running, Loaded, PCs
  <2>2. state'[o] \in {"succeeded", "failed"}
    BY <1>1, <1>7, <2>1 DEF Complete, Fail, SetState, Terminal
  <2> QED
    BY <2>1, <2>2 DEF CanTransition, Terminal
<1> QED
  BY <1>2, <1>3, <1>4, <1>5, <1>6, <1>7, StateSteps

\* The Operation row moves along the frozen transitions only, although neither
\* transition_recovery nor fail_package_apply asks can_transition_to.
THEOREM Transitions == Spec => LegalTransitions
<1>1. IInv /\ [Next]_vars => [\A o \in Ops : state'[o] # state[o] =>
         state[o] = "absent" \/ CanTransition(state[o], state'[o])]_vars
  BY StepIsLegal
<1> QED
  BY <1>1, Invariance, PTL DEF Spec, LegalTransitions

\* The first rename of an attempt finds the project exactly as the plan saw it:
\* between the revalidation and it nobody else can hold the Project lock.
THEOREM SwapStart == Spec => SwapStartsFromThePlan
<1>1. IInv /\ [Next]_vars =>
        [\A o \in Ops : At(o, "intent") /\ w'[o].pc = "swap" =>
           manifest # None /\ Snapshot = plan[o].seen]_vars
  BY DEF IInv, OpInv, At, Proved
<1> QED
  BY <1>1, Invariance, PTL DEF Spec, SwapStartsFromThePlan

-----------------------------------------------------------------------------
(* The project directory, while one plan is accepted *)

\* All that PackageApply promises of the files rests on one worker at a time
\* having something to roll back.  accept_package_plan does not see to that, so
\* these theorems are about behaviours in which one plan was accepted so far;
\* any number of others may have been made.
Only(o) == state[o] # "absent" /\ \A a \in Ops \ {o} : state[a] = "absent"

NoneAccepted == \A o \in Ops : state[o] = "absent"

OneAccepted == \A a, b \in Ops : state[a] # "absent" /\ state[b] # "absent" => a = b

Original  == [p \in Pkgs |-> IF p \in Installed THEN "orig" ELSE "absent"]
Untouched == live = Original /\ manifest = Original

\* Markers of an attempt that has, or may have, moved project files.
Wrote == Destructive \cup {"filesystem_committed"}

\* Places of a worker whose attempt is complete on disk but has moved nothing,
\* of one that swaps and commits, and of one that has committed.
Preparing == {"fetch", "extract", "cancel1", "lockApply", "revalidate", "cancel2",
              "prepare", "intent"}
Writing   == {"swap", "publish", "commitIntent", "commit1", "commit2", "verify"}
Committed == {"inspect", "complete", "lockFinal", "recheck"}

\* A plan made before anything was written.
PlanInv(o) ==
    plan[o] # None =>
        /\ plan[o].seen = [manifest |-> Original, trees |-> Original]
        /\ \A p \in Pkgs : plan[o].target[p] \in {Original[p], o, "absent"}

\* Which marker the newest attempt has where the worker stands.
MarkerInv(o) ==
    /\ w[o].pc \in Preparing \cup {"create"} => att[o].mark \notin Wrote
    /\ w[o].pc \in Writing \cup {"lockUndo", "undo"} => att[o].mark \in Destructive
    /\ w[o].pc \in Committed => att[o].mark = "filesystem_committed"
    /\ state[o] = "succeeded" => att[o].mark = "filesystem_committed"
    /\ state[o] = "queued" => att[o].mark = "none"

\* What the attempt directory holds of the manifest and of package p ...
ManifestEvidence(o) ==
    /\ att[o].oldManifest \in {Original, None}
    /\ att[o].oldManifest = None => manifest = Original
    /\ att[o].oldManifest # None /\ att[o].newManifest # None => manifest = None

PackageEvidence(o, p) ==
    /\ p \notin Changes(o) => live[p] = Original[p]
    /\ p \in Installs(o) /\ live[p] # "absent" =>
          p \notin att[o].staged /\ att[o].rolled[p] = "absent"
    /\ p \in Changes(o) \ Installs(o) =>
          /\ att[o].backup[p] \in {"absent", Original[p]}
          /\ att[o].backup[p] = "absent" => live[p] = Original[p]
          /\ att[o].backup[p] # "absent" /\ live[p] # "absent" =>
                att[o].rolled[p] = "absent"

\* ... and how the files are, by marker.
FilesInv(o) ==
    /\ att[o].mark \in Destructive =>
          ManifestEvidence(o) /\ \A p \in Pkgs : PackageEvidence(o, p)
    /\ att[o].mark = "filesystem_committed" =>
          live = plan[o].target /\ manifest = plan[o].target
    /\ att[o].mark \notin Wrote => Untouched

\* How far the swap is: packages still in the loop, the one whose directory
\* was just renamed away, packages that are done.
Half(o, p) == w[o].pc = "publish" /\ First(w[o].todo, p)

PackageSwap(o, p) ==
    /\ p \in Changes(o) \ w[o].todo => live[p] = plan[o].target[p]
    /\ Half(o, p) => /\ p \notin Removes(o)
                     /\ live[p] = "absent" /\ att[o].backup[p] = Original[p]
    /\ p \in w[o].todo /\ ~Half(o, p) =>
          live[p] = Original[p] /\ att[o].backup[p] = "absent"

\* How far the attempt and its rollback are.
ProgressInv(o) ==
    /\ w[o].pc \in Preparing =>
          /\ att[o].backup = Nothing /\ att[o].rolled = Nothing
          /\ att[o].oldManifest = None /\ att[o].newManifest = None
    /\ w[o].pc \in Writing =>
          /\ att[o].rolled = Nothing /\ att[o].newManifest = None
          /\ w[o].pc \in {"swap", "publish"} =>
                w[o].todo \subseteq Changes(o) /\ \A p \in Pkgs : PackageSwap(o, p)
          /\ w[o].pc \notin {"swap", "publish"} =>
                \A p \in Changes(o) : live[p] = plan[o].target[p]
          /\ w[o].pc \in {"swap", "publish", "commitIntent", "commit1"} =>
                manifest = Original /\ att[o].oldManifest = None
          /\ w[o].pc = "commit2" => manifest = None
          /\ w[o].pc = "verify"  => manifest = plan[o].target
          /\ w[o].pc \in {"commit2", "verify"} => att[o].oldManifest = Original
    /\ w[o].pc = "undo" =>
          /\ w[o].todo \subseteq Changes(o)
          /\ \A p \in Changes(o) \ w[o].todo : live[p] = Original[p]
    /\ (w[o].pc = "failing" \/ state[o] = "failed") /\ att[o].mark \in Destructive =>
          Untouched

\* What the row says, before the worker begins and once it has ended.
WordInv(o) ==
    /\ state[o] \in {"queued", "running"} => ~cancelReq[o]
    /\ w[o].pc = "begin" /\ state[o] = "recovering" => ~cancelReq[o]
    /\ w[o].pc = "cancelled" => cancelReq[o]
    /\ w[o].pc \in {"look", "begin"} =>
          state[o] \in {"queued", "recovering", "cancelling", "cancelled"}
    /\ state[o] \in {"failed", "succeeded"} => w[o].pc = "idle"
    /\ crashes = 0 =>
          /\ w[o].pc \in {"look", "begin", "load"} => att[o].mark = "none"
          /\ w[o].pc = "cancelled" \/ state[o] = "cancelled" => att[o].mark \notin Wrote
    /\ w[o].after = "stop" => faults > 0
    /\ Abandoned(o) => \/ faults > 0
                       \/ project.rev # plan[o].rev
                       \/ state[o] = "cancelling"
                       \/ att[o].mark = "unmarked" /\ crashes > 0

SoloOp(o) ==
    PlanInv(o) /\ MarkerInv(o) /\ FilesInv(o) /\ ProgressInv(o) /\ WordInv(o)

\* Before and after a plan is accepted.
SoloInv ==
    /\ daemon # "up" => crashes > 0
    /\ \A o \in Ops : /\ plan[o] # None => plan[o].rev <= project.rev
                      /\ state[o] = "absent" => w[o] = Idle /\ att[o] = NoAttempt /\ ~cancelReq[o]
    /\ NoneAccepted => Untouched /\ \A o \in Ops : PlanInv(o)
    /\ \A o \in Ops : Only(o) => SoloOp(o)

-----------------------------------------------------------------------------
(* What the plan and the place of a worker say *)

LEMMA OriginalIsTree == Original \in Tree /\ Original # None
BY PackageApplyAssumption DEF Original, Tree, Content

\* The change set of a plan made before anything was written.
LEMMA ChangeFacts ==
    ASSUME IInv, NEW o \in Ops, plan[o] # None, PlanInv(o)
    PROVE  /\ plan[o].target \in Tree /\ Base(o) = Original
           /\ Changes(o) \subseteq Pkgs /\ o # "absent"
           /\ \A p \in Pkgs :
                /\ p \in Changes(o) <=> plan[o].target[p] # Original[p]
                /\ p \in Installs(o) <=> p \in Changes(o) /\ Original[p] = "absent"
                /\ p \in Removes(o) <=> p \in Changes(o) /\ plan[o].target[p] = "absent"
                /\ p \in Changes(o) \ Removes(o) => plan[o].target[p] = o
<1>1. plan[o] \in Plan
  BY DEF IInv, TypeOK
<1>2. Base(o) = Original
  BY DEF PlanInv, Base
<1> QED
  BY <1>1, <1>2, PackageApplyAssumption DEF PlanInv, Plan, Changes, Installs, Removes

LEMMA PlanSame ==
    ASSUME NEW o \in Ops, plan'[o] = plan[o]
    PROVE  /\ Changes(o)' = Changes(o) /\ Installs(o)' = Installs(o)
           /\ Removes(o)' = Removes(o) /\ Base(o)' = Base(o)
           /\ PlanInv(o)' = PlanInv(o)
BY DEF Changes, Installs, Removes, Base, PlanInv

LEMMA FilesSame ==
    ASSUME NEW o \in Ops, plan'[o] = plan[o], UNCHANGED <<live, manifest>>,
           att'[o] = att[o], FilesInv(o)
    PROVE  FilesInv(o)'
<1>1. \A p \in Pkgs : PackageEvidence(o, p) => PackageEvidence(o, p)'
  BY PlanSame DEF PackageEvidence
<1>2. ManifestEvidence(o) => ManifestEvidence(o)'
  BY DEF ManifestEvidence
<1> QED
  BY <1>1, <1>2 DEF FilesInv, Untouched

LEMMA Busy ==
    ASSUME NEW o \in Ops, WorkerStep(o) \/ StopError(o) \/ FailError(o) \/ UndoError(o)
    PROVE  w[o].pc # "idle"
<1>1. CASE StopError(o) \/ FailError(o) \/ UndoError(o)
  BY <1>1 DEF StopError, FailError, UndoError, Failing
<1>2. CASE WorkerStep(o)
  <2>1. CASE \E p \in Pkgs : Swap(o, p) \/ Publish(o, p) \/ UndoPackage(o, p)
    BY <2>1 DEF Swap, Publish, UndoPackage, At
  <2>2. CASE \/ Swapped(o) \/ CommitManifestAway(o) \/ CommitManifest(o) \/ Verify(o)
             \/ Recheck(o) \/ Inspect(o) \/ Complete(o) \/ Fail(o)
             \/ UndoManifest(o) \/ UndoneRetry(o) \/ UndoneEnd(o)
    BY <2>2 DEF Swapped, CommitManifestAway, CommitManifest, Verify, Recheck, Inspect,
       Complete, Fail, UndoManifest, UndoneRetry, UndoneEnd, At
  <2> QED
    BY <1>2, <2>1, <2>2 DEF WorkerStep, CheckCancelled, FinishCancelled, Begin, Load,
       CreateAttempt, Mark, Extract, Lock, Revalidate, At
<1> QED
  BY <1>1, <1>2

-----------------------------------------------------------------------------
(* Steps that are no worker's *)

LEMMA InitSolo == Init => SoloInv
<1>1. SUFFICES ASSUME Init PROVE SoloInv
  OBVIOUS
<1>2. live = Original /\ manifest = Original
  BY <1>1 DEF Init, Original
<1>3. \A o \in Ops : plan[o] = None /\ state[o] = "absent" /\ w[o] = Idle /\ att[o] = NoAttempt
                     /\ ~cancelReq[o]
  BY <1>1 DEF Init
<1> QED
  BY <1>1, <1>2, <1>3 DEF Init, SoloInv, PlanInv, Only, Untouched

\* A step that touches neither the files nor the Operation.
LEMMA OpSame ==
    ASSUME NEW o \in Ops, SoloOp(o), plan'[o] = plan[o], UNCHANGED <<live, manifest>>,
           att'[o] = att[o], w'[o] = w[o], state'[o] = state[o], cancelReq'[o] = cancelReq[o],
           UNCHANGED <<daemon, crashes>>, faults > 0 => faults' > 0,
           Unfinished(o) /\ project.rev # plan[o].rev => project'.rev # plan[o].rev
    PROVE  SoloOp(o)'
<1>1. PlanInv(o)' /\ FilesInv(o)'
  BY PlanSame, FilesSame DEF SoloOp
<1>2. ProgressInv(o)'
  <2>1. \A p \in Pkgs : PackageSwap(o, p) => PackageSwap(o, p)'
    BY PlanSame DEF PackageSwap, Half, First
  <2> QED
    BY <2>1, PlanSame DEF SoloOp, ProgressInv, Untouched
<1>3. MarkerInv(o)'
  BY DEF SoloOp, MarkerInv
<1>4. WordInv(o)'
  BY DEF SoloOp, WordInv, Abandoned, Unfinished, At
<1> QED
  BY <1>1, <1>2, <1>3, <1>4 DEF SoloOp

\* The row of an unfinished plan that was overtaken stays overtaken.
LEMMA RevisionsGrow ==
    ASSUME IInv, SoloInv, project' \in Row, project'.rev >= project.rev, NEW o \in Ops
    PROVE  /\ plan[o] # None => plan[o].rev <= project'.rev
           /\ Unfinished(o) /\ project.rev # plan[o].rev => project'.rev # plan[o].rev
<1>1. Unfinished(o) => plan[o] # None
  BY DEF Unfinished, IInv, OpInv
<1>2. plan[o] # None => plan[o].rev \in Nat /\ plan[o].rev <= project.rev
  BY DEF IInv, TypeOK, Plan, SoloInv
<1>3. project.rev \in Nat /\ project'.rev \in Nat
  BY DEF IInv, TypeOK, Row
<1> QED
  BY <1>1, <1>2, <1>3

LEMMA StutterSolo == SoloInv /\ UNCHANGED vars => SoloInv'
<1>1. SUFFICES ASSUME SoloInv, UNCHANGED vars PROVE SoloInv'
  OBVIOUS
<1>2. UNCHANGED <<state, cancelReq, plan, project, live, manifest, att, daemon, w, lock, peek,
                  crashes, faults, touches>>
  BY <1>1 DEF vars, db, files, bounds
<1>3. \A o \in Ops : (PlanInv(o) => PlanInv(o)') /\ (SoloOp(o) => SoloOp(o)')
  BY <1>2, PlanSame, OpSame
<1>4. /\ NoneAccepted' <=> NoneAccepted
      /\ \A o \in Ops : Only(o)' <=> Only(o)
      /\ Untouched' <=> Untouched
  BY <1>2 DEF NoneAccepted, Only, Untouched
<1> QED
  BY <1>1, <1>2, <1>3, <1>4 DEF SoloInv

LEMMA MakePlanSolo ==
    ASSUME IInv, SoloInv, NEW o \in Ops, NEW target \in Tree, MakePlan(o, target)
    PROVE  SoloInv'
<1>1. /\ UNCHANGED <<state, cancelReq, project, live, manifest, att, daemon, w, crashes, faults>>
      /\ plan' = [plan EXCEPT ![o] =
                   [rev |-> project.rev, seen |-> Snapshot, target |-> target]]
      /\ plan[o] = None /\ \A p \in Pkgs : target[p] \in {manifest[p], o, "absent"}
  BY DEF MakePlan, files, bounds
<1>2. /\ plan'[o] = [rev |-> project.rev, seen |-> Snapshot, target |-> target]
      /\ \A a \in Ops \ {o} : plan'[a] = plan[a]
  BY <1>1 DEF IInv, TypeOK
<1>3. state[o] = "absent"
  BY <1>1 DEF IInv, OpInv
<1>4. ASSUME NoneAccepted PROVE PlanInv(o)'
  <2>1. manifest = Original /\ live = Original
    BY <1>4 DEF SoloInv, Untouched
  <2>2. Snapshot = [manifest |-> Original, trees |-> Original]
    BY <2>1 DEF Snapshot, Original
  <2> QED
    BY <1>1, <1>2, <2>1, <2>2 DEF PlanInv
<1>5. \A a \in Ops \ {o} : (PlanInv(a) => PlanInv(a)') /\ (SoloOp(a) => SoloOp(a)')
  BY <1>1, <1>2, PlanSame, OpSame
<1>6. /\ NoneAccepted' <=> NoneAccepted
      /\ ~Only(o)' /\ \A a \in Ops : Only(a)' <=> Only(a)
  BY <1>1, <1>3 DEF NoneAccepted, Only
<1>7. project.rev <= project.rev
  BY DEF IInv, TypeOK, Row
<1> QED
  BY <1>1, <1>2, <1>4, <1>5, <1>6, <1>7 DEF SoloInv, Untouched

LEMMA AcceptPlanSolo ==
    ASSUME IInv, SoloInv, NEW o \in Ops, AcceptPlan(o)
    PROVE  SoloInv'
<1>1. /\ UNCHANGED <<cancelReq, plan, project, live, manifest, att, daemon, crashes, faults>>
      /\ state' = [state EXCEPT ![o] = "queued"] /\ w' = [w EXCEPT ![o].pc = "look"]
      /\ state[o] = "absent" /\ daemon = "up"
  BY DEF AcceptPlan, files, bounds
<1>2. /\ state'[o] = "queued" /\ w'[o] = [Idle EXCEPT !.pc = "look"]
      /\ \A a \in Ops \ {o} : state'[a] = state[a] /\ w'[a] = w[a]
  BY <1>1 DEF IInv, TypeOK, SoloInv
<1>3. ~NoneAccepted' /\ \A a \in Ops \ {o} : ~Only(a)'
  BY <1>2 DEF NoneAccepted, Only
<1>4. ASSUME Only(o)' PROVE SoloOp(o)'
  <2>1. NoneAccepted /\ PlanInv(o) /\ Untouched /\ ~cancelReq[o] /\ att[o] = NoAttempt
    BY <1>1, <1>2, <1>4 DEF SoloInv, NoneAccepted, Only
  <2>2. att[o].mark = "none" /\ w'[o].pc = "look" /\ w'[o].after = "retry"
    BY <1>2, <2>1 DEF NoAttempt, NewAttempt, Idle
  <2>3. PlanInv(o)' /\ MarkerInv(o)'
    BY <1>1, <1>2, <2>1, <2>2, PlanSame
       DEF MarkerInv, Preparing, Writing, Committed, Wrote, Destructive
  <2>4. FilesInv(o)' /\ ProgressInv(o)'
    BY <1>1, <1>2, <2>1, <2>2
       DEF FilesInv, ProgressInv, Untouched, Preparing, Writing, Wrote, Destructive
  <2>5. WordInv(o)'
    BY <1>1, <1>2, <2>1, <2>2 DEF WordInv, Abandoned, At
  <2> QED
    BY <2>3, <2>4, <2>5 DEF SoloOp
<1> QED
  BY <1>1, <1>2, <1>3, <1>4 DEF SoloInv

LEMMA CancelSolo ==
    ASSUME IInv, SoloInv, NEW o \in Ops, Cancel(o)
    PROVE  SoloInv'
<1>1. /\ UNCHANGED <<plan, project, live, manifest, att, daemon, w, crashes, faults>>
      /\ state[o] \notin Terminal \cup {"absent"}
  BY DEF Cancel, files, bounds
<1>2. /\ state'[o] = IF state[o] = "queued" THEN "cancelled" ELSE "cancelling"
      /\ cancelReq'[o]
      /\ \A a \in Ops \ {o} : state'[a] = state[a] /\ cancelReq'[a] = cancelReq[a]
  BY DEF Cancel, IInv, TypeOK
<1>3. /\ ~NoneAccepted' /\ \A a \in Ops \ {o} : ~Only(a)'
      /\ Only(o)' => Only(o)
  BY <1>1, <1>2 DEF NoneAccepted, Only
<1>4. ASSUME SoloOp(o) PROVE SoloOp(o)'
  <2>1. PlanInv(o)' /\ FilesInv(o)'
    BY <1>1, <1>4, PlanSame, FilesSame DEF SoloOp
  <2>2. MarkerInv(o)'
    BY <1>1, <1>2, <1>4 DEF SoloOp, MarkerInv
  <2>3. ProgressInv(o)'
    <3>1. \A p \in Pkgs : PackageSwap(o, p) => PackageSwap(o, p)'
      BY <1>1, PlanSame DEF PackageSwap, Half, First
    <3> QED
      BY <1>1, <1>2, <1>4, <3>1, PlanSame DEF SoloOp, ProgressInv, Untouched
  <2>4. crashes = 0 /\ state'[o] = "cancelled" => att[o].mark \notin Wrote
    BY <1>2, <1>4 DEF SoloOp, MarkerInv, Wrote, Destructive
  <2>5. WordInv(o)'
    BY <1>1, <1>2, <1>4, <2>4 DEF SoloOp, WordInv, Abandoned, Unfinished, Terminal, At
  <2> QED
    BY <2>1, <2>2, <2>3, <2>5 DEF SoloOp
<1> QED
  BY <1>1, <1>2, <1>3, <1>4 DEF SoloInv

LEMMA TouchSolo ==
    ASSUME IInv, SoloInv, SetFavorite \/ InspectProject \/ RefreshProject
    PROVE  SoloInv'
<1>1. UNCHANGED <<state, cancelReq, plan, live, manifest, att, daemon, w, lock, crashes, faults>>
  BY DEF SetFavorite, InspectProject, RefreshProject, db, files, bounds
<1>2. project' \in Row /\ project'.rev >= project.rev
  BY DEF SetFavorite, InspectProject, RefreshProject, db, IInv, TypeOK, Row
<1>3. \A o \in Ops : (PlanInv(o) => PlanInv(o)') /\ (SoloOp(o) => SoloOp(o)')
  BY <1>1, <1>2, RevisionsGrow, PlanSame, OpSame
<1>4. /\ NoneAccepted' <=> NoneAccepted
      /\ \A o \in Ops : Only(o)' <=> Only(o)
  BY <1>1 DEF NoneAccepted, Only
<1> QED
  BY <1>1, <1>2, <1>3, <1>4, RevisionsGrow DEF SoloInv, Untouched

\* A step of a daemon that dies or starts: every task is gone or begins anew.
LEMMA DaemonSolo ==
    ASSUME IInv, SoloInv, UNCHANGED <<cancelReq, plan, project, live, manifest, att, faults>>,
           crashes' > 0, crashes' \in Nat,
           \A a \in Ops : /\ w'[a] = Idle \/ w'[a] = [Idle EXCEPT !.pc = "look"]
                          /\ w'[a].pc = "look" => state'[a] \in {"queued", "recovering"}
                          /\ daemon' = "up" /\ Unfinished(a)' => w'[a].pc = "look"
                          /\ state'[a] # state[a] =>
                                /\ state[a] \in {"running", "cancelling", "interrupted"}
                                /\ state'[a] \in {"interrupted", "recovering"}
    PROVE  SoloInv'
<1>1. /\ NoneAccepted' <=> NoneAccepted
      /\ \A o \in Ops : Only(o)' <=> Only(o)
  BY DEF NoneAccepted, Only
<1>2. ASSUME NEW o \in Ops, SoloOp(o) PROVE SoloOp(o)'
  <2>1. w'[o].pc \in {"idle", "look"} /\ w'[o].after = "retry"
    BY DEF Idle
  <2>2. PlanInv(o)' /\ FilesInv(o)'
    BY <1>2, PlanSame, FilesSame DEF SoloOp
  <2>3. MarkerInv(o)'
    BY <1>2, <2>1 DEF SoloOp, MarkerInv, Preparing, Writing, Committed
  <2>4. ProgressInv(o)'
    BY <1>2, <2>1 DEF SoloOp, ProgressInv, Preparing, Writing, Untouched
  <2>5. WordInv(o)'
    BY <1>2, <2>1 DEF SoloOp, WordInv, Abandoned, At
  <2> QED
    BY <2>2, <2>3, <2>4, <2>5 DEF SoloOp
<1>3. \A o \in Ops : PlanInv(o) => PlanInv(o)'
  BY PlanSame
<1>4. \A o \in Ops : state'[o] = "absent" => w'[o] = Idle
  BY DEF Idle
<1> QED
  BY <1>1, <1>2, <1>3, <1>4 DEF SoloInv, Untouched

LEMMA ProcessSolo ==
    ASSUME IInv, SoloInv, Crash \/ Start \/ (\E o \in Ops : RecoverRow(o)) \/ Ready
    PROVE  SoloInv'
<1>0. crashes \in Nat /\ "look" # "idle" /\ Idle.pc = "idle"
  BY DEF IInv, TypeOK, Idle
<1>1. CASE Crash
  BY <1>0, <1>1, DaemonSolo DEF Crash, db, files
<1>2. CASE Start
  <2>1. crashes > 0 /\ \A a \in Ops : w[a] = Idle
    BY <1>2 DEF Start, SoloInv, IInv, OpInv
  <2> QED
    BY <1>0, <1>2, <2>1, DaemonSolo DEF Start, db, files, bounds
<1>3. ASSUME NEW o \in Ops, RecoverRow(o) PROVE SoloInv'
  <2>1. crashes > 0 /\ daemon' # "up" /\ \A a \in Ops : w[a] = Idle
    BY <1>3 DEF RecoverRow, SoloInv, IInv, OpInv
  <2>2. /\ state'[o] \in {"interrupted", "recovering"}
        /\ \A a \in Ops \ {o} : state'[a] = state[a]
    BY <1>3 DEF RecoverRow, SetState, IInv, TypeOK
  <2> QED
    BY <1>0, <1>3, <2>1, <2>2, DaemonSolo DEF RecoverRow, files, bounds
<1>4. CASE Ready
  <2>1. crashes > 0
    BY <1>4 DEF Ready, SoloInv
  <2>2. \A a \in Ops : Unfinished(a) => state[a] \in {"queued", "recovering"}
    BY <1>4 DEF Ready, Unfinished, IInv, TypeOK, States
  <2>3. \A a \in Ops : w'[a] = IF state[a] \in {"queued", "recovering"}
                               THEN [Idle EXCEPT !.pc = "look"] ELSE Idle
    BY <1>4 DEF Ready
  <2>4. [Idle EXCEPT !.pc = "look"].pc = "look"
    BY DEF Idle
  <2> QED
    BY <1>0, <1>4, <2>1, <2>2, <2>3, <2>4, DaemonSolo DEF Ready, db, files, bounds, Unfinished
<1> QED
  BY <1>1, <1>2, <1>3, <1>4

-----------------------------------------------------------------------------
(* Steps of the worker *)

\* Under one accepted plan, a step of its worker has only that to answer for.
LEMMA SoloStep ==
    ASSUME IInv, SoloInv, NEW o \in Ops, w[o].pc # "idle", state'[o] # "absent",
           UNCHANGED <<plan, daemon, crashes, cancelReq>>,
           project' \in Row, project'.rev >= project.rev,
           \A a \in Ops \ {o} : w'[a] = w[a] /\ state'[a] = state[a] /\ att'[a] = att[a],
           SoloOp(o) => SoloOp(o)'
    PROVE  SoloInv'
<1>1. state[o] # "absent"
  BY DEF SoloInv, Idle
<1>2. /\ ~NoneAccepted' /\ \A a \in Ops \ {o} : ~Only(a)'
      /\ Only(o)' => Only(o)
  BY <1>1 DEF NoneAccepted, Only
<1> QED
  BY <1>1, <1>2, RevisionsGrow DEF SoloInv

\* A worker past Load that goes on has nothing to explain.
LEMMA WordRunning ==
    ASSUME IInv, NEW o \in Ops, WordInv(o), state'[o] = state[o],
           UNCHANGED <<crashes, cancelReq>>,
           w[o].pc \in Running, w'[o].pc \in Loaded, w'[o].after = "stop" => faults' > 0
    PROVE  WordInv(o)'
<1>1. state[o] \in {"running", "cancelling"}
  BY DEF IInv, OpInv
<1>2. w'[o].pc \notin {"idle", "look", "cancelled", "begin", "load"}
  BY DEF Loaded
<1> QED
  BY <1>1, <1>2 DEF WordInv, Abandoned, At

\* A step that moves no file and ends the task, perhaps with a last word.
LEMMA EndSolo ==
    ASSUME IInv, NEW o \in Ops, SoloOp(o), w[o].pc # "idle", w'[o] = Idle,
           plan' = plan, UNCHANGED <<live, manifest, att, daemon, crashes, cancelReq>>,
           \/ state'[o] = state[o]
           \/ state'[o] = "cancelled" /\ w[o].pc = "cancelled"
           \/ state'[o] = "failed"    /\ w[o].pc = "failing"
           \/ state'[o] = "succeeded" /\ w[o].pc = "complete",
           Unfinished(o)' => \/ faults' > 0
                             \/ project'.rev # plan[o].rev
                             \/ state[o] = "cancelling"
                             \/ att[o].mark = "unmarked" /\ crashes > 0
    PROVE  SoloOp(o)'
<1>1. w'[o].pc = "idle" /\ w'[o].after = "retry"
  BY DEF Idle
<1>2. PlanInv(o)' /\ FilesInv(o)'
  BY PlanSame, FilesSame DEF SoloOp
<1>3. MarkerInv(o)'
  BY <1>1 DEF SoloOp, MarkerInv, Preparing, Writing, Committed
<1>4. ProgressInv(o)'
  BY <1>1 DEF SoloOp, ProgressInv, Preparing, Writing, Untouched
<1>5. WordInv(o)'
  BY <1>1 DEF SoloOp, WordInv, Abandoned, Unfinished, Terminal
<1> QED
  BY <1>2, <1>3, <1>4, <1>5 DEF SoloOp

\* A step that moves no file and goes on, not to a place where files are moved.
LEMMA StaySolo ==
    ASSUME IInv, NEW o \in Ops, SoloOp(o), plan' = plan,
           UNCHANGED <<live, manifest, att, crashes, cancelReq>>, faults > 0 => faults' > 0,
           w'[o].pc \notin Writing \cup {"undo", "idle"}, w'[o].after = w[o].after,
           state'[o] = state[o] \/ (w[o].pc = "begin" /\ ~cancelReq[o] /\ state'[o] = "running"),
           state[o] \notin {"failed", "succeeded"},
           state'[o] = "queued" => state[o] = "queued",
           w'[o].pc \in {"look", "begin"} =>
               state'[o] \in {"queued", "recovering", "cancelling", "cancelled"},
           w'[o].pc \in Preparing => w[o].pc \in Preparing,
           w'[o].pc = "create" => att[o].mark \notin Wrote,
           w'[o].pc = "lockUndo" => att[o].mark \in Destructive,
           w'[o].pc \in Committed => att[o].mark = "filesystem_committed",
           w'[o].pc = "failing" /\ att[o].mark \in Destructive => Untouched,
           w'[o].pc = "begin" => ~cancelReq[o],
           w'[o].pc = "cancelled" => cancelReq[o] /\ (crashes = 0 => att[o].mark \notin Wrote),
           w'[o].pc \in {"look", "begin", "load"} /\ crashes = 0 => att[o].mark = "none"
    PROVE  SoloOp(o)'
<1>1. PlanInv(o)' /\ FilesInv(o)'
  BY PlanSame, FilesSame DEF SoloOp
<1>2. MarkerInv(o)'
  BY DEF SoloOp, MarkerInv
<1>3. ProgressInv(o)'
  BY DEF SoloOp, ProgressInv, Untouched
<1>4. WordInv(o)'
  BY DEF SoloOp, WordInv, Abandoned, At
<1> QED
  BY <1>1, <1>2, <1>3, <1>4 DEF SoloOp

\* A step before the first rename that writes to the attempt directory.
LEMMA AttemptSolo ==
    ASSUME IInv, NEW o \in Ops, SoloOp(o), plan' = plan,
           UNCHANGED <<live, manifest, crashes, cancelReq, faults>>, state'[o] = state[o],
           w[o].pc \in Running, w'[o].pc \in Preparing, w'[o].after = w[o].after,
           att[o].mark \notin Wrote, att'[o].mark \notin Wrote,
           att'[o].backup = Nothing /\ att'[o].rolled = Nothing,
           att'[o].oldManifest = None /\ att'[o].newManifest = None
    PROVE  SoloOp(o)'
<1>1. state[o] \in {"running", "cancelling"}
  BY DEF IInv, OpInv
<1>2. PlanInv(o)'
  BY PlanSame DEF SoloOp
<1>3. FilesInv(o)'
  BY DEF SoloOp, FilesInv, Untouched, Wrote
<1>4. MarkerInv(o)'
  BY <1>1 DEF SoloOp, MarkerInv, Preparing, Writing, Committed
<1>5. ProgressInv(o)'
  BY <1>1 DEF SoloOp, ProgressInv, Preparing, Writing
<1>6. WordInv(o)'
  BY WordRunning DEF SoloOp, WordInv, Preparing, Loaded, PCs
<1> QED
  BY <1>2, <1>3, <1>4, <1>5, <1>6 DEF SoloOp

\* What StaySolo asks of a step that only moves the worker.
LEMMA GoSolo ==
    ASSUME IInv, SoloInv, NEW o \in Ops, NEW next \in PCs, Go(o, next), w[o].pc # "idle",
           UNCHANGED <<state, cancelReq, plan, project, live, manifest, att, daemon, crashes>>,
           faults' \in Nat, faults > 0 => faults' > 0,
           next \notin Writing \cup {"undo", "idle"},
           state[o] \notin {"failed", "succeeded"},
           next \in {"look", "begin"} =>
               state[o] \in {"queued", "recovering", "cancelling", "cancelled"},
           next \in Preparing => w[o].pc \in Preparing,
           next = "create" => att[o].mark \notin Wrote,
           next = "lockUndo" => att[o].mark \in Destructive,
           next \in Committed => att[o].mark = "filesystem_committed",
           next = "failing" /\ att[o].mark \in Destructive => Untouched,
           next = "begin" => ~cancelReq[o],
           next = "cancelled" => cancelReq[o] /\ (crashes = 0 => att[o].mark \notin Wrote),
           next \in {"look", "begin", "load"} /\ crashes = 0 => att[o].mark = "none"
    PROVE  SoloOp(o) => SoloOp(o)'
<1>1. w[o] \in Worker /\ w' = [w EXCEPT ![o] = [w[o] EXCEPT !.pc = next]]
  BY DEF Go, IInv, TypeOK
<1>2. w'[o] = [w[o] EXCEPT !.pc = next]
  BY <1>1 DEF IInv, TypeOK
<1>3. w'[o].pc = next /\ w'[o].after = w[o].after
  BY <1>1, <1>2 DEF Worker
<1> QED
  BY <1>3, StaySolo

LEMMA GoOthers ==
    ASSUME IInv, SoloInv, NEW o \in Ops, NEW next \in PCs, Go(o, next), w[o].pc # "idle",
           UNCHANGED <<state, cancelReq, plan, project, att, daemon, crashes>>,
           SoloOp(o) => SoloOp(o)'
    PROVE  SoloInv'
<1>1. \A a \in Ops \ {o} : w'[a] = w[a]
  BY GoFacts DEF IInv
<1>2. project \in Row /\ project.rev >= project.rev
  BY DEF IInv, TypeOK, Row
<1>3. state[o] # "absent"
  BY DEF SoloInv, Idle
<1> QED
  BY <1>1, <1>2, <1>3, SoloStep

LEMMA CheckCancelledSolo ==
    ASSUME IInv, SoloInv, NEW o \in Ops,
           NEW here \in {"look", "cancel1", "cancel2"}, NEW onward \in PCs,
           <<here, onward>> \in {<<"look", "begin">>, <<"cancel1", "lockApply">>,
                                 <<"cancel2", "prepare">>},
           CheckCancelled(o, here, onward)
    PROVE  SoloInv'
<1>1. /\ w[o].pc = here
      /\ UNCHANGED <<state, cancelReq, plan, project, live, manifest, att, daemon, crashes, faults>>
      /\ state[o] \in States /\ faults \in Nat
  BY DEF CheckCancelled, At, db, files, bounds, SoloInv, Idle, IInv, TypeOK
<1> DEFINE next == IF cancelReq[o] THEN "cancelled" ELSE onward
<1>2. next \in PCs /\ Go(o, next)
  BY DEF CheckCancelled, PCs
<1>3. ASSUME SoloOp(o) PROVE SoloOp(o)'
  <2>1. state[o] \notin {"failed", "succeeded"}
    BY <1>1, <1>3 DEF SoloOp, WordInv
  <2>2. /\ here = "look" => state[o] \in {"queued", "recovering", "cancelling", "cancelled"}
        /\ here # "look" => here \in Preparing /\ att[o].mark \notin Wrote
        /\ here = "look" /\ crashes = 0 => att[o].mark = "none"
    BY <1>1, <1>3 DEF SoloOp, WordInv, MarkerInv, Preparing
  <2>3. /\ next = "cancelled" => cancelReq[o] /\ (crashes = 0 => att[o].mark \notin Wrote)
        /\ next = "begin" => ~cancelReq[o] /\ here = "look"
        /\ next \in {"cancelled", "begin", "lockApply", "prepare"}
    BY <2>2 DEF Wrote, Destructive
  <2> HIDE DEF next
  <2>4. next \in Preparing => w[o].pc \in Preparing
    BY <1>1, <2>2, <2>3 DEF next, Preparing
  <2>5. /\ next \notin Writing \cup {"undo", "idle", "create", "lockUndo", "failing", "look", "load"}
        /\ next \notin Committed
    BY <2>3 DEF Writing, Committed
  <2> QED
    BY <1>1, <1>2, <1>3, <2>1, <2>2, <2>3, <2>4, <2>5, GoSolo
<1> HIDE DEF next
<1>4. w[o].pc # "idle"
  BY <1>1
<1> QED
  BY <1>1, <1>2, <1>3, <1>4, GoOthers

\* What EndSolo asks of a step that ends the task.
LEMMA EndOthers ==
    ASSUME IInv, SoloInv, NEW o \in Ops, EndTask(o), w[o].pc # "idle", state'[o] # "absent",
           UNCHANGED <<cancelReq, plan, live, manifest, att, daemon, crashes>>,
           project' \in Row, project'.rev >= project.rev,
           \A a \in Ops \ {o} : state'[a] = state[a],
           w'[o] = Idle /\ SoloOp(o) => SoloOp(o)'
    PROVE  SoloInv'
<1>1. w'[o] = Idle /\ \A a \in Ops \ {o} : w'[a] = w[a]
  BY EndFacts DEF IInv
<1> QED
  BY <1>1, SoloStep

LEMMA FinishCancelledSolo ==
    ASSUME IInv, SoloInv, NEW o \in Ops, FinishCancelled(o) PROVE SoloInv'
<1>1. /\ w[o].pc = "cancelled" /\ EndTask(o) /\ state[o] # "absent" /\ daemon = "up"
      /\ UNCHANGED <<cancelReq, plan, project, live, manifest, att, daemon, crashes, faults>>
  BY DEF FinishCancelled, At, files, bounds, SoloInv, Idle, IInv, OpInv
<1>2. /\ \A a \in Ops \ {o} : state'[a] = state[a]
      /\ state'[o] = IF CanTransition(state[o], "cancelled") THEN "cancelled" ELSE state[o]
      /\ state[o] \in States \ {"interrupted"} /\ project \in Row /\ project.rev >= project.rev
  BY <1>1 DEF FinishCancelled, SetState, IInv, TypeOK, OpInv, Row
<1>3. ASSUME SoloOp(o), w'[o] = Idle PROVE SoloOp(o)'
  <2>1. state[o] \in {"cancelling", "recovering", "cancelled"}
    BY <1>1, <1>2, <1>3 DEF SoloOp, WordInv, States, Terminal
  <2>2. state'[o] = "cancelled"
    BY <1>2, <2>1 DEF CanTransition, Terminal
  <2> QED
    BY <1>1, <1>3, <2>2, EndSolo DEF Unfinished, Terminal
<1> QED
  BY <1>1, <1>2, <1>3, EndOthers

LEMMA BeginSolo == ASSUME IInv, SoloInv, NEW o \in Ops, Begin(o) PROVE SoloInv'
<1>1. /\ w[o].pc = "begin" /\ state[o] # "absent"
      /\ UNCHANGED <<cancelReq, plan, project, live, manifest, att, daemon, crashes, faults>>
      /\ project \in Row /\ project.rev >= project.rev
  BY DEF Begin, At, files, bounds, SoloInv, Idle, IInv, TypeOK, Row
<1>2. CASE state[o] \in {"queued", "recovering"}
  <2>1. /\ Go(o, "load") /\ state'[o] = "running"
        /\ \A a \in Ops \ {o} : state'[a] = state[a]
    BY <1>2 DEF Begin, SetState, IInv, TypeOK
  <2>2. /\ w[o] \in Worker /\ w'[o] = [w[o] EXCEPT !.pc = "load"]
        /\ \A a \in Ops \ {o} : w'[a] = w[a]
    BY <2>1 DEF Go, IInv, TypeOK
  <2>3. w'[o].pc = "load" /\ w'[o].after = w[o].after
    BY <2>2 DEF Worker
  <2>4. SoloOp(o) => SoloOp(o)'
    <3>1. SUFFICES ASSUME SoloOp(o) PROVE SoloOp(o)'
      OBVIOUS
    <3>2. ~cancelReq[o] /\ (crashes = 0 => att[o].mark = "none")
      BY <1>1, <1>2, <3>1 DEF SoloOp, WordInv
    <3>3. w'[o].pc \notin Writing \cup Preparing \cup Committed
      BY <2>3 DEF Writing, Preparing, Committed
    <3> QED
      BY <1>1, <1>2, <2>1, <2>3, <3>1, <3>2, <3>3, StaySolo
  <2> QED
    BY <1>1, <2>1, <2>2, <2>4, SoloStep
<1>3. CASE state[o] \notin {"queued", "recovering"}
  <2>1. EndTask(o) /\ state' = state
    BY <1>3 DEF Begin
  <2>2. ASSUME SoloOp(o), w'[o] = Idle PROVE SoloOp(o)'
    <3>1. state[o] \in {"cancelling", "cancelled"}
      BY <1>1, <1>3, <2>2 DEF SoloOp, WordInv
    <3> QED
      BY <1>1, <2>1, <2>2, <3>1, EndSolo DEF Unfinished, Terminal
  <2> QED
    BY <1>1, <2>1, <2>2, EndOthers
<1> QED
  BY <1>2, <1>3

LEMMA LoadSolo == ASSUME IInv, SoloInv, NEW o \in Ops, Load(o) PROVE SoloInv'
<1>1. /\ w[o].pc = "load" /\ state[o] \in {"running", "cancelling"}
      /\ UNCHANGED <<state, cancelReq, plan, project, live, manifest, att, daemon, crashes, faults>>
      /\ project \in Row /\ project.rev >= project.rev
  BY DEF Load, At, db, files, bounds, IInv, TypeOK, OpInv, Running, Row
<1>2. CASE att[o].mark = "unmarked"
  <2>1. EndTask(o)
    BY <1>2 DEF Load
  <2>2. ASSUME SoloOp(o), w'[o] = Idle PROVE SoloOp(o)'
    <3>1. crashes > 0
      BY <1>1, <1>2, <2>2 DEF SoloOp, WordInv, IInv, TypeOK
    <3> QED
      BY <1>1, <1>2, <2>1, <2>2, <3>1, EndSolo DEF Unfinished
  <2> QED
    BY <1>1, <2>1, <2>2, EndOthers
<1>3. CASE att[o].mark # "unmarked"
  <2>1. Resume(o) \in {"lockFinal", "lockUndo", "create"}
    BY DEF Resume
  <2>2. w' = [w EXCEPT ![o] = [w[o] EXCEPT !.pc = Resume(o), !.row = project]]
    BY <1>3 DEF Load
  <2>3. /\ w[o] \in Worker /\ w'[o] = [w[o] EXCEPT !.pc = Resume(o), !.row = project]
        /\ \A a \in Ops \ {o} : w'[a] = w[a]
    BY <2>2 DEF IInv, TypeOK
  <2>4. w'[o].pc = Resume(o) /\ w'[o].after = w[o].after
    BY <2>3 DEF Worker
  <2>5. ASSUME SoloOp(o) PROVE SoloOp(o)'
    <3>1. /\ w'[o].pc = "lockFinal" => att[o].mark = "filesystem_committed"
          /\ w'[o].pc = "lockUndo" => att[o].mark \in Destructive
          /\ w'[o].pc = "create" => att[o].mark \notin Wrote
      BY <2>4 DEF Resume, Wrote, Destructive
    <3>2. /\ w'[o].pc \in Committed => w'[o].pc = "lockFinal"
          /\ w'[o].pc \notin Writing \cup Preparing
      BY <2>1, <2>4 DEF Committed, Writing, Preparing
    <3> QED
      BY <1>1, <2>1, <2>4, <2>5, <3>1, <3>2, StaySolo
  <2> QED
    BY <1>1, <2>3, <2>5, SoloStep
<1> QED
  BY <1>2, <1>3

\* Revalidate, Recheck, Inspect, UndoneEnd and a failing read.
LEMMA RevalidateSolo == ASSUME IInv, SoloInv, NEW o \in Ops, Revalidate(o) PROVE SoloInv'
<1>1. /\ w[o].pc = "revalidate" /\ state[o] \in {"running", "cancelling"}
      /\ UNCHANGED <<state, cancelReq, plan, project, live, manifest, att, daemon, crashes, faults>>
      /\ faults \in Nat
  BY DEF Revalidate, At, db, files, bounds, IInv, TypeOK, OpInv, Running, Loaded, PCs
<1>2. PICK next \in {"cancel2", "failing"} : Go(o, next)
  BY DEF Revalidate
<1>3. next \in PCs /\ next \notin Writing \cup {"undo", "idle"} \cup Committed
      /\ "revalidate" \in Preparing
  BY <1>2 DEF PCs, Writing, Preparing, Committed
<1>4. SoloOp(o) => att[o].mark \notin Wrote
  BY <1>1, <1>3 DEF SoloOp, MarkerInv
<1>5. SoloOp(o) => SoloOp(o)'
  BY <1>1, <1>2, <1>3, <1>4, GoSolo DEF Wrote
<1> QED
  BY <1>1, <1>2, <1>3, <1>5, GoOthers

LEMMA RecheckSolo == ASSUME IInv, SoloInv, NEW o \in Ops, Recheck(o) PROVE SoloInv'
<1>1. /\ w[o].pc = "recheck" /\ state[o] \in {"running", "cancelling"} /\ plan[o] # None
      /\ UNCHANGED <<state, cancelReq, plan, project, live, manifest, att, daemon, crashes, faults>>
      /\ faults \in Nat /\ project \in Row /\ project.rev >= project.rev
  BY DEF Recheck, At, db, files, bounds, IInv, TypeOK, OpInv, Running, Loaded, PCs, Row
<1>2. SoloOp(o) => att[o].mark = "filesystem_committed"
  BY <1>1 DEF SoloOp, MarkerInv, Committed
<1>3. SoloOp(o) => Final(o)
  BY <1>2 DEF SoloOp, FilesInv, Final
<1>4. CASE Go(o, "inspect") /\ UNCHANGED lock
  <2>1. "inspect" \in PCs /\ "inspect" \notin Writing \cup Preparing
    BY DEF PCs, Writing, Preparing
  <2>2. SoloOp(o) => SoloOp(o)'
    BY <1>1, <1>2, <1>4, <2>1, GoSolo
  <2> QED
    BY <1>1, <1>4, <2>1, <2>2, GoOthers
<1>5. CASE EndTask(o) /\ ~Final(o)
  BY <1>1, <1>3, <1>5, EndOthers
<1> QED
  BY <1>4, <1>5 DEF Recheck

LEMMA InspectSolo == ASSUME IInv, SoloInv, NEW o \in Ops, Inspect(o) PROVE SoloInv'
<1>1. /\ w[o].pc = "inspect" /\ state[o] \in {"running", "cancelling"} /\ w[o].row \in Row
      /\ UNCHANGED <<state, cancelReq, plan, project, live, manifest, att, daemon, crashes, faults>>
      /\ project \in Row /\ project.rev >= project.rev
  BY DEF Inspect, At, db, files, bounds, IInv, TypeOK, OpInv, Running, Loaded, PCs, Row
<1> DEFINE row == [w[o].row EXCEPT !.obs = manifest]
<1>2. w' = [w EXCEPT ![o] = [w[o] EXCEPT !.pc = "complete", !.row = row]]
  BY DEF Inspect
<1> HIDE DEF row
<1>3. /\ w[o] \in Worker /\ w'[o] = [w[o] EXCEPT !.pc = "complete", !.row = row]
      /\ \A a \in Ops \ {o} : w'[a] = w[a]
  BY <1>2 DEF IInv, TypeOK
<1>4. w'[o].pc = "complete" /\ w'[o].after = w[o].after
  BY <1>3 DEF Worker
<1>5. ASSUME SoloOp(o) PROVE SoloOp(o)'
  <2>1. att[o].mark = "filesystem_committed"
    BY <1>1, <1>5 DEF SoloOp, MarkerInv, Committed
  <2>2. w'[o].pc \notin Writing \cup Preparing
    BY <1>4 DEF Writing, Preparing
  <2> QED
    BY <1>1, <1>4, <1>5, <2>1, <2>2, StaySolo
<1> QED
  BY <1>1, <1>3, <1>5, SoloStep

LEMMA EndsSolo ==
    ASSUME IInv, SoloInv, NEW o \in Ops, Complete(o) \/ Fail(o)
    PROVE  SoloInv'
<1>1. /\ w[o].pc \in {"complete", "failing"} /\ EndTask(o)
      /\ UNCHANGED <<cancelReq, plan, live, manifest, att, daemon, crashes, faults>>
      /\ w[o].row \in Row /\ project \in Row /\ state[o] \in {"running", "cancelling"}
  BY DEF Complete, Fail, At, files, bounds, IInv, TypeOK, OpInv, Running, Loaded, PCs
<1>2. /\ \A a \in Ops \ {o} : state'[a] = state[a]
      /\ \/ state'[o] = "succeeded" /\ w[o].pc = "complete"
         \/ state'[o] = "failed" /\ w[o].pc = "failing"
         \/ state'[o] = state[o] /\ project' = project /\ project.rev # plan[o].rev
  BY <1>1 DEF Complete, Fail, SetState, At, IInv, TypeOK, Terminal
<1>3. project' \in Row /\ project'.rev >= project.rev
  BY <1>1 DEF Complete, Fail, Row
<1>4. ASSUME SoloOp(o), w'[o] = Idle PROVE SoloOp(o)'
  BY <1>1, <1>2, <1>4, EndSolo DEF Unfinished, Terminal
<1> QED
  BY <1>1, <1>2, <1>3, <1>4, EndOthers

LEMMA StopErrorSolo == ASSUME IInv, SoloInv, NEW o \in Ops, StopError(o) PROVE SoloInv'
<1>1. /\ w[o].pc # "idle" /\ EndTask(o) /\ state[o] # "absent" /\ faults' > 0
      /\ UNCHANGED <<state, cancelReq, plan, project, live, manifest, att, daemon, crashes>>
      /\ project \in Row /\ project.rev >= project.rev
  BY DEF StopError, Failing, db, files, SoloInv, Idle, IInv, TypeOK, Row
<1>2. ASSUME SoloOp(o), w'[o] = Idle PROVE SoloOp(o)'
  BY <1>1, <1>2, EndSolo
<1> QED
  BY <1>1, <1>2, EndOthers

LEMMA FailErrorSolo == ASSUME IInv, SoloInv, NEW o \in Ops, FailError(o) PROVE SoloInv'
<1>1. /\ w[o].pc \in {"fetch", "extract", "cancel1", "revalidate", "cancel2", "intent", "inspect"}
      /\ Go(o, "failing") /\ faults' > 0 /\ faults' \in Nat
      /\ UNCHANGED <<state, cancelReq, plan, project, live, manifest, att, daemon, crashes>>
  BY DEF FailError, Failing, db, files, IInv, TypeOK
<1>2. state[o] \in {"running", "cancelling"} /\ w[o].pc # "idle"
  BY <1>1 DEF IInv, OpInv, Running, Loaded, PCs
<1>3. "failing" \in PCs /\ "failing" \notin Writing \cup Preparing \cup Committed
  BY DEF PCs, Writing, Preparing, Committed
<1>4. SoloOp(o) => att[o].mark \notin Destructive
  BY <1>1 DEF SoloOp, MarkerInv, Preparing, Committed, Wrote, Destructive
<1>5. SoloOp(o) => SoloOp(o)'
  BY <1>1, <1>2, <1>3, <1>4, GoSolo
<1> QED
  BY <1>1, <1>2, <1>3, <1>5, GoOthers

-----------------------------------------------------------------------------
(* Steps that move files *)

\* What is left to show of a step of a worker past Load: how the files, the
\* attempt directory and its own progress then are.
LEMMA RunSolo ==
    ASSUME IInv, SoloInv, NEW o \in Ops, w[o].pc \in Loaded,
           UNCHANGED <<state, cancelReq, plan, project, daemon, crashes>>,
           \A a \in Ops \ {o} : w'[a] = w[a] /\ att'[a] = att[a],
           w'[o].pc \in Loaded, w'[o].after = "stop" => w[o].after = "stop" \/ faults' > 0,
           faults > 0 => faults' > 0,
           SoloOp(o) => /\ FilesInv(o)' /\ ProgressInv(o)'
                        /\ w'[o].pc \in Preparing \cup {"create"} => att'[o].mark \notin Wrote
                        /\ w'[o].pc \in Writing \cup {"lockUndo", "undo"} =>
                              att'[o].mark \in Destructive
                        /\ w'[o].pc \in Committed => att'[o].mark = "filesystem_committed"
    PROVE  SoloInv'
<1>1. /\ state[o] \in {"running", "cancelling"} /\ w[o].pc \in Running /\ w[o].pc # "idle"
      /\ project \in Row /\ project.rev >= project.rev
  BY DEF IInv, TypeOK, OpInv, Loaded, Running, Row
<1>2. ASSUME SoloOp(o) PROVE SoloOp(o)'
  <2>1. PlanInv(o)' /\ MarkerInv(o)'
    BY <1>1, <1>2, PlanSame DEF SoloOp, MarkerInv
  <2>2. WordInv(o)'
    BY <1>1, <1>2, WordRunning DEF SoloOp, WordInv
  <2> QED
    BY <1>2, <2>1, <2>2 DEF SoloOp
<1> QED
  BY <1>1, <1>2, SoloStep

LEMMA LockSolo ==
    ASSUME IInv, SoloInv, NEW o \in Ops,
           NEW here \in {"lockApply", "lockFinal", "lockUndo"},
           NEW onward \in {"revalidate", "recheck", "undo"},
           <<here, onward>> \in {<<"lockApply", "revalidate">>, <<"lockFinal", "recheck">>,
                                 <<"lockUndo", "undo">>},
           Lock(o, here, onward)
    PROVE  SoloInv'
<1> DEFINE todo == IF onward = "undo" THEN Changes(o) ELSE {}
<1>1. /\ w[o].pc = here
      /\ w' = [w EXCEPT ![o] = [w[o] EXCEPT !.pc = onward, !.todo = todo]]
      /\ UNCHANGED <<state, cancelReq, plan, project, live, manifest, att, daemon, crashes, faults>>
  BY DEF Lock, At, db, files, bounds
<1>2. w[o] \in Worker /\ w'[o] = [w[o] EXCEPT !.pc = onward, !.todo = todo]
      /\ \A a \in Ops \ {o} : w'[a] = w[a]
  BY <1>1 DEF IInv, TypeOK
<1>3. w'[o].pc = onward /\ w'[o].todo = todo /\ w'[o].after = w[o].after
  BY <1>2 DEF Worker
<1>4. w[o].pc \in Loaded /\ w'[o].pc \in Loaded /\ state[o] # "failed"
  BY <1>1, <1>3 DEF Loaded, PCs, Running, IInv, OpInv
<1>5. ASSUME SoloOp(o) PROVE FilesInv(o)' /\ ProgressInv(o)'
  <2>1. onward \notin Writing /\ (onward \in Preparing => here \in Preparing)
    BY <1>5 DEF Writing, Preparing
  <2>2. onward = "undo" => Changes(o)' = Changes(o) /\ w'[o].todo = Changes(o)
    BY <1>1, <1>3, PlanSame
  <2> QED
    BY <1>1, <1>3, <1>4, <1>5, <2>1, <2>2, FilesSame DEF SoloOp, ProgressInv
<1>6. SoloOp(o) => /\ onward = "revalidate" => att[o].mark \notin Wrote
                   /\ onward = "undo" => att[o].mark \in Destructive
                   /\ onward = "recheck" => att[o].mark = "filesystem_committed"
  BY <1>1 DEF SoloOp, MarkerInv, Preparing, Committed
<1>7. /\ onward \in Preparing \cup {"create"} => onward = "revalidate"
      /\ onward \in Writing \cup {"lockUndo", "undo"} => onward = "undo"
      /\ onward \in Committed => onward = "recheck"
  BY DEF Preparing, Writing, Committed
<1> HIDE DEF todo
<1> QED
  BY <1>1, <1>2, <1>3, <1>4, <1>5, <1>6, <1>7, RunSolo

\* Facts about the fields of an attempt that a worker writes to.
LEMMA AttemptFields ==
    ASSUME IInv, NEW o \in Ops
    PROVE  /\ att[o] \in Attempt /\ w[o] \in Worker
           /\ \A new : att' = [att EXCEPT ![o] = new] =>
                  att'[o] = new /\ \A a \in Ops \ {o} : att'[a] = att[a]
           /\ \A new : w' = [w EXCEPT ![o] = new] =>
                  w'[o] = new /\ \A a \in Ops \ {o} : w'[a] = w[a]
BY DEF IInv, TypeOK

\* The same of a step that writes a given attempt, and of one that writes both.
LEMMA AttemptWritten ==
    ASSUME IInv, NEW o \in Ops, NEW at, att' = [att EXCEPT ![o] = at]
    PROVE  att'[o] = at /\ \A a \in Ops \ {o} : att'[a] = att[a]
BY DEF IInv, TypeOK

LEMMA BothWritten ==
    ASSUME IInv, NEW o \in Ops, NEW at, NEW wk,
           att' = [att EXCEPT ![o] = at], w' = [w EXCEPT ![o] = wk]
    PROVE  /\ att'[o] = at /\ w'[o] = wk
           /\ \A a \in Ops \ {o} : att'[a] = att[a] /\ w'[a] = w[a]
BY DEF IInv, TypeOK

LEMMA PreparingSolo ==
    ASSUME IInv, SoloInv, NEW o \in Ops,
           \/ CreateAttempt(o) \/ Mark(o, "fetch", "archive_ready", "extract", {})
           \/ Extract(o) \/ Mark(o, "prepare", "prepared", "intent", {})
    PROVE  SoloInv'
<1>1. UNCHANGED <<state, cancelReq, plan, project, live, manifest, daemon, crashes, faults>>
  BY DEF CreateAttempt, Mark, Extract, db, bounds
<1>2. /\ \A a \in Ops \ {o} : att'[a] = att[a] /\ w'[a] = w[a]
      /\ w[o].pc \in {"create", "fetch", "extract", "prepare"}
      /\ w'[o].pc \in {"fetch", "extract", "cancel1", "intent"}
      /\ w'[o].after = w[o].after
      /\ att'[o].mark \in {"unmarked", "archive_ready", "extracted", "prepared"}
      /\ \/ /\ w[o].pc = "create" /\ att'[o].backup = Nothing /\ att'[o].rolled = Nothing
            /\ att'[o].oldManifest = None /\ att'[o].newManifest = None
         \/ /\ w[o].pc # "create" /\ att'[o].backup = att[o].backup
            /\ att'[o].rolled = att[o].rolled /\ att'[o].oldManifest = att[o].oldManifest
            /\ att'[o].newManifest = att[o].newManifest
  <2>0. att[o] \in Attempt /\ w[o] \in Worker
    BY AttemptFields
  <2>1. CASE CreateAttempt(o)
    <3>1. att'[o] = NewAttempt /\ w'[o] = [w[o] EXCEPT !.pc = "fetch"] /\ w[o].pc = "create"
      BY <2>1 DEF CreateAttempt, Go, At, IInv, TypeOK
    <3> QED
      BY <2>0, <2>1, <3>1 DEF CreateAttempt, Go, Worker, NewAttempt, IInv, TypeOK
  <2>2. CASE Mark(o, "fetch", "archive_ready", "extract", {})
    <3>1. /\ att'[o] = [att[o] EXCEPT !.mark = "archive_ready"] /\ w[o].pc = "fetch"
          /\ w'[o] = [w[o] EXCEPT !.pc = "extract", !.todo = {}]
      BY <2>2 DEF Mark, At, IInv, TypeOK
    <3> QED
      BY <2>0, <2>2, <3>1 DEF Mark, Worker, Attempt, IInv, TypeOK
  <2>3. CASE Extract(o)
    <3>1. /\ att'[o] = [att[o] EXCEPT !.mark = "extracted", !.staged = Changes(o) \ Removes(o)]
          /\ w'[o] = [w[o] EXCEPT !.pc = "cancel1"] /\ w[o].pc = "extract"
      BY <2>3 DEF Extract, Go, At, IInv, TypeOK
    <3> QED
      BY <2>0, <2>3, <3>1 DEF Extract, Go, Worker, Attempt, IInv, TypeOK
  <2>4. CASE Mark(o, "prepare", "prepared", "intent", {})
    <3>1. /\ att'[o] = [att[o] EXCEPT !.mark = "prepared"] /\ w[o].pc = "prepare"
          /\ w'[o] = [w[o] EXCEPT !.pc = "intent", !.todo = {}]
      BY <2>4 DEF Mark, At, IInv, TypeOK
    <3> QED
      BY <2>0, <2>4, <3>1 DEF Mark, Worker, Attempt, IInv, TypeOK
  <2> QED
    BY <2>1, <2>2, <2>3, <2>4
<1>3. w[o].pc \in Running /\ w'[o].pc \in Preparing /\ w[o].pc # "idle"
      /\ w[o].pc \in Preparing \cup {"create"} /\ (w[o].pc # "create" => w[o].pc \in Preparing)
  BY <1>2 DEF Running, Loaded, PCs, Preparing
<1>4. state[o] # "absent" /\ project \in Row /\ project.rev >= project.rev
  BY <1>3 DEF SoloInv, Idle, IInv, TypeOK, Row
<1>5. SoloOp(o) => SoloOp(o)'
  <2>1. SUFFICES ASSUME SoloOp(o) PROVE SoloOp(o)'
    OBVIOUS
  <2>2. att[o].mark \notin Wrote /\ att'[o].mark \notin Wrote
    BY <1>2, <1>3, <2>1 DEF SoloOp, MarkerInv, Wrote, Destructive
  <2>3. /\ att'[o].backup = Nothing /\ att'[o].rolled = Nothing
        /\ att'[o].oldManifest = None /\ att'[o].newManifest = None
    BY <1>2, <1>3, <2>1 DEF SoloOp, ProgressInv
  <2> QED
    BY <1>1, <1>2, <1>3, <2>1, <2>2, <2>3, AttemptSolo
<1> QED
  BY <1>1, <1>2, <1>3, <1>4, <1>5, SoloStep

\* What a worker past Load can count on.
LEMMA LoadedFacts ==
    ASSUME IInv, NEW o \in Ops, w[o].pc \in Loaded
    PROVE  /\ plan[o] # None /\ state[o] \in {"running", "cancelling"}
           /\ att[o] \in Attempt /\ w[o] \in Worker /\ live \in Tree
           /\ manifest \in Tree \cup {None}
BY DEF IInv, TypeOK, OpInv, Loaded, Running

LEMMA IntentSolo ==
    ASSUME IInv, SoloInv, NEW o \in Ops,
           Mark(o, "intent", "packages_replaced", "swap", Changes(o))
    PROVE  SoloInv'
<1>1. /\ w[o].pc = "intent" /\ w[o].pc \in Loaded /\ w[o].pc \in Preparing
      /\ UNCHANGED <<state, cancelReq, plan, project, live, manifest, daemon, crashes, faults>>
  BY DEF Mark, At, db, bounds, Loaded, PCs, Preparing
<1>2. /\ att'[o] = [att[o] EXCEPT !.mark = "packages_replaced"]
      /\ w'[o] = [w[o] EXCEPT !.pc = "swap", !.todo = Changes(o)]
      /\ \A a \in Ops \ {o} : att'[a] = att[a] /\ w'[a] = w[a]
  BY DEF Mark, IInv, TypeOK
<1>3. /\ att'[o].mark = "packages_replaced" /\ att'[o].staged = att[o].staged
      /\ att'[o].backup = att[o].backup /\ att'[o].rolled = att[o].rolled
      /\ att'[o].oldManifest = att[o].oldManifest /\ att'[o].newManifest = att[o].newManifest
      /\ w'[o].pc = "swap" /\ w'[o].todo = Changes(o) /\ w'[o].after = w[o].after
  BY <1>1, <1>2, LoadedFacts DEF Attempt, Worker
<1>4. w'[o].pc \in Loaded /\ w'[o].pc \notin Preparing \cup Committed
      /\ att'[o].mark \in Destructive /\ w'[o].pc # "create"
  BY <1>3 DEF Loaded, PCs, Preparing, Committed, Destructive
<1>5. ASSUME SoloOp(o) PROVE FilesInv(o)' /\ ProgressInv(o)'
  <2>1. /\ Untouched /\ att[o].backup = Nothing /\ att[o].rolled = Nothing
        /\ att[o].oldManifest = None /\ att[o].newManifest = None
    BY <1>1, <1>5 DEF SoloOp, MarkerInv, FilesInv, ProgressInv
  <2>2. \A p \in Pkgs : p \in Installs(o) => Original[p] = "absent"
    BY <1>1, <1>5, LoadedFacts, ChangeFacts DEF SoloOp
  <2>3. \A p \in Pkgs : PackageEvidence(o, p)'
    BY <1>1, <1>3, <2>1, <2>2, PlanSame DEF PackageEvidence, Untouched, Nothing
  <2>4. ManifestEvidence(o)'
    BY <1>1, <1>3, <2>1 DEF ManifestEvidence, Untouched
  <2>5. FilesInv(o)'
    BY <1>4, <2>3, <2>4 DEF FilesInv, Destructive, Wrote
  <2>6. \A p \in Pkgs : PackageSwap(o, p)'
    BY <1>1, <1>3, <2>1, PlanSame DEF PackageSwap, Half, Untouched, Nothing
  <2>7. ProgressInv(o)'
    BY <1>1, <1>3, <1>4, <2>1, <2>6, PlanSame, LoadedFacts DEF ProgressInv, Untouched
  <2> QED
    BY <2>5, <2>7
<1>6. /\ w[o].pc \in Loaded /\ w'[o].pc \in Loaded
      /\ UNCHANGED <<state, cancelReq, plan, project, daemon, crashes>>
      /\ w'[o].after = "stop" => w[o].after = "stop" \/ faults' > 0
      /\ faults > 0 => faults' > 0
  BY <1>1, <1>2, <1>3, <1>4
<1>7. \A a \in Ops \ {o} : w'[a] = w[a] /\ att'[a] = att[a]
  BY <1>1, <1>2, <1>3, <1>4
<1> QED
  BY <1>4, <1>5, <1>6, <1>7, RunSolo

LEMMA SwapSolo ==
    ASSUME IInv, SoloInv, NEW o \in Ops, NEW p \in Pkgs, Swap(o, p),
           (live[p] = "absent") <=> (p \in Installs(o))
    PROVE  SoloInv'
<1>1. /\ w[o].pc = "swap" /\ w[o].pc \in Loaded /\ w[o].pc \in Writing
      /\ UNCHANGED <<state, cancelReq, plan, project, manifest, daemon, crashes, faults>>
      /\ First(w[o].todo, p) /\ p \in w[o].todo
  BY DEF Swap, At, db, bounds, Loaded, PCs, Writing, First
<1> DEFINE pc   == IF p \in Removes(o) THEN "swap" ELSE "publish"
           todo == IF p \in Removes(o) THEN w[o].todo \ {p} ELSE w[o].todo
<1>2. /\ att' = [att EXCEPT ![o] = [att[o] EXCEPT
                      !.backup = [att[o].backup EXCEPT ![p] = live[p]]]]
      /\ w' = [w EXCEPT ![o] = [w[o] EXCEPT !.pc = pc, !.todo = todo]]
      /\ live' = [live EXCEPT ![p] = "absent"]
  <2>1. ~((live[p] = "absent") # (p \in Installs(o)))
    OBVIOUS
  <2> QED
    BY <2>1 DEF Swap
<1>h. /\ pc \in {"swap", "publish"} /\ (pc = "swap" <=> p \in Removes(o))
      /\ todo = IF p \in Removes(o) THEN w[o].todo \ {p} ELSE w[o].todo
  OBVIOUS
<1> HIDE DEF pc, todo
<1>3. /\ att'[o] = [att[o] EXCEPT !.backup = [att[o].backup EXCEPT ![p] = live[p]]]
      /\ w'[o] = [w[o] EXCEPT !.pc = pc, !.todo = todo]
      /\ \A a \in Ops \ {o} : att'[a] = att[a] /\ w'[a] = w[a]
  BY <1>2 DEF IInv, TypeOK
<1>4. /\ att'[o].mark = att[o].mark /\ att'[o].staged = att[o].staged
      /\ att'[o].backup = [att[o].backup EXCEPT ![p] = live[p]]
      /\ att'[o].rolled = att[o].rolled
      /\ att'[o].oldManifest = att[o].oldManifest /\ att'[o].newManifest = att[o].newManifest
      /\ w'[o].pc = pc /\ w'[o].todo = todo /\ w'[o].after = w[o].after
      /\ att[o].backup \in Tree /\ live \in Tree
  BY <1>1, <1>3, LoadedFacts DEF Attempt, Worker
<1>5. /\ att'[o].backup[p] = live[p] /\ live'[p] = "absent"
      /\ \A q \in Pkgs \ {p} : att'[o].backup[q] = att[o].backup[q] /\ live'[q] = live[q]
  BY <1>2, <1>4 DEF Tree
<1>6. w'[o].pc \in Loaded /\ w'[o].pc \notin Preparing \cup Committed /\ w'[o].pc # "create"
  BY <1>4, <1>h DEF Loaded, PCs, Preparing, Committed
<1>7. ASSUME SoloOp(o)
      PROVE  FilesInv(o)' /\ ProgressInv(o)' /\ att'[o].mark \in Destructive
  <2>1. /\ att[o].mark \in Destructive /\ att[o].rolled = Nothing /\ att[o].newManifest = None
        /\ manifest = Original /\ att[o].oldManifest = None
        /\ w[o].todo \subseteq Changes(o) /\ \A q \in Pkgs : PackageSwap(o, q)
    BY <1>1, <1>7 DEF SoloOp, MarkerInv, ProgressInv
  <2>2. ManifestEvidence(o) /\ \A q \in Pkgs : PackageEvidence(o, q)
    BY <1>7, <2>1 DEF SoloOp, FilesInv
  <2>3. /\ plan[o].target \in Tree
        /\ \A q \in Pkgs :
             /\ q \in Installs(o) => Original[q] = "absent"
             /\ q \in Changes(o) \ Installs(o) => Original[q] # "absent"
             /\ q \in Removes(o) => plan[o].target[q] = "absent"
    BY <1>1, <1>7, LoadedFacts, ChangeFacts DEF SoloOp
  <2>4. live[p] = Original[p] /\ p \in Changes(o)
    BY <1>1, <2>1 DEF PackageSwap, Half
  <2>5. \A q \in Pkgs : PackageEvidence(o, q)'
    <3>1. \A q \in Pkgs \ {p} : PackageEvidence(o, q)'
      BY <1>1, <1>4, <1>5, <2>2, PlanSame DEF PackageEvidence
    <3>2. PackageEvidence(o, p)'
      BY <1>1, <1>4, <1>5, <2>3, <2>4, PlanSame DEF PackageEvidence
    <3> QED
      BY <3>1, <3>2
  <2>6. ManifestEvidence(o)'
    BY <1>1, <1>4, <2>2 DEF ManifestEvidence
  <2>7. FilesInv(o)'
    BY <1>4, <2>1, <2>5, <2>6 DEF FilesInv, Destructive, Wrote
  <2>8. \A q \in Pkgs : PackageSwap(o, q)'
    <3>1. ASSUME NEW q \in Pkgs \ {p} PROVE PackageSwap(o, q)'
      <4>1. ~Half(o, q)'
        <5>1. pc = "publish" => todo = w[o].todo /\ ~First(w[o].todo, q)
          BY <1>1, <1>h, PackageApplyAssumption DEF First
        <5> QED
          BY <1>4, <5>1 DEF Half
      <4>2. ~Half(o, q)
        BY <1>1 DEF Half
      <4> QED
        BY <1>1, <1>4, <1>5, <1>h, <2>1, <4>1, <4>2, PlanSame DEF PackageSwap
    <3>2. PackageSwap(o, p)'
      <4>1. CASE p \in Removes(o)
        <5>1. ~Half(o, p)'
          BY <1>4, <1>h, <4>1 DEF Half
        <5> QED
          BY <1>1, <1>4, <1>5, <1>h, <2>3, <4>1, <5>1, PlanSame DEF PackageSwap
      <4>2. CASE p \notin Removes(o)
        <5>1. Half(o, p)'
          BY <1>1, <1>4, <1>h, <4>2 DEF Half
        <5> QED
          BY <1>1, <1>4, <1>5, <1>h, <2>4, <4>2, <5>1, PlanSame DEF PackageSwap
      <4> QED
        BY <4>1, <4>2
    <3> QED
      BY <3>1, <3>2
  <2>9. w'[o].todo \subseteq Changes(o)'
    BY <1>1, <1>4, <1>h, <2>1, PlanSame
  <2>10. ProgressInv(o)'
    BY <1>1, <1>4, <1>6, <1>h, <2>1, <2>8, <2>9, LoadedFacts DEF ProgressInv
  <2> QED
    BY <1>4, <2>1, <2>7, <2>10
<1>8. /\ w'[o].after = w[o].after
      /\ \A q \in Ops \ {o} : att'[q] = att[q] /\ w'[q] = w[q]
  BY <1>3, <1>4
<1> QED
  BY <1>1, <1>6, <1>7, <1>8, RunSolo

LEMMA PublishSolo ==
    ASSUME IInv, SoloInv, NEW o \in Ops, NEW p \in Pkgs, Publish(o, p)
    PROVE  SoloInv'
<1>1. /\ w[o].pc = "publish" /\ w[o].pc \in Loaded /\ w[o].pc \in Writing
      /\ UNCHANGED <<state, cancelReq, plan, project, manifest, daemon, crashes, faults>>
      /\ First(w[o].todo, p) /\ p \in w[o].todo
  BY DEF Publish, At, db, bounds, Loaded, PCs, Writing, First
<1>2. /\ att' = [att EXCEPT ![o] = [att[o] EXCEPT !.staged = att[o].staged \ {p}]]
      /\ w' = [w EXCEPT ![o] = [w[o] EXCEPT !.pc = "swap", !.todo = w[o].todo \ {p}]]
      /\ live' = [live EXCEPT ![p] = o]
  <2>1. w' = [w EXCEPT ![o] = [w[o] EXCEPT !.pc = "swap", !.todo = w[o].todo \ {p}]]
    BY DEF Publish
  <2>2. att' = [att EXCEPT ![o].staged = @ \ {p}] /\ live' = [live EXCEPT ![p] = o]
    BY DEF Publish
  <2> QED
    BY <2>1, <2>2
<1>3. /\ att'[o] = [att[o] EXCEPT !.staged = att[o].staged \ {p}]
      /\ w'[o] = [w[o] EXCEPT !.pc = "swap", !.todo = w[o].todo \ {p}]
      /\ \A a \in Ops \ {o} : att'[a] = att[a] /\ w'[a] = w[a]
  BY <1>2 DEF IInv, TypeOK
<1>4. /\ att'[o].mark = att[o].mark /\ att'[o].staged = att[o].staged \ {p}
      /\ att'[o].backup = att[o].backup /\ att'[o].rolled = att[o].rolled
      /\ att'[o].oldManifest = att[o].oldManifest /\ att'[o].newManifest = att[o].newManifest
      /\ w'[o].pc = "swap" /\ w'[o].todo = w[o].todo \ {p} /\ w'[o].after = w[o].after
      /\ live \in Tree
  BY <1>1, <1>3, LoadedFacts DEF Attempt, Worker
<1>5. live'[p] = o /\ \A q \in Pkgs \ {p} : live'[q] = live[q]
  BY <1>2, <1>4 DEF Tree
<1>6. w'[o].pc \in Loaded /\ w'[o].pc \notin Preparing \cup Committed /\ w'[o].pc # "create"
  BY <1>4 DEF Loaded, PCs, Preparing, Committed
<1>7. ASSUME SoloOp(o)
      PROVE  FilesInv(o)' /\ ProgressInv(o)' /\ att'[o].mark \in Destructive
  <2>1. /\ att[o].mark \in Destructive /\ att[o].rolled = Nothing /\ att[o].newManifest = None
        /\ manifest = Original /\ att[o].oldManifest = None
        /\ w[o].todo \subseteq Changes(o) /\ \A q \in Pkgs : PackageSwap(o, q)
    BY <1>1, <1>7 DEF SoloOp, MarkerInv, ProgressInv
  <2>2. ManifestEvidence(o) /\ \A q \in Pkgs : PackageEvidence(o, q)
    BY <1>7, <2>1 DEF SoloOp, FilesInv
  <2>3. /\ \A q \in Pkgs : q \in Changes(o) \ Removes(o) => plan[o].target[q] = o
        /\ p \in Changes(o) \ Installs(o) => Original[p] # "absent"
    BY <1>1, <1>7, LoadedFacts, ChangeFacts DEF SoloOp
  <2>4. p \in Changes(o) /\ p \notin Removes(o) /\ att[o].backup[p] = Original[p] /\ Half(o, p)
    BY <1>1, <2>1 DEF PackageSwap, Half
  <2>5. \A q \in Pkgs : PackageEvidence(o, q)'
    <3>1. \A q \in Pkgs \ {p} : PackageEvidence(o, q)'
      BY <1>1, <1>4, <1>5, <2>2, PlanSame DEF PackageEvidence
    <3>2. PackageEvidence(o, p)'
      BY <1>1, <1>4, <2>1, <2>3, <2>4, PlanSame DEF PackageEvidence, Nothing
    <3> QED
      BY <3>1, <3>2
  <2>6. ManifestEvidence(o)'
    BY <1>1, <1>4, <2>2 DEF ManifestEvidence
  <2>7. FilesInv(o)'
    BY <1>4, <2>1, <2>5, <2>6 DEF FilesInv, Destructive, Wrote
  <2>8. \A q \in Pkgs : PackageSwap(o, q)'
    <3>1. ASSUME NEW q \in Pkgs \ {p} PROVE PackageSwap(o, q)'
      <4>1. ~Half(o, q)' /\ ~Half(o, q)
        BY <1>1, <1>4, PackageApplyAssumption DEF Half, First
      <4> QED
        BY <1>1, <1>4, <1>5, <2>1, <4>1, PlanSame DEF PackageSwap
    <3>2. PackageSwap(o, p)'
      BY <1>1, <1>4, <1>5, <2>3, <2>4, PlanSame DEF PackageSwap, Half
    <3> QED
      BY <3>1, <3>2
  <2>9. ProgressInv(o)'
    BY <1>1, <1>4, <1>6, <2>1, <2>8, LoadedFacts, PlanSame DEF ProgressInv
  <2> QED
    BY <1>4, <2>1, <2>7, <2>9
<1>8. /\ w[o].pc \in Loaded /\ w'[o].pc \in Loaded
      /\ UNCHANGED <<state, cancelReq, plan, project, daemon, crashes>>
      /\ w'[o].after = "stop" => w[o].after = "stop" \/ faults' > 0
      /\ faults > 0 => faults' > 0
  BY <1>1, <1>3, <1>4, <1>6
<1>9. \A a \in Ops \ {o} : w'[a] = w[a] /\ att'[a] = att[a]
  BY <1>1, <1>3, <1>4, <1>6
<1> QED
  BY <1>6, <1>7, <1>8, <1>9, RunSolo

LEMMA SwappedSolo == ASSUME IInv, SoloInv, NEW o \in Ops, Swapped(o) PROVE SoloInv'
<1>1. /\ w[o].pc = "swap" /\ w[o].todo = {} /\ w[o].pc \in Loaded /\ w[o].pc \in Writing
      /\ UNCHANGED <<state, cancelReq, plan, project, live, manifest, att, daemon, crashes, faults>>
  BY DEF Swapped, At, db, files, bounds, Loaded, PCs, Writing
<1>2. w'[o] = [w[o] EXCEPT !.pc = "commitIntent"] /\ \A a \in Ops \ {o} : w'[a] = w[a]
  BY DEF Swapped, Go, IInv, TypeOK
<1>3. w'[o].pc = "commitIntent" /\ w'[o].after = w[o].after
  BY <1>1, <1>2, LoadedFacts DEF Worker
<1>4. w'[o].pc \in Loaded /\ w'[o].pc \notin Preparing \cup Committed \cup {"create"}
  BY <1>3 DEF Loaded, PCs, Preparing, Committed
<1>5. ASSUME SoloOp(o)
      PROVE  FilesInv(o)' /\ ProgressInv(o)' /\ att'[o].mark \in Destructive
  <2>1. \A p \in Changes(o) : p \in Pkgs /\ live[p] = plan[o].target[p]
    BY <1>1, <1>5 DEF SoloOp, ProgressInv, PackageSwap, Changes
  <2>2. FilesInv(o)'
    BY <1>1, <1>5, FilesSame DEF SoloOp
  <2>3. ProgressInv(o)'
    BY <1>1, <1>3, <1>4, <1>5, <2>1, LoadedFacts, PlanSame DEF SoloOp, ProgressInv
  <2>4. att'[o].mark \in Destructive
    BY <1>1, <1>5 DEF SoloOp, MarkerInv
  <2> QED
    BY <2>2, <2>3, <2>4
<1>6. /\ w[o].pc \in Loaded /\ w'[o].pc \in Loaded
      /\ UNCHANGED <<state, cancelReq, plan, project, daemon, crashes>>
      /\ w'[o].after = "stop" => w[o].after = "stop" \/ faults' > 0
      /\ faults > 0 => faults' > 0
  BY <1>1, <1>2, <1>3, <1>4
<1>7. \A a \in Ops \ {o} : w'[a] = w[a] /\ att'[a] = att[a]
  BY <1>1, <1>2, <1>3, <1>4
<1> QED
  BY <1>4, <1>5, <1>6, <1>7, RunSolo

LEMMA CommitIntentSolo ==
    ASSUME IInv, SoloInv, NEW o \in Ops,
           Mark(o, "commitIntent", "vpm_manifest_committed", "commit1", {})
    PROVE  SoloInv'
<1>1. /\ w[o].pc = "commitIntent" /\ w[o].pc \in Loaded /\ w[o].pc \in Writing
      /\ UNCHANGED <<state, cancelReq, plan, project, live, manifest, daemon, crashes, faults>>
  BY DEF Mark, At, db, bounds, Loaded, PCs, Writing
<1>2. /\ att'[o] = [att[o] EXCEPT !.mark = "vpm_manifest_committed"]
      /\ w'[o] = [w[o] EXCEPT !.pc = "commit1", !.todo = {}]
      /\ \A a \in Ops \ {o} : att'[a] = att[a] /\ w'[a] = w[a]
  BY DEF Mark, IInv, TypeOK
<1>3. /\ att'[o].mark = "vpm_manifest_committed" /\ att'[o].staged = att[o].staged
      /\ att'[o].backup = att[o].backup /\ att'[o].rolled = att[o].rolled
      /\ att'[o].oldManifest = att[o].oldManifest /\ att'[o].newManifest = att[o].newManifest
      /\ w'[o].pc = "commit1" /\ w'[o].after = w[o].after
  BY <1>1, <1>2, LoadedFacts DEF Attempt, Worker
<1>4. w'[o].pc \in Loaded /\ w'[o].pc \notin Preparing \cup Committed \cup {"create"}
      /\ att'[o].mark \in Destructive
  BY <1>3 DEF Loaded, PCs, Preparing, Committed, Destructive
<1>5. ASSUME SoloOp(o) PROVE FilesInv(o)' /\ ProgressInv(o)'
  <2>1. ManifestEvidence(o) /\ \A q \in Pkgs : PackageEvidence(o, q)
    BY <1>1, <1>5 DEF SoloOp, FilesInv, MarkerInv
  <2>2. \A q \in Pkgs : PackageEvidence(o, q)'
    BY <1>1, <1>3, <2>1, PlanSame DEF PackageEvidence
  <2>3. ManifestEvidence(o)'
    BY <1>1, <1>3, <2>1 DEF ManifestEvidence
  <2>4. FilesInv(o)'
    BY <1>4, <2>2, <2>3 DEF FilesInv, Destructive, Wrote
  <2>5. ProgressInv(o)'
    BY <1>1, <1>3, <1>4, <1>5, LoadedFacts, PlanSame DEF SoloOp, ProgressInv
  <2> QED
    BY <2>4, <2>5
<1>6. /\ w[o].pc \in Loaded /\ w'[o].pc \in Loaded
      /\ UNCHANGED <<state, cancelReq, plan, project, daemon, crashes>>
      /\ w'[o].after = "stop" => w[o].after = "stop" \/ faults' > 0
      /\ faults > 0 => faults' > 0
  BY <1>1, <1>2, <1>3, <1>4
<1>7. \A a \in Ops \ {o} : w'[a] = w[a] /\ att'[a] = att[a]
  BY <1>1, <1>2, <1>3, <1>4
<1> QED
  BY <1>4, <1>5, <1>6, <1>7, RunSolo

LEMMA CommitSolo ==
    ASSUME IInv, SoloInv, NEW o \in Ops, CommitManifestAway(o) \/ CommitManifest(o)
    PROVE  SoloInv'
<1>1. /\ w[o].pc \in {"commit1", "commit2"} /\ w[o].pc \in Loaded /\ w[o].pc \in Writing
      /\ UNCHANGED <<state, cancelReq, plan, project, live, daemon, crashes, faults>>
  BY DEF CommitManifestAway, CommitManifest, At, db, bounds, Loaded, PCs, Writing
<1>2. /\ w'[o] = [w[o] EXCEPT !.pc = IF w[o].pc = "commit1" THEN "commit2" ELSE "verify"]
      /\ \A a \in Ops \ {o} : att'[a] = att[a] /\ w'[a] = w[a]
      /\ att'[o] = IF w[o].pc = "commit1" THEN [att[o] EXCEPT !.oldManifest = manifest] ELSE att[o]
      /\ manifest' = IF w[o].pc = "commit1" THEN None ELSE plan[o].target
  <2>1. CASE CommitManifestAway(o)
    BY <2>1 DEF CommitManifestAway, At, Go, IInv, TypeOK
  <2>2. CASE CommitManifest(o)
    BY <2>2 DEF CommitManifest, At, Go, IInv, TypeOK
  <2> QED
    BY <2>1, <2>2
<1>3. /\ att'[o].mark = att[o].mark /\ att'[o].staged = att[o].staged
      /\ att'[o].backup = att[o].backup /\ att'[o].rolled = att[o].rolled
      /\ att'[o].oldManifest = IF w[o].pc = "commit1" THEN manifest ELSE att[o].oldManifest
      /\ att'[o].newManifest = att[o].newManifest
      /\ w'[o].pc = IF w[o].pc = "commit1" THEN "commit2" ELSE "verify"
      /\ w'[o].after = w[o].after
  BY <1>1, <1>2, LoadedFacts DEF Attempt, Worker
<1>4. w'[o].pc \in Loaded /\ w'[o].pc \notin Preparing \cup Committed \cup {"create"}
  BY <1>3 DEF Loaded, PCs, Preparing, Committed
<1>5. ASSUME SoloOp(o)
      PROVE  FilesInv(o)' /\ ProgressInv(o)' /\ att'[o].mark \in Destructive
  <2>1. att[o].mark \in Destructive /\ att[o].newManifest = None
    BY <1>1, <1>5 DEF SoloOp, MarkerInv, ProgressInv
  <2>2. /\ ManifestEvidence(o) /\ \A q \in Pkgs : PackageEvidence(o, q)
        /\ w[o].pc = "commit1" => manifest = Original
        /\ w[o].pc = "commit2" => att[o].oldManifest = Original
    BY <1>1, <1>5, <2>1 DEF SoloOp, FilesInv, ProgressInv
  <2>3. \A q \in Pkgs : PackageEvidence(o, q)'
    BY <1>1, <1>3, <2>2, PlanSame DEF PackageEvidence
  <2>4. ManifestEvidence(o)'
    BY <1>1, <1>2, <1>3, <2>1, <2>2, OriginalIsTree DEF ManifestEvidence
  <2>5. FilesInv(o)'
    BY <1>3, <2>1, <2>3, <2>4 DEF FilesInv, Destructive, Wrote
  <2>6. ProgressInv(o)'
    BY <1>1, <1>2, <1>3, <1>4, <1>5, <2>1, <2>2, LoadedFacts, PlanSame DEF SoloOp, ProgressInv
  <2> QED
    BY <1>3, <2>1, <2>5, <2>6
<1>6. /\ w[o].pc \in Loaded /\ w'[o].pc \in Loaded
      /\ UNCHANGED <<state, cancelReq, plan, project, daemon, crashes>>
      /\ w'[o].after = "stop" => w[o].after = "stop" \/ faults' > 0
      /\ faults > 0 => faults' > 0
  BY <1>1, <1>2, <1>3, <1>4
<1>7. \A a \in Ops \ {o} : w'[a] = w[a] /\ att'[a] = att[a]
  BY <1>1, <1>2, <1>3, <1>4
<1> QED
  BY <1>4, <1>5, <1>6, <1>7, RunSolo

LEMMA VerifiedSolo ==
    ASSUME IInv, SoloInv, NEW o \in Ops, Verify(o), Final(o)
    PROVE  SoloInv'
<1>1. /\ w[o].pc = "verify" /\ w[o].pc \in Loaded /\ w[o].pc \in Writing
      /\ UNCHANGED <<state, cancelReq, plan, project, live, manifest, daemon, crashes, faults>>
  BY DEF Verify, At, db, bounds, Loaded, PCs, Writing
<1>2. /\ w'[o] = [w[o] EXCEPT !.pc = "inspect"]
      /\ att'[o] = [att[o] EXCEPT !.mark = "filesystem_committed"]
      /\ \A a \in Ops \ {o} : att'[a] = att[a] /\ w'[a] = w[a]
  BY DEF Verify, Go, IInv, TypeOK
<1>3. /\ att'[o].mark = "filesystem_committed" /\ w'[o].pc = "inspect"
      /\ w'[o].after = w[o].after
  BY <1>1, <1>2, LoadedFacts DEF Attempt, Worker
<1>4. w'[o].pc \in Loaded
      /\ w'[o].pc \notin Preparing \cup Writing \cup {"create", "lockUndo", "undo"}
  BY <1>3 DEF Loaded, PCs, Preparing, Writing
<1>5. ASSUME SoloOp(o) PROVE FilesInv(o)' /\ ProgressInv(o)'
  <2>1. \A p \in Pkgs : PackageEvidence(o, p)
    BY <1>1, <1>5 DEF SoloOp, FilesInv, MarkerInv
  <2>2. /\ plan[o].target \in Tree
        /\ \A p \in Pkgs : p \notin Changes(o) => plan[o].target[p] = Original[p]
    BY <1>1, <1>5, LoadedFacts, ChangeFacts DEF SoloOp
  <2>3. \A p \in Pkgs : live[p] = plan[o].target[p]
    BY <2>1, <2>2 DEF PackageEvidence, Final
  <2>4. live = plan[o].target
    BY <1>1, <2>2, <2>3, LoadedFacts DEF Tree
  <2>5. FilesInv(o)'
    BY <1>1, <1>3, <2>4 DEF FilesInv, Final, Destructive, Wrote
  <2>6. ProgressInv(o)'
    BY <1>1, <1>3, <1>4, LoadedFacts DEF ProgressInv
  <2> QED
    BY <2>5, <2>6
<1>6. /\ w[o].pc \in Loaded /\ w'[o].pc \in Loaded
      /\ UNCHANGED <<state, cancelReq, plan, project, daemon, crashes>>
      /\ w'[o].after = "stop" => w[o].after = "stop" \/ faults' > 0
      /\ faults > 0 => faults' > 0
  BY <1>1, <1>2, <1>3, <1>4
<1>7. \A a \in Ops \ {o} : w'[a] = w[a] /\ att'[a] = att[a]
  BY <1>1, <1>2, <1>3, <1>4
<1> QED
  BY <1>3, <1>4, <1>5, <1>6, <1>7, RunSolo

Turned(v, S, next) == [v EXCEPT !.pc = "undo", !.todo = S, !.after = next]

LEMMA TurnFields ==
    ASSUME NEW v \in Worker, NEW S \in SUBSET Pkgs, NEW next \in {"fail", "stop"}
    PROVE  /\ Turned(v, S, next).pc = "undo" /\ Turned(v, S, next).todo = S
           /\ Turned(v, S, next).after = next
<1> DEFINE a == [v EXCEPT !.pc = "undo"]
           b == [a EXCEPT !.todo = S]
           c == [b EXCEPT !.after = next]
<1>1. a \in Worker /\ a.pc = "undo"
  BY DEF Worker, PCs
<1> HIDE DEF a
<1>2. b \in Worker /\ b.pc = "undo" /\ b.todo = S
  BY <1>1 DEF Worker
<1> HIDE DEF b
<1>3. c.pc = "undo" /\ c.todo = S /\ c.after = next
  BY <1>2 DEF Worker
<1> QED
  BY <1>3 DEF a, b, Turned

\* A worker in the swap or the commit turns to the rollback.
LEMMA TurnSolo ==
    ASSUME IInv, SoloInv, NEW o \in Ops, NEW next \in {"fail", "stop"},
           w[o].pc \in Writing,
           UNCHANGED <<state, cancelReq, plan, project, live, manifest, att, daemon, crashes>>,
           faults > 0 => faults' > 0, next = "stop" => faults' > 0,
           w'[o] = Turned(w[o], Changes(o), next), \A a \in Ops \ {o} : w'[a] = w[a]
    PROVE  SoloInv'
<1>1. w[o].pc \in Loaded
  BY DEF Loaded, Writing, PCs
<1>3. w'[o].pc = "undo" /\ w'[o].todo = Changes(o) /\ w'[o].after = next
  <2>1. w[o] \in Worker /\ Changes(o) \in SUBSET Pkgs
    BY DEF IInv, TypeOK, Changes
  <2> QED
    BY <2>1, TurnFields
<1>4. w'[o].pc \in Loaded
      /\ w'[o].pc \notin Preparing \cup Writing \cup Committed \cup {"create"}
  BY <1>3 DEF Loaded, PCs, Preparing, Writing, Committed
<1>5. ASSUME SoloOp(o)
      PROVE  FilesInv(o)' /\ ProgressInv(o)' /\ att'[o].mark \in Destructive
  <2>1. FilesInv(o)'
    BY <1>5, FilesSame DEF SoloOp
  <2>2. ProgressInv(o)'
    BY <1>1, <1>3, <1>4, LoadedFacts, PlanSame DEF ProgressInv
  <2> QED
    BY <1>5, <2>1, <2>2 DEF SoloOp, MarkerInv
<1> QED
  BY <1>1, <1>3, <1>4, <1>5, RunSolo

LEMMA TurnsSolo ==
    ASSUME IInv, SoloInv, NEW o \in Ops,
           \/ UndoError(o)
           \/ Verify(o) /\ ~Final(o)
           \/ \E p \in Pkgs : Swap(o, p) /\ ~((live[p] = "absent") <=> (p \in Installs(o)))
    PROVE  SoloInv'
<1>0. faults \in Nat
  BY DEF IInv, TypeOK
<1>1. CASE UndoError(o)
  <2>1. /\ w[o].pc \in Writing /\ faults' > 0
        /\ UNCHANGED <<state, cancelReq, plan, project, live, manifest, att, daemon, crashes>>
    BY <1>0, <1>1 DEF UndoError, Failing, Writing, db, files
  <2>2. PICK next \in {"fail", "stop"} :
            w'[o] = Turned(w[o], Changes(o), next) /\ \A a \in Ops \ {o} : w'[a] = w[a]
    BY <1>1 DEF UndoError, Turned, IInv, TypeOK
  <2> QED
    BY <2>1, <2>2, TurnSolo
<1>2. CASE Verify(o) /\ ~Final(o)
  <2>1. /\ w[o].pc \in Writing
        /\ UNCHANGED <<state, cancelReq, plan, project, live, manifest, att, daemon, crashes, faults>>
        /\ w'[o] = Turned(w[o], Changes(o), "fail") /\ \A a \in Ops \ {o} : w'[a] = w[a]
    BY <1>2 DEF Verify, At, Writing, db, bounds, Turned, IInv, TypeOK
  <2> QED
    BY <2>1, TurnSolo
<1>3. ASSUME NEW p \in Pkgs, Swap(o, p), ~((live[p] = "absent") <=> (p \in Installs(o)))
      PROVE  SoloInv'
  <2>1. /\ w[o].pc \in Writing
        /\ UNCHANGED <<state, cancelReq, plan, project, live, manifest, att, daemon, crashes, faults>>
        /\ w'[o] = Turned(w[o], Changes(o), "fail") /\ \A a \in Ops \ {o} : w'[a] = w[a]
    <3>1. w' = [w EXCEPT ![o] = [w[o] EXCEPT !.pc = "undo", !.todo = Changes(o),
                                             !.after = "fail"]]
          /\ UNCHANGED <<live, att>> /\ At(o, "swap")
          /\ UNCHANGED <<db, manifest, daemon, lock, peek, bounds>>
      BY <1>3, Zenon DEF Swap
    <3> QED
      BY <3>1 DEF At, Writing, db, bounds, Turned, IInv, TypeOK
  <2> QED
    BY <2>1, TurnSolo
<1> QED
  BY <1>1, <1>2, <1>3

LEMMA UndoManifestSolo == ASSUME IInv, SoloInv, NEW o \in Ops, UndoManifest(o) PROVE SoloInv'
<1>1. /\ w[o].pc = "undo" /\ w[o].pc \in Loaded /\ w[o].pc # "idle"
      /\ UNCHANGED <<state, cancelReq, plan, project, live, daemon, crashes, faults>>
      /\ att[o].oldManifest # None
      /\ w[o].pc \notin Preparing \cup Writing \cup Committed \cup {"create", "failing"}
  BY DEF UndoManifest, At, db, bounds, Loaded, PCs, Preparing, Writing, Committed
<1>2. CASE manifest # None /\ att[o].newManifest # None
  <2>1. EndTask(o) /\ UNCHANGED <<att, manifest>> /\ state[o] # "absent"
    BY <1>1, <1>2, LoadedFacts DEF UndoManifest
  <2>2. ~SoloOp(o)
    BY <1>1, <1>2 DEF SoloOp, FilesInv, MarkerInv, ManifestEvidence
  <2>3. project \in Row /\ project.rev >= project.rev
    BY DEF IInv, TypeOK, Row
  <2> QED
    BY <1>1, <2>1, <2>2, <2>3, EndOthers
<1>3. CASE manifest = None \/ att[o].newManifest = None
  <2>1. w' = w /\ att[o] \in Attempt /\ manifest \in Tree \cup {None}
    BY <1>1, <1>3, LoadedFacts DEF UndoManifest
  <2>2. /\ \A a \in Ops \ {o} : att'[a] = att[a]
        /\ \/ /\ manifest # None /\ manifest' = None
              /\ att'[o] = [att[o] EXCEPT !.newManifest = manifest]
           \/ /\ manifest = None /\ manifest' = att[o].oldManifest
              /\ att'[o] = [att[o] EXCEPT !.oldManifest = None]
    BY <1>3 DEF UndoManifest, IInv, TypeOK
  <2>3. /\ att'[o].mark = att[o].mark /\ att'[o].staged = att[o].staged
        /\ att'[o].backup = att[o].backup /\ att'[o].rolled = att[o].rolled
        /\ \/ /\ manifest # None /\ manifest' = None
              /\ att'[o].newManifest = manifest /\ att'[o].oldManifest = att[o].oldManifest
           \/ /\ manifest = None /\ manifest' = att[o].oldManifest
              /\ att'[o].newManifest = att[o].newManifest /\ att'[o].oldManifest = None
    BY <2>1, <2>2 DEF Attempt
  <2>4. ASSUME SoloOp(o)
        PROVE  FilesInv(o)' /\ ProgressInv(o)' /\ att'[o].mark \in Destructive
    <3>1. att[o].mark \in Destructive
      BY <1>1, <2>4 DEF SoloOp, MarkerInv
    <3>2. ManifestEvidence(o) /\ \A p \in Pkgs : PackageEvidence(o, p)
      BY <2>4, <3>1 DEF SoloOp, FilesInv
    <3>3. \A p \in Pkgs : PackageEvidence(o, p)'
      BY <1>1, <2>3, <3>2, PlanSame DEF PackageEvidence
    <3>4. ManifestEvidence(o)'
      BY <1>1, <2>3, <3>2 DEF ManifestEvidence
    <3>5. FilesInv(o)'
      BY <2>3, <3>1, <3>3, <3>4 DEF FilesInv, Destructive, Wrote
    <3>6. ProgressInv(o)'
      BY <1>1, <2>1, <2>4, LoadedFacts, PlanSame DEF SoloOp, ProgressInv
    <3> QED
      BY <2>3, <3>1, <3>5, <3>6
  <2> QED
    BY <1>1, <2>1, <2>2, <2>4, RunSolo
<1> QED
  BY <1>2, <1>3

LEMMA UndoPackageSolo ==
    ASSUME IInv, SoloInv, NEW o \in Ops, NEW p \in Pkgs, UndoPackage(o, p)
    PROVE  SoloInv'
<1>1. /\ w[o].pc = "undo" /\ w[o].pc \in Loaded /\ w[o].pc # "idle"
      /\ UNCHANGED <<state, cancelReq, plan, project, manifest, daemon, crashes, faults>>
      /\ att[o].oldManifest = None /\ p \in w[o].todo
      /\ w[o].pc \notin Preparing \cup Writing \cup Committed \cup {"create", "failing"}
  BY DEF UndoPackage, At, db, bounds, Loaded, PCs, Preparing, Writing, Committed, Last
<1>2. /\ att[o] \in Attempt /\ w[o] \in Worker /\ live \in Tree /\ state[o] # "absent"
      /\ project \in Row /\ project.rev >= project.rev
  BY <1>1, LoadedFacts DEF IInv, TypeOK, Row
\* What the evidence says of p.
<1>3. ASSUME SoloOp(o)
      PROVE  /\ att[o].mark \in Destructive /\ manifest = Original
             /\ \A q \in Pkgs : PackageEvidence(o, q)
             /\ \A q \in Changes(o) \ w[o].todo : live[q] = Original[q]
             /\ p \in Changes(o) /\ w[o].todo \subseteq Changes(o)
             /\ p \in Installs(o) => Original[p] = "absent"
             /\ p \notin Installs(o) => Original[p] # "absent"
  <2>1. att[o].mark \in Destructive
    BY <1>1, <1>3 DEF SoloOp, MarkerInv
  <2>2. ManifestEvidence(o) /\ \A q \in Pkgs : PackageEvidence(o, q)
    BY <1>3, <2>1 DEF SoloOp, FilesInv
  <2>3. /\ \A q \in Changes(o) \ w[o].todo : live[q] = Original[q]
        /\ p \in Changes(o) /\ w[o].todo \subseteq Changes(o)
    BY <1>1, <1>3 DEF SoloOp, ProgressInv
  <2>4. /\ p \in Installs(o) => Original[p] = "absent"
        /\ p \notin Installs(o) => Original[p] # "absent"
    BY <1>1, <1>3, <2>3, LoadedFacts, ChangeFacts DEF SoloOp
  <2> QED
    BY <1>1, <2>1, <2>2, <2>3, <2>4 DEF ManifestEvidence
\* What a step leaves to be shown, with p in or out of the loop.
<1>4. ASSUME \A a \in Ops \ {o} : att'[a] = att[a] /\ w'[a] = w[a],
             att'[o].mark = att[o].mark, att'[o].staged = att[o].staged,
             att'[o].oldManifest = None, att'[o].newManifest = att[o].newManifest,
             \A q \in Pkgs \ {p} : /\ live'[q] = live[q]
                                   /\ att'[o].backup[q] = att[o].backup[q]
                                   /\ att'[o].rolled[q] = att[o].rolled[q],
             SoloOp(o) => PackageEvidence(o, p)',
             w'[o].pc = "undo", w'[o].after = w[o].after,
             \/ w'[o].todo = w[o].todo
             \/ w'[o].todo = w[o].todo \ {p} /\ (SoloOp(o) => live'[p] = Original[p])
      PROVE  SoloInv'
  <2>1. ASSUME SoloOp(o)
        PROVE  FilesInv(o)' /\ ProgressInv(o)' /\ att'[o].mark \in Destructive
    <3>1. \A q \in Pkgs \ {p} : PackageEvidence(o, q)'
      BY <1>1, <1>3, <1>4, <2>1, PlanSame DEF PackageEvidence
    <3>2. ManifestEvidence(o)'
      BY <1>1, <1>3, <1>4, <2>1 DEF ManifestEvidence
    <3>3. FilesInv(o)'
      BY <1>3, <1>4, <2>1, <3>1, <3>2 DEF FilesInv, Destructive, Wrote
    <3>4. /\ w'[o].todo \subseteq Changes(o)
          /\ \A q \in Changes(o) \ w'[o].todo : q \in Pkgs /\ live'[q] = Original[q]
      BY <1>1, <1>3, <1>4, <2>1 DEF Changes
    <3>5. ProgressInv(o)'
      BY <1>1, <1>4, <3>4, LoadedFacts, PlanSame DEF ProgressInv
    <3> QED
      BY <1>3, <1>4, <2>1, <3>3, <3>5
  <2>2. w'[o].pc = w[o].pc
    BY <1>1, <1>4
  <2> QED
    BY <1>1, <1>4, <2>1, <2>2, RunSolo
\* Something of this attempt goes to rolled-forward-content.
<1>5. CASE Published(o, p)
  <2>1. /\ att' = [att EXCEPT ![o] = [att[o] EXCEPT
                      !.rolled = [att[o].rolled EXCEPT ![p] = live[p]]]]
        /\ live' = [live EXCEPT ![p] = "absent"] /\ w' = w
    BY <1>5 DEF UndoPackage
  <2>2. /\ att'[o] = [att[o] EXCEPT !.rolled = [att[o].rolled EXCEPT ![p] = live[p]]]
        /\ \A a \in Ops \ {o} : att'[a] = att[a]
    BY <2>1 DEF IInv, TypeOK
  <2>3. /\ att'[o].mark = att[o].mark /\ att'[o].staged = att[o].staged
        /\ att'[o].backup = att[o].backup
        /\ att'[o].rolled = [att[o].rolled EXCEPT ![p] = live[p]] /\ att[o].rolled \in Tree
        /\ att'[o].oldManifest = att[o].oldManifest /\ att'[o].newManifest = att[o].newManifest
    BY <1>2, <2>2 DEF Attempt
  <2>4. /\ live'[p] = "absent"
        /\ \A q \in Pkgs \ {p} : live'[q] = live[q] /\ att'[o].rolled[q] = att[o].rolled[q]
    BY <1>2, <2>1, <2>3 DEF Tree
  <2>5. ASSUME SoloOp(o) PROVE PackageEvidence(o, p)'
    <3>1. p \in Changes(o) /\ (p \notin Installs(o) => att[o].backup[p] # "absent")
      BY <1>3, <1>5, <2>5 DEF Published
    <3> QED
      BY <1>1, <1>3, <2>3, <2>4, <2>5, <3>1, PlanSame DEF PackageEvidence
  <2> QED
    BY <1>1, <1>4, <2>1, <2>2, <2>3, <2>4, <2>5
\* It cannot be that the old package has come back already: then the content that
\* stands in its place has not been taken away.
<1>6. CASE ~Published(o, p) /\ BackedUp(o, p) /\ live[p] # "absent"
  <2>1. EndTask(o) /\ UNCHANGED <<live, att>>
    BY <1>6 DEF UndoPackage
  <2>2. ~SoloOp(o)
    BY <1>3, <1>6 DEF Published, BackedUp, PackageEvidence
  <2> QED
    BY <1>1, <1>2, <2>1, <2>2, EndOthers
<1>7. CASE ~Published(o, p) /\ BackedUp(o, p) /\ live[p] = "absent"
  <2>1. /\ att' = [att EXCEPT ![o] = [att[o] EXCEPT
                      !.backup = [att[o].backup EXCEPT ![p] = "absent"]]]
        /\ live' = [live EXCEPT ![p] = att[o].backup[p]]
        /\ w' = [w EXCEPT ![o] = [w[o] EXCEPT !.todo = w[o].todo \ {p}]]
    BY <1>7 DEF UndoPackage
  <2>2. /\ att'[o] = [att[o] EXCEPT !.backup = [att[o].backup EXCEPT ![p] = "absent"]]
        /\ w'[o] = [w[o] EXCEPT !.todo = w[o].todo \ {p}]
        /\ \A a \in Ops \ {o} : att'[a] = att[a] /\ w'[a] = w[a]
    BY <2>1 DEF IInv, TypeOK
  <2>3. /\ att'[o].mark = att[o].mark /\ att'[o].staged = att[o].staged
        /\ att'[o].rolled = att[o].rolled
        /\ att'[o].backup = [att[o].backup EXCEPT ![p] = "absent"] /\ att[o].backup \in Tree
        /\ att'[o].oldManifest = att[o].oldManifest /\ att'[o].newManifest = att[o].newManifest
        /\ w'[o].pc = "undo" /\ w'[o].after = w[o].after /\ w'[o].todo = w[o].todo \ {p}
    BY <1>1, <1>2, <2>2 DEF Attempt, Worker
  <2>4. /\ live'[p] = att[o].backup[p] /\ att'[o].backup[p] = "absent"
        /\ \A q \in Pkgs \ {p} : live'[q] = live[q] /\ att'[o].backup[q] = att[o].backup[q]
    BY <1>2, <2>1, <2>3 DEF Tree
  <2>5. ASSUME SoloOp(o) PROVE live'[p] = Original[p] /\ PackageEvidence(o, p)'
    <3>1. live'[p] = Original[p] /\ p \in Changes(o) \ Installs(o)
      BY <1>3, <1>7, <2>4, <2>5 DEF PackageEvidence, BackedUp
    <3> QED
      BY <1>1, <2>4, <3>1, PlanSame DEF PackageEvidence
  <2> QED
    BY <1>1, <1>4, <2>2, <2>3, <2>4, <2>5
<1>8. CASE ~Published(o, p) /\ ~BackedUp(o, p)
  <2>1. /\ w' = [w EXCEPT ![o] = [w[o] EXCEPT !.todo = w[o].todo \ {p}]]
        /\ UNCHANGED <<live, att>>
    BY <1>8 DEF UndoPackage
  <2>2. /\ w'[o] = [w[o] EXCEPT !.todo = w[o].todo \ {p}]
        /\ \A a \in Ops \ {o} : w'[a] = w[a]
    BY <2>1 DEF IInv, TypeOK
  <2>3. w'[o].pc = "undo" /\ w'[o].after = w[o].after /\ w'[o].todo = w[o].todo \ {p}
    BY <1>1, <1>2, <2>2 DEF Worker
  <2>4. ASSUME SoloOp(o) PROVE live'[p] = Original[p] /\ PackageEvidence(o, p)'
    <3>1. PackageEvidence(o, p)'
      BY <1>1, <1>3, <2>1, <2>4, PlanSame DEF PackageEvidence
    <3> QED
      BY <1>3, <1>8, <2>1, <2>4, <3>1 DEF PackageEvidence, Published, BackedUp
  <2> QED
    BY <1>1, <1>4, <2>1, <2>2, <2>3, <2>4
<1> QED
  BY <1>5, <1>6, <1>7, <1>8

\* A rollback that is through has put everything back.
LEMMA UndoneFacts ==
    ASSUME NEW o \in Ops, SoloOp(o), w[o].pc = "undo", w[o].todo = {}, att[o].oldManifest = None,
           live \in Tree
    PROVE  Untouched
<1>1. att[o].mark \in Destructive
  BY DEF SoloOp, MarkerInv
<1>2. ManifestEvidence(o) /\ \A p \in Pkgs : PackageEvidence(o, p)
  BY <1>1 DEF SoloOp, FilesInv
<1>3. \A p \in Changes(o) : live[p] = Original[p]
  BY DEF SoloOp, ProgressInv
<1>4. \A p \in Pkgs : live[p] = Original[p]
  BY <1>2, <1>3 DEF PackageEvidence
<1>5. live = Original
  BY <1>4 DEF Tree, Original
<1> QED
  BY <1>2, <1>5 DEF Untouched, ManifestEvidence

LEMMA UndoneRetrySolo == ASSUME IInv, SoloInv, NEW o \in Ops, UndoneRetry(o) PROVE SoloInv'
<1>1. /\ w[o].pc = "undo" /\ w[o].pc \in Loaded /\ w[o].todo = {} /\ att[o].oldManifest = None
      /\ UNCHANGED <<state, cancelReq, plan, project, live, manifest, daemon, crashes, faults>>
  BY DEF UndoneRetry, At, db, bounds, Loaded, PCs
<1>2. /\ att'[o] = [att[o] EXCEPT !.mark = "rolled_back"]
      /\ w'[o] = [w[o] EXCEPT !.pc = "create"]
      /\ \A a \in Ops \ {o} : att'[a] = att[a] /\ w'[a] = w[a]
  BY DEF UndoneRetry, Go, IInv, TypeOK
<1>3. att'[o].mark = "rolled_back" /\ w'[o].pc = "create" /\ w'[o].after = w[o].after
  BY <1>1, <1>2, LoadedFacts DEF Attempt, Worker
<1>4. /\ w'[o].pc \in Loaded /\ w'[o].pc \notin Preparing \cup Writing \cup Committed
      /\ w'[o].pc \notin {"lockUndo", "undo", "failing"} /\ att'[o].mark \notin Wrote
      /\ att'[o].mark \notin Destructive
  BY <1>3 DEF Loaded, PCs, Preparing, Writing, Committed, Wrote, Destructive
<1>5. ASSUME SoloOp(o) PROVE FilesInv(o)' /\ ProgressInv(o)'
  <2>1. Untouched'
    BY <1>1, <1>5, UndoneFacts, LoadedFacts DEF Untouched, Original
  <2> QED
    BY <1>3, <1>4, <2>1 DEF FilesInv, ProgressInv, Wrote
<1>6. /\ w[o].pc \in Loaded /\ w'[o].pc \in Loaded
      /\ UNCHANGED <<state, cancelReq, plan, project, daemon, crashes>>
      /\ w'[o].after = "stop" => w[o].after = "stop" \/ faults' > 0
      /\ faults > 0 => faults' > 0
  BY <1>1, <1>2, <1>3, <1>4
<1>7. \A a \in Ops \ {o} : w'[a] = w[a] /\ att'[a] = att[a]
  BY <1>1, <1>2, <1>3, <1>4
<1> QED
  BY <1>4, <1>5, <1>6, <1>7, RunSolo

LEMMA UndoneEndSolo == ASSUME IInv, SoloInv, NEW o \in Ops, UndoneEnd(o) PROVE SoloInv'
<1>1. /\ w[o].pc = "undo" /\ w[o].pc \in Loaded /\ w[o].pc # "idle" /\ w[o].todo = {}
      /\ att[o].oldManifest = None /\ w[o].after # "retry"
      /\ UNCHANGED <<state, cancelReq, plan, project, live, manifest, att, daemon, crashes, faults>>
      /\ faults \in Nat /\ project \in Row /\ project.rev >= project.rev
  BY DEF UndoneEnd, At, db, files, bounds, Loaded, PCs, IInv, TypeOK, Row
<1>2. /\ state[o] \in {"running", "cancelling"} /\ state[o] # "absent"
      /\ w[o] \in Worker /\ live \in Tree
  BY <1>1, LoadedFacts
<1>3. CASE Go(o, "failing")
  <2>1. "failing" \in PCs /\ "failing" \notin Writing \cup Preparing \cup Committed
    BY DEF PCs, Writing, Preparing, Committed
  <2>2. SoloOp(o) => Untouched
    BY <1>1, <1>2, UndoneFacts
  <2>3. SoloOp(o) => SoloOp(o)'
    BY <1>1, <1>2, <1>3, <2>1, <2>2, GoSolo
  <2> QED
    BY <1>1, <1>3, <2>1, <2>3, GoOthers
<1>4. CASE EndTask(o) /\ w[o].after # "fail"
  <2>1. w[o].after = "stop"
    BY <1>1, <1>2, <1>4 DEF Worker
  <2>2. ASSUME SoloOp(o), w'[o] = Idle PROVE SoloOp(o)'
    <3>1. faults' > 0
      BY <1>1, <2>1, <2>2 DEF SoloOp, WordInv
    <3> QED
      BY <1>1, <2>2, <3>1, EndSolo
  <2> QED
    BY <1>1, <1>2, <1>4, <2>2, EndOthers
<1> QED
  BY <1>3, <1>4 DEF UndoneEnd

LEMMA WorkerSolo == ASSUME IInv, SoloInv, NEW o \in Ops, WorkerStep(o) PROVE SoloInv'
<1>1. CASE CheckCancelled(o, "look", "begin") \/ CheckCancelled(o, "cancel1", "lockApply")
           \/ CheckCancelled(o, "cancel2", "prepare")
  <2>1. {"begin", "lockApply", "prepare"} \subseteq PCs
    BY DEF PCs
  <2> QED
    BY <1>1, <2>1, CheckCancelledSolo
<1>2. CASE FinishCancelled(o) \/ Begin(o) \/ Load(o)
  BY <1>2, FinishCancelledSolo, BeginSolo, LoadSolo
<1>3. CASE \/ CreateAttempt(o) \/ Mark(o, "fetch", "archive_ready", "extract", {})
           \/ Extract(o) \/ Mark(o, "prepare", "prepared", "intent", {})
  BY <1>3, PreparingSolo
<1>4. CASE Lock(o, "lockApply", "revalidate") \/ Lock(o, "lockFinal", "recheck")
           \/ Lock(o, "lockUndo", "undo")
  BY <1>4, LockSolo
<1>5. CASE Revalidate(o) \/ Recheck(o) \/ Inspect(o) \/ Complete(o) \/ Fail(o)
  BY <1>5, RevalidateSolo, RecheckSolo, InspectSolo, EndsSolo
<1>6. CASE Mark(o, "intent", "packages_replaced", "swap", Changes(o))
  BY <1>6, IntentSolo
<1>7. ASSUME NEW p \in Pkgs, Swap(o, p)
      PROVE  SoloInv'
  <2>1. CASE (live[p] = "absent") <=> (p \in Installs(o))
    BY <1>7, <2>1, SwapSolo
  <2>2. CASE ~((live[p] = "absent") <=> (p \in Installs(o)))
    BY <1>7, <2>2, TurnsSolo
  <2> QED
    BY <2>1, <2>2
<1>8. ASSUME NEW p \in Pkgs, Publish(o, p) \/ UndoPackage(o, p)
      PROVE  SoloInv'
  BY <1>8, PublishSolo, UndoPackageSolo
<1>9. CASE \/ Swapped(o) \/ CommitManifestAway(o) \/ CommitManifest(o)
           \/ Mark(o, "commitIntent", "vpm_manifest_committed", "commit1", {})
  BY <1>9, SwappedSolo, CommitSolo, CommitIntentSolo
<1>10. CASE Verify(o)
  <2>1. CASE Final(o)
    BY <1>10, <2>1, VerifiedSolo
  <2>2. CASE ~Final(o)
    BY <1>10, <2>2, TurnsSolo
  <2> QED
    BY <2>1, <2>2
<1>11. CASE UndoManifest(o) \/ UndoneRetry(o) \/ UndoneEnd(o)
  BY <1>11, UndoManifestSolo, UndoneRetrySolo, UndoneEndSolo
<1> QED
  BY <1>1, <1>2, <1>3, <1>4, <1>5, <1>6, <1>7, <1>8, <1>9, <1>10, <1>11 DEF WorkerStep

LEMMA NextSolo == IInv /\ SoloInv /\ [Next]_vars => SoloInv'
<1> SUFFICES ASSUME IInv, SoloInv, [Next]_vars
             PROVE  SoloInv'
  OBVIOUS
<1>1. CASE Request
  BY <1>1, MakePlanSolo, AcceptPlanSolo, CancelSolo, TouchSolo DEF Request
<1>2. CASE \E o \in Ops : WorkerStep(o)
  BY <1>2, WorkerSolo
<1>3. CASE Fault
  BY <1>3, ProcessSolo, StopErrorSolo, FailErrorSolo, TurnsSolo DEF Fault
<1>4. CASE Restart
  BY <1>4, ProcessSolo DEF Restart
<1>5. CASE UNCHANGED vars
  BY <1>5, StutterSolo
<1> QED
  BY <1>1, <1>2, <1>3, <1>4, <1>5 DEF Next

LEMMA SoloInvariance == Spec => [](IInv /\ SoloInv)
<1>1. Init => SoloInv
  BY InitSolo
<1>2. IInv /\ SoloInv /\ [Next]_vars => SoloInv'
  BY NextSolo
<1> QED
  BY <1>1, <1>2, Invariance, PTL DEF Spec

\* Under one accepted plan either nothing happened yet or all is up to it.
LEMMA OneOrNone ==
    ASSUME IInv, SoloInv, OneAccepted
    PROVE  \/ NoneAccepted /\ Untouched /\ \A o \in Ops : att[o] = NoAttempt /\ w[o] = Idle
           \/ \E o \in Ops : /\ state[o] # "absent" /\ plan[o] # None /\ SoloOp(o)
                             /\ \A a \in Ops \ {o} : state[a] = "absent" /\ att[a] = NoAttempt
<1>1. CASE NoneAccepted
  BY <1>1 DEF NoneAccepted, SoloInv
<1>2. ASSUME NEW o \in Ops, state[o] # "absent"
      PROVE  /\ plan[o] # None /\ SoloOp(o)
             /\ \A a \in Ops \ {o} : state[a] = "absent" /\ att[a] = NoAttempt
  <2>1. \A a \in Ops \ {o} : state[a] = "absent"
    BY <1>2 DEF OneAccepted
  <2>2. Only(o)
    BY <1>2, <2>1 DEF Only
  <2> QED
    BY <1>2, <2>1, <2>2 DEF SoloInv, IInv, OpInv
<1> QED
  BY <1>1, <1>2 DEF NoneAccepted

\* While one plan is accepted, its attempt directory holds at every instant of
\* the swap, the commit and any number of rollbacks what brings the manifest and
\* every package back: PackageEngine::rollback_attempt always finds its way.
THEOREM Evidence == Spec => [](OneAccepted => EvidenceSuffices)
<1>1. ASSUME IInv, SoloInv, OneAccepted, NEW o \in Ops, att[o].mark \in Destructive
      PROVE  RestoredManifest(o) = Base(o) /\ RestoredTree(o) = plan[o].seen.trees
  <2>1. plan[o] # None /\ SoloOp(o)
    BY <1>1, OneOrNone DEF NoAttempt, NewAttempt, Destructive
  <2>2. ManifestEvidence(o) /\ \A p \in Pkgs : PackageEvidence(o, p)
    BY <1>1, <2>1 DEF SoloOp, FilesInv
  <2>3. /\ Base(o) = Original /\ plan[o].seen.trees = Original
        /\ \A p \in Installs(o) : Original[p] = "absent"
        /\ Installs(o) \subseteq Changes(o) /\ Changes(o) \subseteq Pkgs
    BY <1>1, <2>1, ChangeFacts DEF SoloOp, PlanInv, Installs
  <2>4. RestoredManifest(o) = Original
    BY <2>2 DEF ManifestEvidence, RestoredManifest
  <2>5. ASSUME NEW p \in Pkgs PROVE RestoredTree(o)[p] = Original[p]
    <3>1. CASE p \notin Changes(o)
      BY <2>2, <3>1 DEF PackageEvidence, RestoredTree
    <3>2. CASE p \in Installs(o)
      BY <2>2, <2>3, <3>2 DEF PackageEvidence, RestoredTree, Published
    <3>3. CASE p \in Changes(o) \ Installs(o)
      BY <2>2, <3>3 DEF PackageEvidence, RestoredTree
    <3> QED
      BY <3>1, <3>2, <3>3
  <2>6. RestoredTree(o) = Original
    BY <2>5 DEF RestoredTree, Original
  <2> QED
    BY <2>3, <2>4, <2>6
<1>2. IInv /\ SoloInv => (OneAccepted => EvidenceSuffices)
  BY <1>1 DEF EvidenceSuffices
<1> QED
  BY <1>2, SoloInvariance, PTL

LEMMA UntouchedIsWhole == Untouched => Whole /\ manifest = Original
BY OriginalIsTree DEF Untouched, Whole

\* While one plan is accepted, a project without its manifest or with packages
\* the manifest does not describe has a marker that makes recover_attempts roll
\* it back, and a row that calls for it or was cancelled.
THEOREM Halfway == Spec => [](OneAccepted => HalfwayIsMarked)
<1>1. ASSUME IInv, SoloInv, OneAccepted, ~Whole
      PROVE  \E o \in Ops : /\ att[o].mark \in Destructive
                            /\ Unfinished(o) \/ state[o] = "cancelled"
  <2>1. PICK o \in Ops : state[o] # "absent" /\ plan[o] # None /\ SoloOp(o)
    BY <1>1, OneOrNone, UntouchedIsWhole
  <2>2. att[o].mark # "filesystem_committed"
    <3>1. att[o].mark = "filesystem_committed" => manifest # None /\ live = manifest
      BY <1>1, <2>1, ChangeFacts, PackageApplyAssumption DEF SoloOp, FilesInv
    <3> QED
      BY <1>1, <3>1 DEF Whole
  <2>3. att[o].mark \in Destructive
    BY <1>1, <2>1, <2>2, UntouchedIsWhole DEF SoloOp, FilesInv, Wrote
  <2>4. state[o] \notin {"failed", "succeeded"}
    BY <1>1, <2>1, <2>2, <2>3, UntouchedIsWhole DEF SoloOp, MarkerInv, ProgressInv
  <2> QED
    BY <2>1, <2>3, <2>4 DEF Unfinished, Terminal
<1>2. IInv /\ SoloInv => (OneAccepted => HalfwayIsMarked)
  BY <1>1 DEF HalfwayIsMarked
<1> QED
  BY <1>2, SoloInvariance, PTL

\* While one plan is accepted, fail_package_apply leaves all of the files as the
\* plan found them or all as planned, and a cancel while the daemon lives leaves
\* them as the plan found them.
THEOREM Reports == Spec => [](OneAccepted => ReportsAreTrue)
<1>1. ASSUME IInv, SoloInv, OneAccepted, NEW o \in Ops,
             state[o] = "failed" \/ (state[o] = "cancelled" /\ crashes = 0)
      PROVE  /\ Whole /\ (manifest = Base(o) \/ manifest = plan[o].target)
             /\ state[o] = "cancelled" => manifest = Base(o)
  <2>1. plan[o] # None /\ SoloOp(o)
    BY <1>1, OneOrNone DEF NoneAccepted
  <2>2. Base(o) = Original /\ plan[o].target \in Tree
    BY <1>1, <2>1, ChangeFacts DEF SoloOp
  <2>3. CASE att[o].mark = "filesystem_committed"
    <3>1. state[o] # "cancelled"
      BY <1>1, <2>1, <2>3 DEF SoloOp, WordInv, Wrote
    <3>2. live = plan[o].target /\ manifest = plan[o].target
      BY <2>1, <2>3 DEF SoloOp, FilesInv
    <3> QED
      BY <2>2, <3>1, <3>2, PackageApplyAssumption DEF Whole
  <2>4. CASE att[o].mark # "filesystem_committed"
    <3>1. Untouched
      BY <1>1, <2>1, <2>4 DEF SoloOp, FilesInv, ProgressInv, WordInv, Wrote
    <3> QED
      BY <2>2, <3>1, UntouchedIsWhole
  <2> QED
    BY <2>3, <2>4
<1>2. IInv /\ SoloInv => (OneAccepted => ReportsAreTrue)
  BY <1>1 DEF ReportsAreTrue
<1> QED
  BY <1>2, SoloInvariance, PTL

\* While one plan is accepted, the worker M4PackageApplication spawns for it
\* goes away before the row has settled only for the reasons named.
THEOREM Abandonment == Spec => [](OneAccepted => AbandonedForAReason)
<1>1. ASSUME IInv, SoloInv, OneAccepted, NEW o \in Ops, Abandoned(o)
      PROVE  \/ faults > 0
             \/ project.rev # plan[o].rev
             \/ state[o] = "cancelling"
             \/ att[o].mark = "unmarked" /\ crashes > 0
  <2>1. SoloOp(o)
    BY <1>1, OneOrNone DEF NoneAccepted, Abandoned, Unfinished
  <2> QED
    BY <1>1, <2>1 DEF SoloOp, WordInv
<1>2. IInv /\ SoloInv => (OneAccepted => AbandonedForAReason)
  BY <1>1 DEF AbandonedForAReason
<1> QED
  BY <1>2, SoloInvariance, PTL

-----------------------------------------------------------------------------
(* Before the first death or failing step: any number of plans *)

Fresh == crashes = 0 /\ faults = 0

\* o has started to write and is not reported as succeeded.
Pending(o) == att[o].mark \in Wrote /\ state[o] # "succeeded"

\* How far o has come: it makes one attempt, and rolls nothing back.
StageInv(o) ==
    /\ w[o].pc \notin {"lockFinal", "lockUndo", "undo", "recheck"}
    /\ w[o].pc \in {"look", "begin", "load", "create"} \/ state[o] = "absent"
         => att[o].mark = "none"
    /\ w[o].pc \in Preparing \cup Proved \cup {"cancelled", "failing"}
         => att[o].mark \notin Wrote
    /\ w[o].pc \in Writing => att[o].mark \in Destructive
    /\ w[o].pc \in {"inspect", "complete"} => att[o].mark = "filesystem_committed"
    /\ att[o].mark \in Wrote => state[o] \in {"running", "cancelling", "succeeded"}
    /\ w[o].pc \in {"look", "begin"} => state[o] \in {"queued", "cancelled"}
    /\ w[o].pc = "cancelled" => cancelReq[o]
    /\ cancelReq[o] => state[o] \in {"cancelling"} \cup Terminal
    /\ Unfinished(o) /\ w[o].pc = "idle" => plan[o].rev < project.rev

\* What the plan and the record of the worker say of the projects row.
RecordInv(o) ==
    /\ plan[o] # None =>
         /\ plan[o].rev <= project.rev
         /\ plan[o].target # Base(o)
         /\ \A p \in Pkgs : plan[o].target[p] \in {Base(o)[p], o, "absent"}
    /\ w[o].pc \in Loaded => w[o].row.rev <= project.rev
    /\ w[o].pc \in Loaded \ {"complete"} /\ w[o].row.rev = project.rev
         => w[o].row.obs = project.obs
    /\ w[o].pc \in Proved => w[o].row.rev = plan[o].rev /\ w[o].row.obs = manifest

\* The files in the middle of the swap and the commit of o.
WritingInv(o) == w[o].pc \in Writing =>
    /\ w[o].pc \in {"swap", "publish", "commitIntent", "commit1"} => manifest = Base(o)
    /\ w[o].pc = "commit2" => manifest = None
    /\ w[o].pc = "verify"  => manifest = plan[o].target
    /\ \A p \in Pkgs : live[p] =
         IF p \notin w[o].todo THEN plan[o].target[p]
         ELSE IF Half(o, p) THEN "absent" ELSE Base(o)[p]
    /\ w[o].todo \subseteq Changes(o)
    /\ w[o].pc \notin {"swap", "publish"} => w[o].todo = {}
    /\ w[o].pc = "publish" => \E p \in w[o].todo \ Removes(o) : First(w[o].todo, p)

FreshOp(o) == /\ StageInv(o) /\ RecordInv(o) /\ WritingInv(o)
              /\ w[o].pc = "inspect" => Final(o)

WholeInv == (\A o \in Ops : w[o].pc \notin Writing) => Whole

\* One that is outrun while it writes stays so: then nothing is said.
Calm == \A o \in Ops : Pending(o) => plan[o].rev = project.rev

CalmInv == Calm =>
    /\ \A a, b \in Ops : Pending(a) /\ Pending(b) => a = b
    /\ \A o \in Ops : Pending(o) => Base(o) = project.obs
    /\ \A o \in Ops : w[o].pc = "complete" =>
         Final(o) /\ w[o].row.obs = manifest
    /\ (\A o \in Ops : ~Pending(o)) => manifest = project.obs

PeekInv == peek # None =>
    /\ peek.rev <= project.rev
    /\ Calm /\ peek.rev = project.rev =>
         peek.obs = project.obs \/ \E o \in Ops : Pending(o)

FreshInv == Fresh =>
    /\ daemon = "up"
    /\ \A o \in Ops : FreshOp(o)
    /\ WholeInv
    /\ CalmInv
    /\ PeekInv

\* What a step about o leaves to the other plans.
OthersStay(o) ==
    /\ \A a \in Ops \ {o} : /\ w'[a] = w[a] /\ state'[a] = state[a]
                            /\ cancelReq'[a] = cancelReq[a]
                            /\ att'[a] = att[a] /\ plan'[a] = plan[a]
    /\ UNCHANGED <<live, manifest>> \/ w[o].pc \in Inside

\* The projects row is as it was, or has a new revision.
Advances == project' = project \/ (project' \in Row /\ project'.rev > project.rev)

LEMMA InitFresh == Init => FreshInv
<1>1. SUFFICES ASSUME Init PROVE FreshInv
  OBVIOUS
<1>2. \A o \in Ops : /\ w[o] = Idle /\ att[o] = NoAttempt /\ state[o] = "absent"
                     /\ plan[o] = None /\ cancelReq[o] = FALSE
  BY <1>1 DEF Init
<1>3. \A o \in Ops : w[o].pc = "idle" /\ att[o].mark = "none"
  BY <1>2 DEF Idle, NoAttempt, NewAttempt
<1>4. \A o \in Ops : FreshOp(o)
  BY <1>2, <1>3 DEF FreshOp, StageInv, RecordInv, WritingInv, Preparing, Proved, Writing,
     Wrote, Destructive, Unfinished, Loaded
<1>5. manifest # None /\ manifest = live /\ project.obs = manifest
  <2>1. live \in Tree
    BY <1>1 DEF Init, Tree, Content
  <2> QED
    BY <1>1, <2>1, PackageApplyAssumption DEF Init
<1>6. \A o \in Ops : ~Pending(o)
  BY <1>3 DEF Pending, Wrote, Destructive
<1>7. WholeInv /\ CalmInv /\ PeekInv
  BY <1>1, <1>3, <1>5, <1>6 DEF Init, WholeInv, Whole, CalmInv, PeekInv
<1> QED
  BY <1>1, <1>4, <1>7 DEF FreshInv, Init

\* A step about another plan keeps what FreshOp says of this one.
LEMMA OthersFresh ==
    ASSUME IInv, NEW o \in Ops, NEW a \in Ops \ {o}, OthersStay(o), Advances, FreshOp(a)
    PROVE  FreshOp(a)'
<1>1. /\ w'[a] = w[a] /\ state'[a] = state[a] /\ cancelReq'[a] = cancelReq[a]
      /\ att'[a] = att[a] /\ plan'[a] = plan[a]
  BY DEF OthersStay
<1>2. /\ project \in Row /\ project.rev \in Nat /\ OpInv(a) /\ OpInv(o)
      /\ plan[a] # None => plan[a].rev \in Nat
      /\ w[a].pc \in Loaded => w[a].row \in Row /\ w[a].row.rev \in Nat
  BY DEF IInv, TypeOK, OpInv, Row, Plan
<1>3. project' = project \/ (project'.rev \in Nat /\ project'.rev > project.rev)
  BY DEF Advances, Row
<1>4. w[a].pc \in Writing \cup Proved => UNCHANGED <<live, manifest>>
  BY <1>2 DEF OthersStay, OpInv, Inside, Writing, Proved
<1>5. Base(a)' = Base(a) /\ Changes(a)' = Changes(a) /\ Removes(a)' = Removes(a)
  BY <1>1, PlanSame
<1>6. StageInv(a)'
  <2>1. Unfinished(a) => plan[a] # None
    BY <1>2 DEF Unfinished, OpInv
  <2> QED
    BY <1>1, <1>2, <1>3, <2>1 DEF FreshOp, StageInv, Unfinished
<1>7. RecordInv(a)'
  BY <1>1, <1>2, <1>3, <1>4, <1>5 DEF FreshOp, RecordInv
<1>8. WritingInv(a)'
  BY <1>1, <1>4, <1>5 DEF FreshOp, WritingInv, Half
<1>9. w'[a].pc = "inspect" => Final(a)'
  <2>1. w[a].pc = "inspect" => UNCHANGED <<live, manifest>>
    BY <1>2 DEF OthersStay, OpInv, Inside
  <2> QED
    BY <1>1, <1>5, <2>1 DEF FreshOp, Final
<1> QED
  BY <1>6, <1>7, <1>8, <1>9 DEF FreshOp

LEMMA AllFresh ==
    ASSUME IInv, NEW o \in Ops, OthersStay(o), Advances,
           \A a \in Ops : FreshOp(a), FreshOp(o)'
    PROVE  \A a \in Ops : FreshOp(a)'
BY OthersFresh

\* A step that changes no file and not the row, begins no writing and reports
\* nothing about one.
LEMMA QuietFresh ==
    ASSUME IInv, FreshInv, Fresh, NEW o \in Ops, OthersStay(o),
           UNCHANGED <<project, live, manifest, peek, daemon>>,
           Pending(o)' <=> Pending(o),
           Pending(o) \/ w'[o].pc = "complete" => plan'[o] = plan[o],
           w'[o].pc = "complete" => w'[o] = w[o],
           w[o].pc \in Writing /\ w'[o].pc \notin Writing => Whole,
           FreshOp(o)'
    PROVE  FreshInv'
<1>1. daemon = "up" /\ (\A a \in Ops : FreshOp(a)) /\ WholeInv /\ CalmInv /\ PeekInv
  BY DEF FreshInv
<1>2. \A a \in Ops : FreshOp(a)'
  BY <1>1, AllFresh DEF Advances
<1>3. WholeInv'
  BY <1>1 DEF WholeInv, Whole, OthersStay
<1>4. \A a \in Ops : /\ Pending(a)' <=> Pending(a)
                     /\ Pending(a) => plan'[a] = plan[a]
  BY DEF Pending, OthersStay
<1>5. Calm' <=> Calm
  BY <1>4 DEF Calm
<1>6. \A a \in Ops : Pending(a) => Base(a)' = Base(a)
  BY <1>4, PlanSame
<1>7. ASSUME NEW a \in Ops, w'[a].pc = "complete", Calm
      PROVE  Final(a)' /\ w'[a].row.obs = manifest'
  <2>1. w'[a] = w[a] /\ plan'[a] = plan[a]
    BY <1>7 DEF OthersStay
  <2>2. Changes(a)' = Changes(a)
    BY <2>1, PlanSame
  <2>3. Final(a) /\ w[a].row.obs = manifest
    BY <1>1, <1>7, <2>1 DEF CalmInv
  <2> QED
    BY <2>1, <2>2, <2>3 DEF Final
<1>8. CalmInv'
  BY <1>1, <1>4, <1>5, <1>6, <1>7 DEF CalmInv
<1>9. PeekInv'
  BY <1>1, <1>4, <1>5 DEF PeekInv
<1> QED
  BY <1>1, <1>2, <1>3, <1>8, <1>9 DEF FreshInv

-----------------------------------------------------------------------------
(* Steps that move a worker and no file *)

LEMMA GoFresh ==
    ASSUME IInv, NEW o \in Ops, NEW pc, Go(o, pc)
    PROVE  /\ w'[o].pc = pc /\ w'[o].row = w[o].row /\ w'[o].todo = w[o].todo
           /\ \A a \in Ops \ {o} : w'[a] = w[a]
<1>1. w[o] \in Worker /\ w' = [w EXCEPT ![o] = [w[o] EXCEPT !.pc = pc]]
  BY DEF Go, IInv, TypeOK
<1>2. w'[o] = [w[o] EXCEPT !.pc = pc] /\ \A a \in Ops \ {o} : w'[a] = w[a]
  BY <1>1, AttemptFields
<1> QED
  BY <1>1, <1>2 DEF Worker

LEMMA FreshFacts ==
    ASSUME IInv, FreshInv, Fresh, NEW o \in Ops
    PROVE  /\ daemon = "up" /\ OpInv(o) /\ StageInv(o) /\ RecordInv(o) /\ WritingInv(o)
           /\ w[o] \in Worker /\ att[o] \in Attempt /\ state[o] \in States \cup {"absent"}
BY DEF FreshInv, FreshOp, IInv, TypeOK

\* A step of a worker that does not write, to a place where it does not either.
LEMMA OwnQuiet ==
    ASSUME IInv, FreshInv, Fresh, NEW o \in Ops,
           \A a \in Ops \ {o} : w'[a] = w[a] /\ state'[a] = state[a] /\ att'[a] = att[a],
           UNCHANGED <<cancelReq, plan, project, live, manifest, peek, daemon>>,
           w[o].pc \notin Writing, w'[o].pc \notin Writing \cup {"inspect", "complete"},
           Pending(o)' <=> Pending(o), StageInv(o)',
           w'[o].pc \in Loaded =>
               \/ w'[o].row = project
               \/ w[o].pc \in Loaded \ {"complete"} /\ w'[o].row = w[o].row,
           w'[o].pc \in Proved => w'[o].row.rev = plan[o].rev /\ w'[o].row.obs = manifest
    PROVE  FreshInv'
<1>1. RecordInv(o) /\ project \in Row
  BY FreshFacts DEF IInv, TypeOK
<1>2. Base(o)' = Base(o)
  BY PlanSame
<1>3. RecordInv(o)'
  BY <1>1, <1>2 DEF RecordInv, Row
<1>4. FreshOp(o)'
  BY <1>3 DEF FreshOp, WritingInv
<1>5. OthersStay(o)
  BY DEF OthersStay
<1> QED
  BY <1>4, <1>5, QuietFresh

LEMMA CheckCancelledFresh ==
    ASSUME IInv, FreshInv, Fresh, NEW o \in Ops, NEW here, NEW onward,
           <<here, onward>> \in {<<"look", "begin">>, <<"cancel1", "lockApply">>,
                                 <<"cancel2", "prepare">>},
           CheckCancelled(o, here, onward)
    PROVE  FreshInv'
<1>1. /\ w[o].pc = here /\ here \in {"look", "cancel1", "cancel2"}
      /\ UNCHANGED <<state, cancelReq, plan, project, live, manifest, att, daemon, peek>>
  BY DEF CheckCancelled, At, db, files
<1>2. StageInv(o) /\ RecordInv(o)
  BY FreshFacts
<1>3. Pending(o)' <=> Pending(o)
  BY <1>1 DEF Pending
<1>4. CASE cancelReq[o] /\ Go(o, "cancelled")
  <2>1. w'[o].pc = "cancelled" /\ \A a \in Ops \ {o} : w'[a] = w[a]
    BY <1>4, GoFresh
  <2>2. StageInv(o)'
    BY <1>1, <1>2, <1>4, <2>1 DEF StageInv, Preparing, Proved, Writing, Wrote, Destructive,
       Unfinished
  <2> QED
    BY <1>1, <1>3, <2>1, <2>2, OwnQuiet DEF Writing, Loaded, Proved
<1>5. CASE Go(o, onward)
  <2>1. /\ w'[o].pc = onward /\ w'[o].row = w[o].row
        /\ \A a \in Ops \ {o} : w'[a] = w[a]
    BY <1>5, GoFresh
  <2>2. StageInv(o)'
    BY <1>1, <1>2, <2>1 DEF StageInv, Preparing, Proved, Writing, Wrote, Destructive,
       Unfinished
  <2>3. w'[o].pc \in Proved => w'[o].row.rev = plan[o].rev /\ w'[o].row.obs = manifest
    BY <1>1, <1>2, <2>1 DEF RecordInv, Proved
  <2>4. w'[o].pc \in Loaded => w[o].pc \in Loaded \ {"complete"} /\ w'[o].row = w[o].row
    BY <1>1, <2>1 DEF Loaded, PCs
  <2> QED
    BY <1>1, <1>3, <2>1, <2>2, <2>3, <2>4, OwnQuiet DEF Writing
<1> QED
  BY <1>4, <1>5 DEF CheckCancelled

LEMMA FinishCancelledFresh ==
    ASSUME IInv, FreshInv, Fresh, NEW o \in Ops, FinishCancelled(o)
    PROVE  FreshInv'
<1>1. /\ w[o].pc = "cancelled" /\ EndTask(o)
      /\ UNCHANGED <<cancelReq, plan, project, live, manifest, att, daemon, peek>>
  BY DEF FinishCancelled, At, files
<1>2. StageInv(o) /\ cancelReq[o] /\ att[o].mark \notin Wrote
  BY <1>1, FreshFacts DEF StageInv
<1>3. w'[o].pc = "idle" /\ \A a \in Ops \ {o} : w'[a] = w[a]
  BY <1>1, EndFacts DEF IInv, Idle
<1>4. state'[o] \in Terminal /\ \A a \in Ops \ {o} : state'[a] = state[a]
  BY <1>2 DEF FinishCancelled, SetState, IInv, TypeOK, StageInv, CanTransition, Terminal
<1>5. StageInv(o)' /\ (Pending(o)' <=> Pending(o))
  BY <1>1, <1>2, <1>3, <1>4 DEF StageInv, Pending, Unfinished, Preparing, Proved, Writing,
     Terminal
<1> QED
  BY <1>1, <1>3, <1>4, <1>5, OwnQuiet DEF Writing, Loaded, Proved

LEMMA BeginFresh ==
    ASSUME IInv, FreshInv, Fresh, NEW o \in Ops, Begin(o)
    PROVE  FreshInv'
<1>1. /\ w[o].pc = "begin"
      /\ UNCHANGED <<cancelReq, plan, project, live, manifest, att, daemon, peek>>
  BY DEF Begin, At, files
<1>2. /\ StageInv(o) /\ att[o].mark = "none" /\ state[o] \in {"queued", "cancelled"}
      /\ state[o] = "queued" => ~cancelReq[o]
  BY <1>1, FreshFacts DEF StageInv, Terminal
<1>3. CASE state[o] = "queued" /\ SetState(o, "running") /\ Go(o, "load")
  <2>1. w'[o].pc = "load" /\ \A a \in Ops \ {o} : w'[a] = w[a]
    BY <1>3, GoFresh
  <2>2. state'[o] = "running" /\ \A a \in Ops \ {o} : state'[a] = state[a]
    BY <1>3 DEF SetState, IInv, TypeOK
  <2>3. StageInv(o)' /\ (Pending(o)' <=> Pending(o))
    BY <1>1, <1>2, <1>3, <2>1, <2>2 DEF StageInv, Pending, Unfinished, Preparing, Proved,
       Writing, Wrote, Destructive
  <2> QED
    BY <1>1, <2>1, <2>2, <2>3, OwnQuiet DEF Writing, Loaded, Proved
<1>4. CASE state[o] = "cancelled" /\ state' = state /\ EndTask(o)
  <2>1. w'[o].pc = "idle" /\ \A a \in Ops \ {o} : w'[a] = w[a]
    BY <1>4, EndFacts DEF IInv, Idle
  <2>2. StageInv(o)' /\ (Pending(o)' <=> Pending(o))
    BY <1>1, <1>2, <1>4, <2>1 DEF StageInv, Pending, Unfinished, Preparing, Proved, Writing,
       Wrote, Destructive, Terminal
  <2> QED
    BY <1>1, <1>4, <2>1, <2>2, OwnQuiet DEF Writing, Loaded, Proved
<1> QED
  BY <1>2, <1>3, <1>4 DEF Begin

LEMMA LoadFresh ==
    ASSUME IInv, FreshInv, Fresh, NEW o \in Ops, Load(o)
    PROVE  FreshInv'
<1>1. /\ w[o].pc = "load"
      /\ UNCHANGED <<state, cancelReq, plan, project, live, manifest, att, daemon, peek>>
  BY DEF Load, At, db, files
<1>2. StageInv(o) /\ att[o].mark = "none" /\ w[o] \in Worker
  BY <1>1, FreshFacts DEF StageInv
<1>3. Resume(o) = "create"
  BY <1>2 DEF Resume, Destructive
<1>4. w' = [w EXCEPT ![o] = [w[o] EXCEPT !.pc = "create", !.row = project]]
  BY <1>2, <1>3 DEF Load
<1>5. /\ w'[o] = [w[o] EXCEPT !.pc = "create", !.row = project]
      /\ \A a \in Ops \ {o} : w'[a] = w[a]
  BY <1>4, AttemptFields
<1>6. w'[o].pc = "create" /\ w'[o].row = project
  BY <1>2, <1>5 DEF Worker
<1>7. StageInv(o)' /\ (Pending(o)' <=> Pending(o))
  BY <1>1, <1>2, <1>6 DEF StageInv, Pending, Unfinished, Preparing, Proved, Writing, Wrote,
     Destructive
<1> QED
  BY <1>1, <1>5, <1>6, <1>7, OwnQuiet DEF Writing, Proved

LEMMA CreateAttemptFresh ==
    ASSUME IInv, FreshInv, Fresh, NEW o \in Ops, CreateAttempt(o)
    PROVE  FreshInv'
<1>1. /\ w[o].pc = "create"
      /\ UNCHANGED <<state, cancelReq, plan, project, live, manifest, daemon, peek>>
  BY DEF CreateAttempt, At, db
<1>2. StageInv(o) /\ RecordInv(o) /\ att[o].mark = "none"
  BY <1>1, FreshFacts DEF StageInv
<1>3. att'[o] = NewAttempt /\ \A a \in Ops \ {o} : att'[a] = att[a]
  BY AttemptFields DEF CreateAttempt
<1>4. att'[o].mark = "unmarked"
  BY <1>3 DEF NewAttempt
<1>5. /\ w'[o].pc = "fetch" /\ w'[o].row = w[o].row
      /\ \A a \in Ops \ {o} : w'[a] = w[a]
  BY GoFresh DEF CreateAttempt
<1>6. state[o] # "absent"
  BY <1>1, FreshFacts DEF OpInv, Running, Loaded, PCs
<1>7. StageInv(o)' /\ (Pending(o)' <=> Pending(o))
  BY <1>1, <1>2, <1>4, <1>5, <1>6 DEF StageInv, Pending, Unfinished, Preparing, Proved,
     Writing, Wrote, Destructive
<1> QED
  BY <1>1, <1>3, <1>5, <1>7, OwnQuiet DEF Writing, Loaded, Proved, PCs

LEMMA MarkFacts ==
    ASSUME IInv, NEW o \in Ops, NEW here, NEW mark, NEW onward, NEW todo,
           Mark(o, here, mark, onward, todo)
    PROVE  /\ w[o].pc = here /\ att'[o].mark = mark
           /\ \A a \in Ops \ {o} : att'[a] = att[a] /\ w'[a] = w[a]
           /\ w'[o].pc = onward /\ w'[o].todo = todo /\ w'[o].row = w[o].row
           /\ UNCHANGED <<state, cancelReq, plan, project, live, manifest, daemon, peek, lock>>
<1>1. w[o] \in Worker /\ att[o] \in Attempt
  BY DEF IInv, TypeOK
<1>2. /\ att' = [att EXCEPT ![o] = [att[o] EXCEPT !.mark = mark]]
      /\ w' = [w EXCEPT ![o] = [w[o] EXCEPT !.pc = onward, !.todo = todo]]
  BY DEF Mark
<1>3. /\ att'[o] = [att[o] EXCEPT !.mark = mark]
      /\ w'[o] = [w[o] EXCEPT !.pc = onward, !.todo = todo]
      /\ \A a \in Ops \ {o} : att'[a] = att[a] /\ w'[a] = w[a]
  <2> DEFINE at == [att[o] EXCEPT !.mark = mark]
             wk == [w[o] EXCEPT !.pc = onward, !.todo = todo]
  <2>1. att' = [att EXCEPT ![o] = at] /\ w' = [w EXCEPT ![o] = wk]
    BY <1>2
  <2> HIDE DEF at, wk
  <2>2. att'[o] = at /\ w'[o] = wk /\ \A a \in Ops \ {o} : att'[a] = att[a] /\ w'[a] = w[a]
    BY <2>1, BothWritten
  <2> QED
    BY <2>2 DEF at, wk
<1>4. att'[o].mark = mark
  BY <1>1, <1>3 DEF Attempt
<1>5. w'[o].pc = onward /\ w'[o].todo = todo /\ w'[o].row = w[o].row
  BY <1>1, <1>3 DEF Worker
<1> QED
  BY <1>3, <1>4, <1>5 DEF Mark, At, db

LEMMA MarkFresh ==
    ASSUME IInv, FreshInv, Fresh, NEW o \in Ops,
           \/ Mark(o, "fetch", "archive_ready", "extract", {})
           \/ Mark(o, "prepare", "prepared", "intent", {})
    PROVE  FreshInv'
<1>1. PICK here \in {"fetch", "prepare"}, mark \in {"archive_ready", "prepared"},
           onward \in {"extract", "intent"} :
        /\ Mark(o, here, mark, onward, {})
        /\ onward = "intent" => here = "prepare"
  OBVIOUS
<1>2. /\ w[o].pc = here /\ att'[o].mark = mark
      /\ \A a \in Ops \ {o} : att'[a] = att[a] /\ w'[a] = w[a]
      /\ w'[o].pc = onward /\ w'[o].row = w[o].row
      /\ UNCHANGED <<state, cancelReq, plan, project, live, manifest, daemon, peek>>
  BY <1>1, MarkFacts
<1>3. StageInv(o) /\ RecordInv(o) /\ state[o] # "absent"
  BY <1>2, FreshFacts DEF OpInv, Running, Loaded, PCs
<1>4. StageInv(o)' /\ (Pending(o)' <=> Pending(o))
  BY <1>2, <1>3 DEF StageInv, Pending, Unfinished, Preparing, Proved, Writing, Wrote,
     Destructive
<1>5. w'[o].pc \in Proved => w'[o].row.rev = plan[o].rev /\ w'[o].row.obs = manifest
  BY <1>1, <1>2, <1>3 DEF RecordInv, Proved
<1> QED
  BY <1>2, <1>4, <1>5, OwnQuiet DEF Writing, Loaded, PCs

LEMMA ExtractFresh ==
    ASSUME IInv, FreshInv, Fresh, NEW o \in Ops, Extract(o)
    PROVE  FreshInv'
<1>1. /\ w[o].pc = "extract"
      /\ UNCHANGED <<state, cancelReq, plan, project, live, manifest, daemon, peek>>
  BY DEF Extract, At, db
<1>2. StageInv(o) /\ RecordInv(o) /\ state[o] # "absent" /\ att[o] \in Attempt
  BY <1>1, FreshFacts DEF OpInv, Running, Loaded, PCs
<1>3. /\ att'[o] = [att[o] EXCEPT !.mark = "extracted", !.staged = Changes(o) \ Removes(o)]
      /\ \A a \in Ops \ {o} : att'[a] = att[a]
  BY AttemptFields DEF Extract
<1>4. att'[o].mark = "extracted"
  BY <1>2, <1>3 DEF Attempt
<1>5. /\ w'[o].pc = "cancel1" /\ w'[o].row = w[o].row
      /\ \A a \in Ops \ {o} : w'[a] = w[a]
  BY GoFresh DEF Extract
<1>6. StageInv(o)' /\ (Pending(o)' <=> Pending(o))
  BY <1>1, <1>2, <1>4, <1>5 DEF StageInv, Pending, Unfinished, Preparing, Proved, Writing,
     Wrote, Destructive
<1> QED
  BY <1>1, <1>3, <1>5, <1>6, OwnQuiet DEF Writing, Loaded, Proved, PCs

LEMMA LockFresh ==
    ASSUME IInv, FreshInv, Fresh, NEW o \in Ops, Lock(o, "lockApply", "revalidate")
    PROVE  FreshInv'
<1>1. /\ w[o].pc = "lockApply" /\ w[o] \in Worker
      /\ UNCHANGED <<state, cancelReq, plan, project, live, manifest, att, daemon, peek>>
  BY FreshFacts DEF Lock, At, db, files
<1>2. StageInv(o) /\ RecordInv(o)
  BY FreshFacts
<1>3. w' = [w EXCEPT ![o] = [w[o] EXCEPT !.pc = "revalidate", !.todo = {}]]
  BY DEF Lock
<1>4. /\ w'[o] = [w[o] EXCEPT !.pc = "revalidate", !.todo = {}]
      /\ \A a \in Ops \ {o} : w'[a] = w[a]
  BY <1>3, AttemptFields
<1>5. w'[o].pc = "revalidate" /\ w'[o].row = w[o].row
  BY <1>1, <1>4 DEF Worker
<1>6. StageInv(o)' /\ (Pending(o)' <=> Pending(o))
  BY <1>1, <1>2, <1>5 DEF StageInv, Pending, Unfinished, Preparing, Proved, Writing, Wrote,
     Destructive
<1> QED
  BY <1>1, <1>4, <1>5, <1>6, OwnQuiet DEF Writing, Loaded, Proved, PCs

\* Afterwards the record of the worker, the plan and the files agree.
LEMMA RevalidateFresh ==
    ASSUME IInv, FreshInv, Fresh, NEW o \in Ops, Revalidate(o)
    PROVE  FreshInv'
<1>1. /\ w[o].pc = "revalidate"
      /\ UNCHANGED <<state, cancelReq, plan, project, live, manifest, att, daemon, peek>>
  BY DEF Revalidate, At, db, files
<1>2. StageInv(o) /\ RecordInv(o)
  BY FreshFacts
<1>3. PICK pc \in {"cancel2", "failing"} :
        /\ Go(o, pc)
        /\ pc = "cancel2" => w[o].row.rev = plan[o].rev /\ w[o].row.obs = manifest
  BY DEF Revalidate
<1>4. /\ w'[o].pc = pc /\ w'[o].row = w[o].row
      /\ \A a \in Ops \ {o} : w'[a] = w[a]
  BY <1>3, GoFresh
<1>5. StageInv(o)' /\ (Pending(o)' <=> Pending(o))
  BY <1>1, <1>2, <1>4 DEF StageInv, Pending, Unfinished, Preparing, Proved, Writing, Wrote,
     Destructive
<1>6. w'[o].pc \in Proved => w'[o].row.rev = plan[o].rev /\ w'[o].row.obs = manifest
  BY <1>3, <1>4 DEF Proved
<1> QED
  BY <1>1, <1>4, <1>5, <1>6, OwnQuiet DEF Writing, Loaded, PCs

LEMMA FailFresh ==
    ASSUME IInv, FreshInv, Fresh, NEW o \in Ops, Fail(o)
    PROVE  FreshInv'
<1>1. /\ w[o].pc = "failing" /\ EndTask(o)
      /\ UNCHANGED <<cancelReq, plan, project, live, manifest, att, daemon, peek>>
  BY DEF Fail, At, files
<1>2. StageInv(o) /\ state[o] # "absent"
  BY <1>1, FreshFacts DEF OpInv, Running, Loaded, PCs
<1>3. w'[o].pc = "idle" /\ \A a \in Ops \ {o} : w'[a] = w[a]
  BY <1>1, EndFacts DEF IInv, Idle
<1>4. state'[o] \in Terminal /\ \A a \in Ops \ {o} : state'[a] = state[a]
  BY <1>2 DEF Fail, SetState, IInv, TypeOK, Terminal
<1>5. StageInv(o)' /\ (Pending(o)' <=> Pending(o))
  BY <1>1, <1>2, <1>3, <1>4 DEF StageInv, Pending, Unfinished, Preparing, Proved, Writing,
     Terminal
<1> QED
  BY <1>1, <1>3, <1>4, <1>5, OwnQuiet DEF Writing, Loaded, Proved

-----------------------------------------------------------------------------
(* Requests *)

LEMMA MakePlanFresh ==
    ASSUME IInv, FreshInv, Fresh, NEW o \in Ops, NEW target \in Tree, MakePlan(o, target)
    PROVE  FreshInv'
<1>1. /\ plan[o] = None /\ target # manifest
      /\ \A p \in Pkgs : target[p] \in {manifest[p], o, "absent"}
      /\ UNCHANGED <<state, cancelReq, project, live, manifest, att, daemon, w, peek>>
  BY DEF MakePlan, files
<1>2. /\ plan'[o] = [rev |-> project.rev, seen |-> Snapshot, target |-> target]
      /\ \A a \in Ops \ {o} : plan'[a] = plan[a]
  BY DEF MakePlan, IInv, TypeOK
<1>3. OpInv(o) /\ FreshOp(o) /\ project.rev \in Nat
  BY DEF IInv, TypeOK, FreshInv, Row
<1>4. state[o] = "absent" /\ w[o].pc = "idle"
  BY <1>1, <1>3 DEF OpInv
<1>5. att[o].mark = "none" /\ ~Pending(o) /\ ~Pending(o)'
  BY <1>1, <1>3, <1>4 DEF FreshOp, StageInv, Pending, Wrote, Destructive
<1>6. Base(o)' = manifest
  BY <1>2 DEF Base, Snapshot
<1>7. StageInv(o)'
  BY <1>1, <1>3, <1>4, <1>5 DEF FreshOp, StageInv, Unfinished
<1>8. RecordInv(o)'
  BY <1>1, <1>2, <1>3, <1>4, <1>6 DEF RecordInv, Loaded, Proved
<1>9. FreshOp(o)'
  BY <1>1, <1>4, <1>7, <1>8 DEF FreshOp, WritingInv, Writing
<1>10. OthersStay(o)
  BY <1>1, <1>2 DEF OthersStay
<1> QED
  BY <1>1, <1>4, <1>5, <1>9, <1>10, QuietFresh DEF Writing

LEMMA AcceptPlanFresh ==
    ASSUME IInv, FreshInv, Fresh, NEW o \in Ops, AcceptPlan(o)
    PROVE  FreshInv'
<1>1. /\ state[o] = "absent" /\ plan[o] # None /\ Go(o, "look")
      /\ UNCHANGED <<cancelReq, plan, project, live, manifest, att, daemon, peek>>
  BY DEF AcceptPlan, Go, files
<1>2. state'[o] = "queued" /\ \A a \in Ops \ {o} : state'[a] = state[a]
  BY DEF AcceptPlan, IInv, TypeOK
<1>3. w'[o].pc = "look" /\ \A a \in Ops \ {o} : w'[a] = w[a]
  BY <1>1, GoFresh
<1>4. /\ StageInv(o) /\ att[o].mark = "none" /\ ~cancelReq[o]
      /\ w[o].pc \notin Running
  BY <1>1, FreshFacts DEF StageInv, Terminal, OpInv
<1>5. w[o].pc \notin Writing
  BY <1>4 DEF Running, Loaded, Writing, PCs
<1>6. StageInv(o)' /\ (Pending(o)' <=> Pending(o))
  BY <1>1, <1>2, <1>3, <1>4 DEF StageInv, Pending, Unfinished, Preparing, Proved, Writing,
     Wrote, Destructive
<1> QED
  BY <1>1, <1>2, <1>3, <1>5, <1>6, OwnQuiet DEF Writing, Loaded, Proved

LEMMA CancelFresh ==
    ASSUME IInv, FreshInv, Fresh, NEW o \in Ops, Cancel(o)
    PROVE  FreshInv'
<1>1. /\ state[o] \notin Terminal \cup {"absent"}
      /\ UNCHANGED <<plan, project, live, manifest, att, daemon, w, peek>>
  BY DEF Cancel, files
<1>2. /\ state'[o] = IF state[o] = "queued" THEN "cancelled" ELSE "cancelling"
      /\ cancelReq'[o] = TRUE
      /\ \A a \in Ops \ {o} : state'[a] = state[a] /\ cancelReq'[a] = cancelReq[a]
  BY DEF Cancel, IInv, TypeOK
<1>3. FreshOp(o)
  BY DEF FreshInv
<1>4. StageInv(o)' /\ (Pending(o)' <=> Pending(o))
  BY <1>1, <1>2, <1>3 DEF FreshOp, StageInv, Pending, Unfinished, Terminal
<1>5. /\ Base(o)' = Base(o) /\ Changes(o)' = Changes(o) /\ Removes(o)' = Removes(o)
  BY <1>1, PlanSame
<1>6. FreshOp(o)'
  BY <1>1, <1>3, <1>4, <1>5 DEF FreshOp, RecordInv, WritingInv, Half, Final
<1>7. OthersStay(o)
  BY <1>1, <1>2 DEF OthersStay
<1> QED
  BY <1>1, <1>4, <1>6, <1>7, QuietFresh

\* Where the worker of a plan that has started to write can be.
LEMMA PendingPlaces ==
    ASSUME IInv, FreshInv, Fresh, NEW o \in Ops
    PROVE  /\ w[o].pc \in Writing \cup {"inspect", "complete"} => Pending(o)
           /\ Pending(o) => /\ w[o].pc \in Writing \cup {"inspect", "complete", "idle"}
                            /\ w[o].pc = "idle" => plan[o].rev < project.rev
                            /\ state[o] \in {"running", "cancelling"}
                            /\ plan[o].rev \in Nat /\ plan[o].rev <= project.rev
<1>1. OpInv(o) /\ StageInv(o) /\ RecordInv(o) /\ w[o].pc \in PCs
  BY FreshFacts DEF Worker
<1>2. w[o].pc \in Writing \cup {"inspect", "complete"} => Pending(o)
  BY <1>1 DEF OpInv, StageInv, Pending, Running, Loaded, Writing, Wrote, PCs
<1>3. ASSUME Pending(o)
      PROVE  /\ w[o].pc \in Writing \cup {"inspect", "complete", "idle"}
             /\ w[o].pc = "idle" => plan[o].rev < project.rev
             /\ state[o] \in {"running", "cancelling"}
  BY <1>1, <1>3 DEF StageInv, Pending, Unfinished, Terminal, PCs, Preparing, Proved, Writing,
     Wrote, Destructive
<1>4. Pending(o) => plan[o].rev \in Nat /\ plan[o].rev <= project.rev
  BY <1>1, <1>3 DEF OpInv, RecordInv, IInv, TypeOK, Plan
<1> QED
  BY <1>2, <1>3, <1>4

\* Under a new revision every plan that is writing is outrun.
LEMMA RevisionFresh ==
    ASSUME IInv, FreshInv, Fresh, project' \in Row, project'.rev = project.rev + 1,
           peek' \in {peek, None},
           UNCHANGED <<state, cancelReq, plan, live, manifest, att, daemon, w>>,
           Calm /\ (\A o \in Ops : ~Pending(o)) => project'.obs = project.obs
    PROVE  FreshInv'
<1>1. daemon = "up" /\ (\A a \in Ops : FreshOp(a)) /\ WholeInv /\ CalmInv /\ PeekInv
  BY DEF FreshInv
<1>2. project \in Row /\ project.rev \in Nat
  BY DEF IInv, TypeOK, Row
<1>3. \A a \in Ops : FreshOp(a)'
  <2>1. CASE Ops = {}
    BY <2>1
  <2>2. ASSUME NEW a \in Ops PROVE FreshOp(a)'
    <3>1. RecordInv(a) /\ OpInv(a) /\ StageInv(a) /\ WritingInv(a)
      BY FreshFacts
    <3>2. plan[a] # None => plan[a].rev \in Nat
      BY DEF IInv, TypeOK, Plan
    <3>3. w[a].pc \in Loaded => w[a].row.rev \in Nat
      BY <3>1 DEF OpInv, Row
    <3>4. Base(a)' = Base(a) /\ Changes(a)' = Changes(a) /\ Removes(a)' = Removes(a)
      BY PlanSame
    <3>5. Unfinished(a) => plan[a] # None
      BY <3>1 DEF OpInv, Unfinished
    <3>6. StageInv(a)'
      BY <1>2, <3>1, <3>2, <3>5 DEF StageInv, Unfinished
    <3>7. RecordInv(a)'
      BY <1>2, <3>1, <3>2, <3>3, <3>4 DEF RecordInv
    <3>8. WritingInv(a)' /\ (w'[a].pc = "inspect" => Final(a)')
      BY <1>1, <3>1, <3>4 DEF WritingInv, Half, FreshOp, Final
    <3> QED
      BY <3>6, <3>7, <3>8 DEF FreshOp
  <2> QED
    BY <2>2
<1>4. WholeInv'
  BY <1>1 DEF WholeInv, Whole
<1>5. \A a \in Ops : Pending(a)' <=> Pending(a)
  BY DEF Pending
<1>6. ASSUME Calm' PROVE Calm /\ \A a \in Ops : ~Pending(a)
  <2>1. ASSUME NEW a \in Ops, Pending(a) PROVE FALSE
    <3>1. plan[a].rev = project.rev + 1
      BY <1>5, <1>6, <2>1 DEF Calm
    <3>2. plan[a].rev \in Nat /\ plan[a].rev <= project.rev
      BY <2>1, PendingPlaces
    <3> QED
      BY <1>2, <3>1, <3>2
  <2> QED
    BY <2>1 DEF Calm
<1>7. CalmInv'
  <2>1. ASSUME Calm' PROVE /\ \A a \in Ops : ~Pending(a)' /\ w'[a].pc # "complete"
                           /\ manifest' = project'.obs
    <3>1. Calm /\ \A a \in Ops : ~Pending(a)
      BY <1>6, <2>1
    <3>2. manifest = project.obs
      BY <1>1, <3>1 DEF CalmInv
    <3>3. \A a \in Ops : w[a].pc # "complete"
      BY <3>1, PendingPlaces
    <3> QED
      BY <1>5, <3>1, <3>2, <3>3
  <2> QED
    BY <2>1 DEF CalmInv
<1>8. PeekInv'
  BY <1>1, <1>2 DEF PeekInv, IInv, TypeOK, Row
<1> QED
  BY <1>1, <1>3, <1>4, <1>7, <1>8 DEF FreshInv

\* What a refresh has read is no part of the rest.
LEMMA PeekOnly ==
    ASSUME FreshInv, Fresh, PeekInv',
           UNCHANGED <<state, cancelReq, plan, project, live, manifest, att, daemon, w>>
    PROVE  FreshInv'
<1>1. \A a \in Ops : /\ FreshOp(a) => FreshOp(a)'
                     /\ Pending(a)' <=> Pending(a)
                     /\ Final(a) => Final(a)'
                     /\ Base(a)' = Base(a)
  BY PlanSame DEF FreshOp, StageInv, RecordInv, WritingInv, Pending, Half, Final, Unfinished
<1>2. (WholeInv => WholeInv') /\ (Calm' => Calm)
  BY <1>1 DEF WholeInv, Whole, Calm
<1>3. ASSUME CalmInv PROVE CalmInv'
  <2>1. SUFFICES ASSUME Calm' PROVE CalmInv'
    BY DEF CalmInv
  <2>2. /\ \A a, b \in Ops : Pending(a) /\ Pending(b) => a = b
        /\ \A o \in Ops : Pending(o) => Base(o) = project.obs
        /\ \A o \in Ops : w[o].pc = "complete" => Final(o) /\ w[o].row.obs = manifest
        /\ (\A o \in Ops : ~Pending(o)) => manifest = project.obs
    BY <1>2, <1>3, <2>1 DEF CalmInv
  <2> QED
    BY <1>1, <2>2 DEF CalmInv
<1>4. /\ daemon = "up" /\ WholeInv' /\ CalmInv'
      /\ \A a \in Ops : FreshOp(a)'
  BY <1>1, <1>2, <1>3 DEF FreshInv
<1> QED
  BY <1>4 DEF FreshInv

LEMMA TouchFresh ==
    ASSUME IInv, FreshInv, Fresh, SetFavorite \/ InspectProject \/ RefreshProject
    PROVE  FreshInv'
<1>1. /\ project \in Row /\ project.rev \in Nat /\ project.obs \in Tree /\ PeekInv
      /\ peek \in Row \cup {None}
  BY DEF FreshInv, IInv, TypeOK, Row
<1>2. CASE SetFavorite
  <2>1. /\ project' = [project EXCEPT !.rev = project.rev + 1]
        /\ UNCHANGED <<state, cancelReq, plan, live, manifest, att, daemon, w, peek>>
    BY <1>2 DEF SetFavorite, files
  <2>2. project' \in Row /\ project'.rev = project.rev + 1 /\ project'.obs = project.obs
    BY <1>1, <2>1 DEF Row
  <2> QED
    BY <2>1, <2>2, RevisionFresh
<1>3. CASE InspectProject
  <2>1. /\ peek' = [rev |-> project.rev, obs |-> manifest]
        /\ UNCHANGED <<state, cancelReq, plan, project, live, manifest, att, daemon, w>>
    BY <1>3 DEF InspectProject, db, files
  <2>2. peek'.rev = project.rev /\ peek'.obs = manifest
    BY <2>1
  <2>3. Calm /\ (\A a \in Ops : ~Pending(a)) => manifest = project.obs
    BY DEF FreshInv, CalmInv
  <2>4. (Calm' => Calm) /\ \A a \in Ops : Pending(a) => Pending(a)'
    BY <2>1 DEF Calm, Pending
  <2>5. PeekInv'
    <3>1. peek'.rev <= project'.rev
      BY <1>1, <2>1, <2>2
    <3>2. Calm' => peek'.obs = project'.obs \/ \E a \in Ops : Pending(a)'
      BY <2>1, <2>2, <2>3, <2>4
    <3> QED
      BY <3>1, <3>2 DEF PeekInv
  <2> QED
    BY <2>1, <2>5, PeekOnly
<1>4. CASE RefreshProject
  <2>1. /\ peek # None /\ peek' = None
        /\ UNCHANGED <<state, cancelReq, plan, live, manifest, att, daemon, w>>
    BY <1>4 DEF RefreshProject, files
  <2>2. CASE peek.rev = project.rev /\ peek.obs # project.obs
    <3>1. project' = [rev |-> project.rev + 1, obs |-> peek.obs]
      BY <1>4, <2>2 DEF RefreshProject
    <3>2. project' \in Row /\ project'.rev = project.rev + 1
      BY <1>1, <2>1, <3>1 DEF Row
    <3>3. ~(Calm /\ \A a \in Ops : ~Pending(a))
      BY <1>1, <2>1, <2>2 DEF PeekInv
    <3> QED
      BY <2>1, <3>2, <3>3, RevisionFresh
  <2>3. CASE ~(peek.rev = project.rev /\ peek.obs # project.obs)
    <3>1. project' = project
      BY <1>4, <2>3 DEF RefreshProject
    <3> QED
      BY <2>1, <3>1, PeekOnly DEF PeekInv
  <2> QED
    BY <2>2, <2>3
<1> QED
  BY <1>2, <1>3, <1>4

-----------------------------------------------------------------------------
(* Steps that write *)

LEMMA PlanFacts ==
    ASSUME IInv, FreshInv, Fresh, NEW o \in Ops, plan[o] # None
    PROVE  /\ plan[o] \in Plan /\ plan[o].target \in Tree /\ Base(o) \in Tree
           /\ Changes(o) \subseteq Pkgs /\ o # "absent"
           /\ \A p \in Pkgs :
                /\ p \in Changes(o) <=> plan[o].target[p] # Base(o)[p]
                /\ p \in Installs(o) <=> p \in Changes(o) /\ Base(o)[p] = "absent"
                /\ p \in Removes(o) <=> p \in Changes(o) /\ plan[o].target[p] = "absent"
                /\ p \in Changes(o) \ Removes(o) => plan[o].target[p] = o
<1>1. plan[o] \in Plan /\ RecordInv(o)
  BY FreshFacts DEF IInv, TypeOK
<1> QED
  BY <1>1, PackageApplyAssumption DEF RecordInv, Plan, Seen, Changes, Installs, Removes, Base

\* A step within the swap and the commit.
LEMMA WriteFresh ==
    ASSUME IInv, FreshInv, Fresh, NEW o \in Ops,
           w[o].pc \in Writing, w'[o].pc \in Writing, w'[o].row = w[o].row,
           \A a \in Ops \ {o} : w'[a] = w[a] /\ att'[a] = att[a],
           att'[o].mark \in Destructive,
           UNCHANGED <<state, cancelReq, plan, project, peek, daemon>>,
           WritingInv(o)'
    PROVE  FreshInv'
<1>1. daemon = "up" /\ (\A a \in Ops : FreshOp(a)) /\ CalmInv /\ PeekInv
  BY DEF FreshInv
<1>2. OpInv(o) /\ StageInv(o) /\ RecordInv(o) /\ w[o].pc \in Inside \cap Loaded
  BY FreshFacts DEF Writing, Inside, Loaded, PCs
<1>3. StageInv(o)'
  BY <1>2 DEF StageInv, Unfinished, OpInv, Running, Writing, Preparing, Proved, Destructive
<1>4. Base(o)' = Base(o)
  BY PlanSame
<1>5. RecordInv(o)'
  BY <1>2, <1>4 DEF RecordInv, Writing, Loaded, Proved
<1>6. FreshOp(o)'
  BY <1>3, <1>5 DEF FreshOp, Writing
<1>7. \A a \in Ops : FreshOp(a)'
  BY <1>1, <1>2, <1>6, AllFresh DEF OthersStay, Advances
<1>8. WholeInv'
  BY DEF WholeInv
<1>9. Pending(o) /\ att[o].mark \in Wrote
  BY PendingPlaces DEF Pending
<1>10. \A a \in Ops : Pending(a)' <=> Pending(a)
  BY <1>9 DEF Pending, Wrote
<1>11. Calm' <=> Calm
  BY <1>10 DEF Calm
<1>12. \A a \in Ops : Base(a)' = Base(a)
  BY PlanSame
<1>13. CalmInv'
  <2>1. SUFFICES ASSUME Calm' PROVE CalmInv'
    BY DEF CalmInv
  <2>2. /\ \A a, b \in Ops : Pending(a) /\ Pending(b) => a = b
        /\ \A a \in Ops : Pending(a) => Base(a) = project.obs
    BY <1>1, <1>11, <2>1 DEF CalmInv
  <2>3. ASSUME NEW a \in Ops, w'[a].pc = "complete" PROVE FALSE
    <3>1. a # o
      BY <2>3 DEF Writing
    <3>2. w[a].pc = "complete"
      BY <2>3, <3>1
    <3>3. Pending(a)
      BY <3>2, PendingPlaces
    <3> QED
      BY <1>9, <2>2, <3>1, <3>3
  <2> QED
    BY <1>9, <1>10, <1>12, <2>2, <2>3 DEF CalmInv
<1>14. PeekInv'
  BY <1>1, <1>10, <1>11 DEF PeekInv
<1> QED
  BY <1>1, <1>7, <1>8, <1>13, <1>14 DEF FreshInv

\* The plan of a worker that writes.
LEMMA WriterFacts ==
    ASSUME IInv, FreshInv, Fresh, NEW o \in Ops, w[o].pc \in Writing
    PROVE  /\ plan[o] # None /\ w[o].todo \in SUBSET Pkgs /\ att[o].mark \in Destructive
           /\ live \in Tree /\ state[o] \in {"running", "cancelling"}
<1>1. OpInv(o) /\ StageInv(o) /\ w[o] \in Worker
  BY FreshFacts
<1>2. w[o].pc \in Running
  BY DEF Writing, Running, Loaded, PCs
<1> QED
  BY <1>1, <1>2 DEF OpInv, StageInv, Worker, IInv, TypeOK

LEMMA OnlyFirst ==
    ASSUME NEW S \in SUBSET Pkgs, NEW p, NEW q, First(S, p), First(S, q)
    PROVE  p = q
BY PackageApplyAssumption DEF First

LEMMA SwapFresh ==
    ASSUME IInv, FreshInv, Fresh, NEW o \in Ops, NEW p \in Pkgs, Swap(o, p)
    PROVE  FreshInv'
<1>1. /\ w[o].pc = "swap" /\ First(w[o].todo, p) /\ p \in w[o].todo
      /\ UNCHANGED <<state, cancelReq, plan, project, manifest, daemon, peek>>
  BY DEF Swap, At, First, db
<1>2. /\ plan[o] # None /\ w[o].todo \in SUBSET Pkgs /\ att[o].mark \in Destructive
      /\ live \in Tree /\ w[o] \in Worker /\ att[o] \in Attempt /\ WritingInv(o)
  BY <1>1, WriterFacts, FreshFacts DEF Writing
<1>3. /\ Changes(o) \subseteq Pkgs
      /\ \A q \in Pkgs :
           /\ q \in Changes(o) <=> plan[o].target[q] # Base(o)[q]
           /\ q \in Installs(o) <=> q \in Changes(o) /\ Base(o)[q] = "absent"
           /\ q \in Removes(o) <=> q \in Changes(o) /\ plan[o].target[q] = "absent"
  BY <1>2, PlanFacts
<1>4. /\ manifest = Base(o) /\ w[o].todo \subseteq Changes(o)
      /\ \A q \in Pkgs : live[q] = IF q \notin w[o].todo THEN plan[o].target[q] ELSE Base(o)[q]
  BY <1>1, <1>2 DEF WritingInv, Writing, Half
<1>5. (live[p] = "absent") <=> (p \in Installs(o))
  BY <1>1, <1>3, <1>4
<1> DEFINE pc   == IF p \in Removes(o) THEN "swap" ELSE "publish"
           todo == IF p \in Removes(o) THEN w[o].todo \ {p} ELSE w[o].todo
<1>6. /\ live' = [live EXCEPT ![p] = "absent"]
      /\ att' = [att EXCEPT ![o] = [att[o] EXCEPT
                    !.backup = [att[o].backup EXCEPT ![p] = live[p]]]]
      /\ w' = [w EXCEPT ![o] = [w[o] EXCEPT !.pc = pc, !.todo = todo]]
  BY <1>5 DEF Swap
<1>7. /\ pc \in {"swap", "publish"}
      /\ pc = "publish" => p \notin Removes(o) /\ todo = w[o].todo
      /\ pc = "swap" => p \in Removes(o) /\ todo = w[o].todo \ {p}
  OBVIOUS
<1> HIDE DEF pc, todo
<1>8. /\ w'[o] = [w[o] EXCEPT !.pc = pc, !.todo = todo]
      /\ att'[o] = [att[o] EXCEPT !.backup = [att[o].backup EXCEPT ![p] = live[p]]]
      /\ \A a \in Ops \ {o} : w'[a] = w[a] /\ att'[a] = att[a]
  <2> DEFINE at == [att[o] EXCEPT !.backup = [att[o].backup EXCEPT ![p] = live[p]]]
             wk == [w[o] EXCEPT !.pc = pc, !.todo = todo]
  <2>1. att' = [att EXCEPT ![o] = at] /\ w' = [w EXCEPT ![o] = wk]
    BY <1>6
  <2> HIDE DEF at, wk
  <2>2. att'[o] = at /\ w'[o] = wk /\ \A a \in Ops \ {o} : att'[a] = att[a] /\ w'[a] = w[a]
    BY <2>1, BothWritten
  <2> QED
    BY <2>2 DEF at, wk
<1>9. w'[o].pc = pc /\ w'[o].todo = todo /\ w'[o].row = w[o].row
  BY <1>2, <1>8 DEF Worker
<1>10. att'[o].mark = att[o].mark
  BY <1>2, <1>8 DEF Attempt
<1>11. /\ live'[p] = "absent"
       /\ \A q \in Pkgs : q # p => live'[q] = live[q]
  BY <1>2, <1>6 DEF Tree
<1>12. /\ Base(o)' = Base(o) /\ Changes(o)' = Changes(o) /\ Removes(o)' = Removes(o)
       /\ plan'[o] = plan[o]
  BY <1>1, PlanSame
<1>13. ASSUME NEW q \in Pkgs
       PROVE  live'[q] = IF q \notin todo THEN plan[o].target[q]
                         ELSE IF Half(o, q)' THEN "absent" ELSE Base(o)[q]
  <2>1. CASE q = p /\ pc = "swap"
    BY <1>3, <1>4, <1>7, <1>1, <1>11, <2>1
  <2>2. CASE q = p /\ pc = "publish"
    BY <1>1, <1>7, <1>9, <1>11, <2>2 DEF Half
  <2>3. CASE q # p
    <3>1. q \in todo <=> q \in w[o].todo
      BY <1>7, <2>3
    <3>2. ~Half(o, q)'
      <4>1. ASSUME Half(o, q)' PROVE FALSE
        <5>1. pc = "publish" /\ First(w[o].todo, q)
          BY <1>7, <1>9, <4>1 DEF Half
        <5> QED
          BY <1>1, <1>2, <2>3, <5>1, OnlyFirst
      <4> QED
        BY <4>1
    <3> QED
      BY <1>4, <1>11, <2>3, <3>1, <3>2
  <2> QED
    BY <1>7, <2>1, <2>2, <2>3
<1>14. WritingInv(o)'
  BY <1>1, <1>4, <1>7, <1>9, <1>12, <1>13 DEF WritingInv
<1> QED
  BY <1>1, <1>2, <1>7, <1>8, <1>9, <1>10, <1>14, WriteFresh DEF Writing

LEMMA PublishFresh ==
    ASSUME IInv, FreshInv, Fresh, NEW o \in Ops, NEW p \in Pkgs, Publish(o, p)
    PROVE  FreshInv'
<1>1. /\ w[o].pc = "publish" /\ First(w[o].todo, p) /\ p \in w[o].todo
      /\ UNCHANGED <<state, cancelReq, plan, project, manifest, daemon, peek>>
  BY DEF Publish, At, First, db
<1>2. /\ plan[o] # None /\ w[o].todo \in SUBSET Pkgs /\ att[o].mark \in Destructive
      /\ live \in Tree /\ w[o] \in Worker /\ att[o] \in Attempt /\ WritingInv(o)
  BY <1>1, WriterFacts, FreshFacts DEF Writing
<1>3. /\ manifest = Base(o) /\ w[o].todo \subseteq Changes(o)
      /\ \A q \in Pkgs : live[q] = IF q \notin w[o].todo THEN plan[o].target[q]
                                   ELSE IF Half(o, q) THEN "absent" ELSE Base(o)[q]
      /\ \E q \in w[o].todo \ Removes(o) : First(w[o].todo, q)
  BY <1>1, <1>2 DEF WritingInv, Writing
<1>4. p \notin Removes(o) /\ \A q \in Pkgs : q # p => ~Half(o, q)
  BY <1>1, <1>2, <1>3, OnlyFirst DEF Half
<1>5. plan[o].target[p] = o
  BY <1>1, <1>2, <1>3, <1>4, PlanFacts
<1>6. /\ live' = [live EXCEPT ![p] = o]
      /\ att' = [att EXCEPT ![o] = [att[o] EXCEPT !.staged = att[o].staged \ {p}]]
      /\ w' = [w EXCEPT ![o] = [w[o] EXCEPT !.pc = "swap", !.todo = w[o].todo \ {p}]]
  BY DEF Publish
<1>7. /\ w'[o] = [w[o] EXCEPT !.pc = "swap", !.todo = w[o].todo \ {p}]
      /\ att'[o] = [att[o] EXCEPT !.staged = att[o].staged \ {p}]
      /\ \A a \in Ops \ {o} : w'[a] = w[a] /\ att'[a] = att[a]
  BY <1>6 DEF IInv, TypeOK
<1>8. w'[o].pc = "swap" /\ w'[o].todo = w[o].todo \ {p} /\ w'[o].row = w[o].row
  BY <1>2, <1>7 DEF Worker
<1>9. att'[o].mark = att[o].mark
  BY <1>2, <1>7 DEF Attempt
<1>10. live'[p] = o /\ \A q \in Pkgs : q # p => live'[q] = live[q]
  BY <1>2, <1>6 DEF Tree
<1>11. /\ Base(o)' = Base(o) /\ Changes(o)' = Changes(o) /\ Removes(o)' = Removes(o)
       /\ plan'[o] = plan[o]
  BY <1>1, PlanSame
<1>12. \A q \in Pkgs : live'[q] = IF q \notin w'[o].todo THEN plan[o].target[q]
                                  ELSE Base(o)[q]
  BY <1>3, <1>4, <1>5, <1>8, <1>10
<1>13. WritingInv(o)'
  BY <1>1, <1>3, <1>8, <1>11, <1>12 DEF WritingInv, Half
<1> QED
  BY <1>1, <1>2, <1>7, <1>8, <1>9, <1>13, WriteFresh DEF Writing

LEMMA SwappedFresh ==
    ASSUME IInv, FreshInv, Fresh, NEW o \in Ops,
           Swapped(o) \/ Mark(o, "commitIntent", "vpm_manifest_committed", "commit1", {})
    PROVE  FreshInv'
<1>1. PICK here \in {"swap", "commitIntent"}, next \in {"commitIntent", "commit1"} :
        /\ w[o].pc = here /\ w'[o].pc = next /\ w'[o].row = w[o].row
        /\ here = "swap" => w[o].todo = {} /\ att'[o] = att[o]
        /\ here = "commitIntent" => att'[o].mark = "vpm_manifest_committed"
        /\ w'[o].todo = {}
        /\ \A a \in Ops \ {o} : w'[a] = w[a] /\ att'[a] = att[a]
        /\ UNCHANGED <<state, cancelReq, plan, project, live, manifest, daemon, peek>>
  <2>1. CASE Swapped(o)
    BY <2>1, GoFresh DEF Swapped, At, db, files
  <2>2. CASE Mark(o, "commitIntent", "vpm_manifest_committed", "commit1", {})
    BY <2>2, MarkFacts
  <2> QED
    BY <2>1, <2>2
<1>2. WritingInv(o) /\ att[o].mark \in Destructive
  BY <1>1, WriterFacts, FreshFacts DEF Writing
<1>3. /\ manifest = Base(o) /\ w[o].todo = {}
      /\ \A q \in Pkgs : live[q] = plan[o].target[q]
  BY <1>1, <1>2 DEF WritingInv, Writing
<1>4. Base(o)' = Base(o) /\ Changes(o)' = Changes(o)
  BY <1>1, PlanSame
<1>5. WritingInv(o)'
  BY <1>1, <1>3, <1>4 DEF WritingInv
<1> QED
  BY <1>1, <1>2, <1>5, WriteFresh DEF Writing, Destructive

LEMMA CommitFresh ==
    ASSUME IInv, FreshInv, Fresh, NEW o \in Ops, CommitManifestAway(o) \/ CommitManifest(o)
    PROVE  FreshInv'
<1>1. PICK here \in {"commit1", "commit2"}, next \in {"commit2", "verify"} :
        /\ w[o].pc = here /\ Go(o, next)
        /\ att'[o].mark = att[o].mark /\ \A a \in Ops \ {o} : att'[a] = att[a]
        /\ next = "commit2" => manifest' = None
        /\ next = "verify" => manifest' = plan[o].target
        /\ UNCHANGED <<state, cancelReq, plan, project, live, daemon, peek>>
  <2>1. CASE CommitManifestAway(o)
    <3>1. att' = [att EXCEPT ![o] = [att[o] EXCEPT !.oldManifest = manifest]]
      BY <2>1 DEF CommitManifestAway
    <3>2. /\ att'[o] = [att[o] EXCEPT !.oldManifest = manifest]
          /\ att[o] \in Attempt /\ \A a \in Ops \ {o} : att'[a] = att[a]
      BY <3>1, AttemptWritten DEF IInv, TypeOK
    <3>3. att'[o].mark = att[o].mark
      BY <3>2 DEF Attempt
    <3> QED
      BY <2>1, <3>2, <3>3 DEF CommitManifestAway, At, db
  <2>2. CASE CommitManifest(o)
    BY <2>2 DEF CommitManifest, At, db
  <2> QED
    BY <2>1, <2>2
<1>2. /\ w'[o].pc = next /\ w'[o].row = w[o].row /\ w'[o].todo = w[o].todo
      /\ \A a \in Ops \ {o} : w'[a] = w[a]
  BY <1>1, GoFresh
<1>3. WritingInv(o) /\ att[o].mark \in Destructive
  BY <1>1, WriterFacts, FreshFacts DEF Writing
<1>4. w[o].todo = {} /\ \A q \in Pkgs : live[q] = plan[o].target[q]
  BY <1>1, <1>3 DEF WritingInv, Writing
<1>5. Base(o)' = Base(o) /\ Changes(o)' = Changes(o)
  BY <1>1, PlanSame
<1>6. WritingInv(o)'
  BY <1>1, <1>2, <1>4, <1>5 DEF WritingInv
<1> QED
  BY <1>1, <1>2, <1>3, <1>6, WriteFresh DEF Writing

\* The first rename is near: the files are whole, and as the plan saw them.  If
\* the plan is not outrun, no other plan of its revision has written.
LEMMA IntentFresh ==
    ASSUME IInv, FreshInv, Fresh, NEW o \in Ops,
           Mark(o, "intent", "packages_replaced", "swap", Changes(o))
    PROVE  FreshInv'
<1>1. /\ w[o].pc = "intent" /\ att'[o].mark = "packages_replaced"
      /\ \A a \in Ops \ {o} : att'[a] = att[a] /\ w'[a] = w[a]
      /\ w'[o].pc = "swap" /\ w'[o].todo = Changes(o) /\ w'[o].row = w[o].row
      /\ UNCHANGED <<state, cancelReq, plan, project, live, manifest, daemon, peek>>
  BY MarkFacts
<1>2. /\ daemon = "up" /\ (\A a \in Ops : FreshOp(a)) /\ WholeInv /\ CalmInv /\ PeekInv
      /\ OpInv(o) /\ StageInv(o) /\ RecordInv(o)
  BY FreshFacts DEF FreshInv
<1>3. /\ plan[o] # None /\ state[o] \in {"running", "cancelling"} /\ lock = o
      /\ manifest # None /\ Snapshot = plan[o].seen
      /\ w[o].row.rev = plan[o].rev /\ w[o].row.obs = manifest
      /\ att[o].mark \notin Wrote
  BY <1>1, <1>2 DEF OpInv, StageInv, RecordInv, Inside, Running, Loaded, PCs, Proved
<1>4. Base(o) = manifest
  BY <1>3 DEF Base, Snapshot
<1>5. live = manifest
  <2>1. \A a \in Ops : w[a].pc \notin Writing
    BY <1>1, <1>3 DEF IInv, OpInv, Inside, Writing
  <2> QED
    BY <1>2, <2>1 DEF WholeInv, Whole
<1>6. /\ Base(o)' = Base(o) /\ Changes(o)' = Changes(o) /\ Removes(o)' = Removes(o)
      /\ plan'[o] = plan[o]
  BY <1>1, PlanSame
<1>7. \A p \in Pkgs : p \notin Changes(o) => plan[o].target[p] = Base(o)[p]
  BY <1>3, PlanFacts
<1>8. WritingInv(o)'
  BY <1>1, <1>4, <1>5, <1>6, <1>7 DEF WritingInv, Half
<1>9. StageInv(o)'
  BY <1>1, <1>2, <1>3 DEF StageInv, Unfinished, Preparing, Proved, Destructive, Writing
<1>10. RecordInv(o)'
  BY <1>1, <1>2, <1>6 DEF RecordInv, Loaded, Proved, PCs
<1>11. FreshOp(o)'
  BY <1>1, <1>8, <1>9, <1>10 DEF FreshOp
<1>12. \A a \in Ops : FreshOp(a)'
  BY <1>1, <1>2, <1>11, AllFresh DEF OthersStay, Advances
<1>13. WholeInv'
  BY <1>1 DEF WholeInv, Writing
<1>14. /\ ~Pending(o) /\ Pending(o)'
       /\ \A a \in Ops \ {o} : Pending(a)' <=> Pending(a)
  BY <1>1, <1>3 DEF Pending, Wrote, Destructive
<1>15. Calm' => Calm
  BY <1>1, <1>14 DEF Calm
<1>16. ASSUME Calm' PROVE Base(o) = project.obs /\ \A a \in Ops : ~Pending(a)
  <2>1. plan[o].rev = project.rev
    BY <1>1, <1>14, <1>16 DEF Calm
  <2>2. Base(o) = project.obs
    BY <1>1, <1>2, <1>3, <1>4, <2>1 DEF RecordInv, Loaded, PCs
  <2>3. ASSUME NEW a \in Ops, Pending(a) PROVE FALSE
    <3>1. a # o /\ Calm /\ plan[a].rev = project.rev /\ project.rev \in Nat
      BY <1>14, <1>15, <1>16, <2>3 DEF Calm, IInv, TypeOK, Row
    <3>2. w[a].pc \in Writing \cup {"inspect", "complete"}
      BY <2>3, <3>1, PendingPlaces
    <3>3. w[a].pc = "complete"
      BY <1>3, <3>1, <3>2 DEF IInv, OpInv, Inside, Writing
    <3>4. manifest = plan[a].target /\ Base(a) = project.obs
      BY <1>2, <2>3, <3>1, <3>3 DEF CalmInv, Final
    <3>5. plan[a].target # Base(a)
      <4>1. plan[a] # None /\ RecordInv(a)
        BY <3>3, FreshFacts DEF OpInv
      <4> QED
        BY <4>1 DEF RecordInv
    <3> QED
      BY <1>4, <2>2, <3>4, <3>5
  <2> QED
    BY <2>2, <2>3
<1>17. CalmInv'
  <2>1. SUFFICES ASSUME Calm' PROVE CalmInv'
    BY DEF CalmInv
  <2>2. \A a \in Ops : Pending(a)' => a = o
    BY <1>14, <1>16, <2>1
  <2>3. ASSUME NEW a \in Ops, w'[a].pc = "complete" PROVE FALSE
    <3>1. w[a].pc = "complete"
      BY <1>1, <2>3
    <3> QED
      BY <1>16, <2>1, <3>1, PendingPlaces
  <2>4. Base(o)' = project'.obs
    BY <1>1, <1>6, <1>16, <2>1
  <2> QED
    BY <1>14, <2>2, <2>3, <2>4 DEF CalmInv
<1>18. PeekInv'
  BY <1>1, <1>2, <1>14 DEF PeekInv
<1> QED
  BY <1>1, <1>2, <1>12, <1>13, <1>17, <1>18 DEF FreshInv

\* The verification never finds a difference.
LEMMA VerifyFresh ==
    ASSUME IInv, FreshInv, Fresh, NEW o \in Ops, Verify(o)
    PROVE  FreshInv'
<1>1. /\ w[o].pc = "verify"
      /\ UNCHANGED <<state, cancelReq, plan, project, live, manifest, daemon, peek>>
  BY DEF Verify, At, db
<1>2. /\ OpInv(o) /\ StageInv(o) /\ RecordInv(o) /\ WritingInv(o)
      /\ plan[o] # None /\ live \in Tree /\ state[o] \in {"running", "cancelling"}
  BY <1>1, WriterFacts, FreshFacts DEF Writing
<1>3. plan[o].target \in Tree /\ Changes(o) \subseteq Pkgs
  BY <1>2, PlanFacts
<1>4. manifest = plan[o].target /\ \A q \in Pkgs : live[q] = plan[o].target[q]
  BY <1>1, <1>2 DEF WritingInv, Writing
<1>5. Final(o)
  BY <1>3, <1>4 DEF Final
<1>6. Whole
  <2>1. live = [q \in Pkgs |-> live[q]] /\ manifest = [q \in Pkgs |-> manifest[q]]
    BY <1>2, <1>3, <1>4 DEF Tree
  <2>2. live = manifest
    BY <1>4, <2>1
  <2> QED
    BY <1>3, <1>4, <2>2, PackageApplyAssumption DEF Whole
<1>7. /\ att' = [att EXCEPT ![o] = [att[o] EXCEPT !.mark = "filesystem_committed"]]
      /\ Go(o, "inspect")
  BY <1>5 DEF Verify
<1>8. /\ att'[o] = [att[o] EXCEPT !.mark = "filesystem_committed"]
      /\ att[o] \in Attempt /\ \A a \in Ops \ {o} : att'[a] = att[a]
  BY <1>7, AttemptWritten DEF IInv, TypeOK
<1>9. att'[o].mark = "filesystem_committed"
  BY <1>8 DEF Attempt
<1>10. /\ w'[o].pc = "inspect" /\ w'[o].row = w[o].row
       /\ \A a \in Ops \ {o} : w'[a] = w[a]
  BY <1>7, GoFresh
<1>11. Pending(o)' <=> Pending(o)
  BY <1>1, <1>9, PendingPlaces DEF Pending, Wrote, Writing
<1>12. Base(o)' = Base(o) /\ Changes(o)' = Changes(o)
  BY <1>1, PlanSame
<1>13. StageInv(o)'
  BY <1>1, <1>2, <1>9, <1>10 DEF StageInv, Unfinished, Preparing, Proved, Writing
<1>14. RecordInv(o)'
  BY <1>1, <1>2, <1>10, <1>12 DEF RecordInv, Loaded, Proved, PCs
<1>15. FreshOp(o)'
  BY <1>1, <1>5, <1>10, <1>12, <1>13, <1>14 DEF FreshOp, WritingInv, Writing, Final
<1> QED
  BY <1>1, <1>6, <1>8, <1>10, <1>11, <1>15, QuietFresh DEF OthersStay

\* What the worker will report of the files is what they hold.
LEMMA InspectFresh ==
    ASSUME IInv, FreshInv, Fresh, NEW o \in Ops, Inspect(o)
    PROVE  FreshInv'
<1>1. /\ w[o].pc = "inspect" /\ w[o] \in Worker /\ w[o].row \in Row
      /\ UNCHANGED <<state, cancelReq, plan, project, live, manifest, att, daemon, peek>>
  BY FreshFacts DEF Inspect, At, db, files, OpInv, Loaded, PCs
<1>2. w' = [w EXCEPT ![o] = [w[o] EXCEPT !.pc = "complete",
                                         !.row = [w[o].row EXCEPT !.obs = manifest]]]
  BY DEF Inspect
<1>3. /\ w'[o] = [w[o] EXCEPT !.pc = "complete", !.row = [w[o].row EXCEPT !.obs = manifest]]
      /\ \A a \in Ops \ {o} : w'[a] = w[a]
  BY <1>2, AttemptFields
<1>4. w'[o].pc = "complete" /\ w'[o].row = [w[o].row EXCEPT !.obs = manifest]
  BY <1>1, <1>3 DEF Worker
<1>5. w'[o].row.obs = manifest /\ w'[o].row.rev = w[o].row.rev
  BY <1>1, <1>4 DEF Row
<1>6. /\ daemon = "up" /\ (\A a \in Ops : FreshOp(a)) /\ WholeInv /\ CalmInv /\ PeekInv
      /\ OpInv(o) /\ StageInv(o) /\ RecordInv(o) /\ Final(o)
  BY <1>1, FreshFacts DEF FreshInv, FreshOp
<1>7. state[o] \in {"running", "cancelling"}
  BY <1>1, <1>6 DEF OpInv, Running, Loaded, PCs
<1>8. \A a \in Ops : Base(a)' = Base(a) /\ Changes(a)' = Changes(a)
  BY <1>1, PlanSame
<1>9. StageInv(o)'
  BY <1>1, <1>4, <1>6, <1>7 DEF StageInv, Unfinished, Preparing, Proved, Writing
<1>10. RecordInv(o)'
  BY <1>1, <1>4, <1>5, <1>6, <1>8 DEF RecordInv, Loaded, Proved, PCs
<1>11. FreshOp(o)'
  BY <1>4, <1>9, <1>10 DEF FreshOp, WritingInv, Writing
<1>12. \A a \in Ops : FreshOp(a)'
  BY <1>1, <1>3, <1>6, <1>11, AllFresh DEF OthersStay, Advances
<1>13. WholeInv'
  BY <1>1, <1>3, <1>6 DEF WholeInv, Whole, Writing
<1>14. \A a \in Ops : Pending(a)' <=> Pending(a)
  BY <1>1 DEF Pending
<1>15. Calm' <=> Calm
  BY <1>1, <1>14 DEF Calm
<1>16. CalmInv'
  <2>1. SUFFICES ASSUME Calm' PROVE CalmInv'
    BY DEF CalmInv
  <2>2. /\ \A a, b \in Ops : Pending(a) /\ Pending(b) => a = b
        /\ \A a \in Ops : Pending(a) => Base(a) = project.obs
        /\ \A a \in Ops : w[a].pc = "complete" => Final(a) /\ w[a].row.obs = manifest
        /\ (\A a \in Ops : ~Pending(a)) => manifest = project.obs
    BY <1>6, <1>15, <2>1 DEF CalmInv
  <2>3. ASSUME NEW a \in Ops, w'[a].pc = "complete"
        PROVE  Final(a)' /\ w'[a].row.obs = manifest'
    <3>1. CASE a = o
      BY <1>1, <1>5, <1>6, <1>8, <3>1 DEF Final
    <3>2. CASE a # o
      BY <1>1, <1>3, <1>8, <2>2, <2>3, <3>2 DEF Final
    <3> QED
      BY <3>1, <3>2
  <2> QED
    BY <1>1, <1>8, <1>14, <2>2, <2>3 DEF CalmInv
<1>17. PeekInv'
  BY <1>1, <1>6, <1>14, <1>15 DEF PeekInv
<1> QED
  BY <1>1, <1>6, <1>12, <1>13, <1>16, <1>17 DEF FreshInv

\* A success ends the writing under this revision and begins a new one.
LEMMA CompleteFresh ==
    ASSUME IInv, FreshInv, Fresh, NEW o \in Ops, Complete(o)
    PROVE  FreshInv'
<1>1. /\ w[o].pc = "complete" /\ EndTask(o)
      /\ UNCHANGED <<cancelReq, plan, live, manifest, att, daemon, peek>>
  BY DEF Complete, At, files
<1>2. w'[o].pc = "idle" /\ \A a \in Ops \ {o} : w'[a] = w[a]
  BY <1>1, EndFacts DEF IInv, Idle
<1>3. /\ daemon = "up" /\ (\A a \in Ops : FreshOp(a)) /\ WholeInv /\ CalmInv /\ PeekInv
      /\ OpInv(o) /\ StageInv(o) /\ RecordInv(o) /\ WritingInv(o) /\ Pending(o)
  BY <1>1, FreshFacts, PendingPlaces DEF FreshInv
<1>4. /\ plan[o] # None /\ plan[o].rev \in Nat /\ plan[o].rev <= project.rev
      /\ project \in Row /\ project.rev \in Nat /\ w[o].row.obs \in Tree
      /\ state[o] \in {"running", "cancelling"} /\ att[o].mark = "filesystem_committed"
  BY <1>1, <1>3, PendingPlaces DEF IInv, TypeOK, Row, OpInv, Loaded, PCs, StageInv
<1>5. \A a \in Ops : /\ Base(a)' = Base(a) /\ Changes(a)' = Changes(a)
                     /\ Removes(a)' = Removes(a)
  BY <1>1, PlanSame
<1>6. CASE project.rev # plan[o].rev
  <2>1. state' = state /\ project' = project
    BY <1>6 DEF Complete
  <2>2. StageInv(o)' /\ (Pending(o)' <=> Pending(o))
    BY <1>1, <1>2, <1>3, <1>4, <1>6, <2>1 DEF StageInv, Unfinished, Pending, Preparing,
       Proved, Writing
  <2> QED
    BY <1>1, <1>2, <2>1, <2>2, OwnQuiet DEF Writing, Loaded, Proved
<1>7. CASE project.rev = plan[o].rev
  <2>1. /\ project' = [rev |-> project.rev + 1, obs |-> w[o].row.obs]
        /\ state'[o] = "succeeded" /\ \A a \in Ops \ {o} : state'[a] = state[a]
    BY <1>7 DEF Complete, SetState, IInv, TypeOK
  <2>2. project' \in Row /\ project'.rev = project.rev + 1 /\ project'.obs = w[o].row.obs
    BY <1>4, <2>1 DEF Row
  <2>3. StageInv(o)'
    BY <1>1, <1>2, <1>3, <1>4, <2>1 DEF StageInv, Unfinished, Terminal, Preparing, Proved,
       Writing
  <2>4. RecordInv(o)'
    BY <1>1, <1>2, <1>3, <1>4, <1>5, <2>2 DEF RecordInv, Loaded, Proved
  <2>5. FreshOp(o)'
    BY <1>2, <2>3, <2>4 DEF FreshOp, WritingInv, Writing
  <2>6. \A a \in Ops : FreshOp(a)'
    BY <1>1, <1>2, <1>3, <1>4, <2>1, <2>2, <2>5, AllFresh DEF OthersStay, Advances
  <2>7. WholeInv'
    BY <1>1, <1>2, <1>3 DEF WholeInv, Whole, Writing
  <2>8. ~Pending(o)' /\ \A a \in Ops \ {o} : Pending(a)' <=> Pending(a)
    BY <1>1, <2>1 DEF Pending
  <2>9. ASSUME Calm' PROVE Calm /\ \A a \in Ops : ~Pending(a)'
    <3>1. ASSUME NEW a \in Ops, Pending(a)' PROVE FALSE
      <4>1. Pending(a) /\ plan[a].rev = project.rev + 1
        BY <1>1, <2>2, <2>8, <2>9, <3>1 DEF Calm
      <4>2. plan[a].rev \in Nat /\ plan[a].rev <= project.rev
        BY <4>1, PendingPlaces
      <4> QED
        BY <1>4, <4>1, <4>2
    <3>2. \A a \in Ops : Pending(a) => a = o
      BY <2>8, <3>1
    <3> QED
      BY <1>7, <3>1, <3>2 DEF Calm
  <2>10. CalmInv'
    <3>1. SUFFICES ASSUME Calm' PROVE CalmInv'
      BY DEF CalmInv
    <3>2. Calm /\ \A a \in Ops : ~Pending(a)'
      BY <2>9, <3>1
    <3>3. manifest = w[o].row.obs
      BY <1>1, <1>3, <3>2 DEF CalmInv
    <3>4. ASSUME NEW a \in Ops, w'[a].pc = "complete" PROVE FALSE
      <4>1. a # o /\ w[a].pc = "complete"
        BY <1>2, <3>4
      <4> QED
        BY <2>8, <3>2, <4>1, PendingPlaces
    <3> QED
      BY <1>1, <2>2, <3>2, <3>3, <3>4 DEF CalmInv
  <2>11. PeekInv'
    BY <1>1, <1>3, <1>4, <2>2 DEF PeekInv, IInv, TypeOK, Row
  <2> QED
    BY <1>1, <1>3, <2>6, <2>7, <2>10, <2>11 DEF FreshInv
<1> QED
  BY <1>6, <1>7

-----------------------------------------------------------------------------
LEMMA WorkerFresh == ASSUME IInv, FreshInv, Fresh, NEW o \in Ops, WorkerStep(o) PROVE FreshInv'
<1>1. StageInv(o)
  BY FreshFacts
<1>2. w[o].pc \notin {"lockFinal", "lockUndo", "undo", "recheck"}
  BY <1>1 DEF StageInv
<1>3. /\ ~Lock(o, "lockFinal", "recheck") /\ ~Recheck(o)
      /\ ~Lock(o, "lockUndo", "undo") /\ ~UndoManifest(o) /\ ~UndoneRetry(o) /\ ~UndoneEnd(o)
      /\ \A p \in Pkgs : ~UndoPackage(o, p)
  BY <1>2 DEF Lock, Recheck, UndoManifest, UndoneRetry, UndoneEnd, UndoPackage, At
<1>4. CASE \/ CheckCancelled(o, "look", "begin")
           \/ CheckCancelled(o, "cancel1", "lockApply")
           \/ CheckCancelled(o, "cancel2", "prepare")
  <2>1. ASSUME CheckCancelled(o, "look", "begin") PROVE FreshInv'
    BY <2>1, CheckCancelledFresh
  <2>2. ASSUME CheckCancelled(o, "cancel1", "lockApply") PROVE FreshInv'
    BY <2>2, CheckCancelledFresh
  <2>3. ASSUME CheckCancelled(o, "cancel2", "prepare") PROVE FreshInv'
    BY <2>3, CheckCancelledFresh
  <2> QED
    BY <1>4, <2>1, <2>2, <2>3
<1>5. CASE FinishCancelled(o) \/ Begin(o) \/ Load(o) \/ CreateAttempt(o) \/ Extract(o)
  BY <1>5, FinishCancelledFresh, BeginFresh, LoadFresh, CreateAttemptFresh, ExtractFresh
<1>6. CASE \/ Mark(o, "fetch", "archive_ready", "extract", {})
           \/ Mark(o, "prepare", "prepared", "intent", {})
  BY <1>6, MarkFresh
<1>7. CASE Lock(o, "lockApply", "revalidate") \/ Revalidate(o) \/ Fail(o)
  BY <1>7, LockFresh, RevalidateFresh, FailFresh
<1>8. CASE Mark(o, "intent", "packages_replaced", "swap", Changes(o))
  BY <1>8, IntentFresh
<1>9. CASE \E p \in Pkgs : Swap(o, p) \/ Publish(o, p)
  BY <1>9, SwapFresh, PublishFresh
<1>10. CASE Swapped(o) \/ Mark(o, "commitIntent", "vpm_manifest_committed", "commit1", {})
  BY <1>10, SwappedFresh
<1>11. CASE CommitManifestAway(o) \/ CommitManifest(o)
  BY <1>11, CommitFresh
<1>12. CASE Verify(o) \/ Inspect(o) \/ Complete(o)
  BY <1>12, VerifyFresh, InspectFresh, CompleteFresh
<1> QED
  BY <1>3, <1>4, <1>5, <1>6, <1>7, <1>8, <1>9, <1>10, <1>11, <1>12 DEF WorkerStep

LEMMA WorkerBounds ==
    ASSUME NEW o \in Ops, WorkerStep(o) PROVE UNCHANGED <<crashes, faults>>
<1>1. ASSUME \/ CheckCancelled(o, "look", "begin") \/ FinishCancelled(o) \/ Begin(o) \/ Load(o)
             \/ CheckCancelled(o, "cancel1", "lockApply") \/ CreateAttempt(o) \/ Extract(o)
             \/ CheckCancelled(o, "cancel2", "prepare")
      PROVE  UNCHANGED bounds
  BY <1>1 DEF CheckCancelled, FinishCancelled, Begin, Load, CreateAttempt, Extract
<1>2. ASSUME \/ Mark(o, "fetch", "archive_ready", "extract", {})
             \/ Mark(o, "prepare", "prepared", "intent", {})
             \/ Mark(o, "intent", "packages_replaced", "swap", Changes(o))
             \/ Mark(o, "commitIntent", "vpm_manifest_committed", "commit1", {})
      PROVE  UNCHANGED bounds
  BY <1>2 DEF Mark
<1>3. ASSUME \/ Lock(o, "lockApply", "revalidate") \/ Lock(o, "lockFinal", "recheck")
             \/ Lock(o, "lockUndo", "undo") \/ Revalidate(o) \/ Swapped(o)
             \/ CommitManifestAway(o) \/ CommitManifest(o) \/ Verify(o)
      PROVE  UNCHANGED bounds
  BY <1>3 DEF Lock, Revalidate, Swapped, CommitManifestAway, CommitManifest, Verify
<1>4. ASSUME \/ Recheck(o) \/ Inspect(o) \/ Complete(o) \/ Fail(o) \/ UndoManifest(o)
             \/ UndoneRetry(o) \/ UndoneEnd(o)
      PROVE  UNCHANGED bounds
  BY <1>4 DEF Recheck, Inspect, Complete, Fail, UndoManifest, UndoneRetry, UndoneEnd
<1>5. ASSUME NEW p \in Pkgs, Swap(o, p) \/ Publish(o, p) \/ UndoPackage(o, p)
      PROVE  UNCHANGED bounds
  BY <1>5 DEF Swap, Publish, UndoPackage
<1>6. UNCHANGED bounds
  BY <1>1, <1>2, <1>3, <1>4, <1>5 DEF WorkerStep
<1> QED
  BY <1>6 DEF bounds

LEMMA NextFresh == IInv /\ FreshInv /\ [Next]_vars => FreshInv'
<1>1. SUFFICES ASSUME IInv, FreshInv, [Next]_vars, Fresh' PROVE FreshInv'
  BY DEF FreshInv
<1>2. CASE UNCHANGED vars
  <2>1. PeekInv' <=> PeekInv
    BY <1>2 DEF PeekInv, Calm, Pending, vars, db, files, bounds
  <2>2. Fresh /\ UNCHANGED <<state, cancelReq, plan, project, live, manifest, att, daemon, w>>
    BY <1>1, <1>2 DEF Fresh, vars, db, files, bounds
  <2> QED
    BY <1>1, <2>1, <2>2, PeekOnly DEF FreshInv
<1>3. CASE Fault
  <2>1. crashes \in Nat /\ faults \in Nat
    BY <1>1 DEF IInv, TypeOK
  <2>2. crashes' = crashes + 1 \/ faults' = faults + 1
    BY <1>3 DEF Fault, Crash, StopError, FailError, UndoError, Failing
  <2>3. crashes' = 0 /\ faults' = 0
    BY <1>1 DEF Fresh
  <2> QED
    BY <2>1, <2>2, <2>3
<1>4. CASE Request \/ Restart \/ \E o \in Ops : WorkerStep(o)
  <2>1. UNCHANGED <<crashes, faults>>
    <3>1. CASE Request
      BY <3>1 DEF Request, MakePlan, AcceptPlan, Cancel, SetFavorite, InspectProject,
         RefreshProject, bounds
    <3>2. CASE Restart
      BY <3>2 DEF Restart, Start, RecoverRow, Ready, bounds
    <3>3. CASE \E o \in Ops : WorkerStep(o)
      BY <3>3, WorkerBounds
    <3> QED
      BY <1>4, <3>1, <3>2, <3>3
  <2>2. Fresh
    BY <1>1, <2>1 DEF Fresh
  <2>3. CASE Request
    BY <1>1, <2>2, <2>3, MakePlanFresh, AcceptPlanFresh, CancelFresh, TouchFresh DEF Request
  <2>4. ~Restart
    BY <1>1, <2>2 DEF FreshInv, Restart, Start, RecoverRow, Ready
  <2>5. CASE \E o \in Ops : WorkerStep(o)
    BY <1>1, <2>2, <2>5, WorkerFresh
  <2> QED
    BY <1>4, <2>3, <2>4, <2>5
<1> QED
  BY <1>1, <1>2, <1>3, <1>4 DEF Next

LEMMA FreshInvariance == Spec => [](IInv /\ FreshInv)
<1>1. Init => FreshInv
  BY InitFresh
<1>2. IInv /\ FreshInv /\ [Next]_vars => FreshInv'
  BY NextFresh
<1> QED
  BY <1>1, <1>2, Invariance, PTL DEF Spec

\* The only step that reports a success, and what has to be true then.
LEMMA SuccessStep ==
    ASSUME IInv, FreshInv, [Next]_vars, NEW o \in Ops,
           state'[o] = "succeeded", state[o] # "succeeded", Fresh,
           \A other \in Ops \ {o} : ~Outrun(other)
    PROVE  Final(o) /\ project'.obs = manifest /\ project'.rev = plan[o].rev + 1
<1>1. /\ state \in [Ops -> States \cup {"absent"}] /\ project \in Row
      /\ daemon = "up" /\ CalmInv /\ \A a \in Ops : FreshOp(a)
  BY DEF FreshInv, IInv, TypeOK
<1>2. Complete(o)
  <2>1. ~AcceptPlan(o) /\ ~Cancel(o)
    BY <1>1 DEF AcceptPlan, Cancel
  <2>2. ~RecoverRow(o) /\ ~FinishCancelled(o) /\ ~Begin(o)
    BY <1>1 DEF RecoverRow, FinishCancelled, Begin, SetState
  <2>3. ~Fail(o)
    BY <1>1 DEF Fail, SetState, Terminal
  <2> QED
    BY <2>1, <2>2, <2>3, StateSteps
<1>3. /\ w[o].pc = "complete" /\ project.rev = plan[o].rev
      /\ project' = [rev |-> project.rev + 1, obs |-> w[o].row.obs]
  BY <1>2 DEF Complete, At
<1>4. Calm
  <2>1. ASSUME NEW a \in Ops, Pending(a) PROVE plan[a].rev = project.rev
    <3>1. state[a] \in {"running", "cancelling"}
      BY <2>1, PendingPlaces
    <3> QED
      BY <1>3, <3>1 DEF Outrun
  <2> QED
    BY <2>1 DEF Calm
<1>5. Final(o) /\ w[o].row.obs = manifest
  BY <1>1, <1>3, <1>4 DEF CalmInv
<1> QED
  BY <1>3, <1>5

\* For any number of plans and packages: until the daemon first dies or a step
\* fails, an Operation is reported as succeeded only while the files are what
\* its plan asked for, and the projects row it then writes says so, although its
\* lock was free since the last file was written, unless another Operation
\* writes for a revision that is gone.
THEOREM Success == Spec => SuccessIsThePlan
<1>1. IInv /\ FreshInv /\ [Next]_vars =>
        [\A o \in Ops : /\ state'[o] = "succeeded" /\ state[o] # "succeeded"
                        /\ crashes = 0 /\ faults = 0
                        /\ \A other \in Ops \ {o} : ~Outrun(other)
           => Final(o) /\ project'.obs = manifest /\ project'.rev = plan[o].rev + 1]_vars
  BY SuccessStep DEF Fresh
<1> QED
  BY <1>1, FreshInvariance, PTL DEF Spec, SuccessIsThePlan

\* For any number of plans and packages: until the daemon first dies or a step
\* fails, project files that the swap of an attempt has moved belong to a worker
\* that is still at it, under a marker a restart would roll back.
THEOREM HalfwayAmongMany == Spec => [](Fresh => HalfwayIsMarked)
<1>1. ASSUME IInv, FreshInv, Fresh, ~Whole
      PROVE  \E o \in Ops : att[o].mark \in Destructive /\ Unfinished(o)
  <2>1. PICK o \in Ops : w[o].pc \in Writing
    BY <1>1 DEF FreshInv, WholeInv
  <2>2. att[o].mark \in Destructive /\ state[o] \in {"running", "cancelling"}
    BY <1>1, <2>1, WriterFacts
  <2> QED
    BY <2>2 DEF Unfinished, Terminal
<1>2. IInv /\ FreshInv => (Fresh => HalfwayIsMarked)
  BY <1>1 DEF HalfwayIsMarked
<1> QED
  BY <1>2, FreshInvariance, PTL

\* For any number of plans: until then the worker M4PackageApplication spawns
\* goes away before its row has settled only if another success, a refresh or a
\* favorite moved the projects row under its plan.
THEOREM AbandonmentAmongMany == Spec => [](Fresh => AbandonedForAReason)
<1>1. ASSUME IInv, FreshInv, Fresh, NEW o \in Ops, Abandoned(o)
      PROVE  project.rev # plan[o].rev
  <2>1. StageInv(o) /\ OpInv(o) /\ project \in Row
    BY <1>1, FreshFacts DEF IInv, TypeOK
  <2>2. plan[o] # None /\ plan[o].rev < project.rev
    BY <1>1, <2>1 DEF Abandoned, Unfinished, At, StageInv, OpInv
  <2>3. plan[o].rev \in Nat /\ project.rev \in Nat
    BY <1>1, <2>1, <2>2 DEF IInv, TypeOK, Plan, Row
  <2> QED
    BY <2>2, <2>3
<1>2. IInv /\ FreshInv => (Fresh => AbandonedForAReason)
  BY <1>1 DEF AbandonedForAReason
<1> QED
  BY <1>2, FreshInvariance, PTL

-----------------------------------------------------------------------------
(* The locks of the coordinator *)

\* References and guards are for keys of the request, and none survives it.
LockRefInv ==
    /\ \A t \in Tasks, k \in Keys : ref[t][k] # Nil => k \in want[t]
    /\ \A t \in Tasks : held[t] \subseteq want[t]
    /\ \A t \in Tasks : stage[t] \in {"idle", "resolving"} => held[t] = {}
    /\ \A t \in Tasks : stage[t] = "idle" => want[t] = {}
    /\ \A t \in Tasks : stage[t] \notin {"idle", "resolving"} =>
          \A k \in want[t] : ref[t][k] # Nil

\* The map names the referenced lock of a key, and no lock for two keys.
LockMapInv ==
    /\ OneLockPerKey
    /\ \A j, k \in Keys : entries[j] = entries[k] /\ entries[j] # Nil => j = k

\* A guard is a grant of the lock the task refers to.
LockGuardInv ==
    \A t \in Tasks : \A k \in held[t] : ref[t][k] # Nil /\ holder[ref[t][k]] = t

LockIInv == LocksTypeOK /\ LockRefInv /\ LockMapInv /\ LockGuardInv /\ NoLostWakeup

-----------------------------------------------------------------------------
LEMMA LockInitInv == LocksInit => LockIInv
BY ResourceLocksAssumption DEF LocksInit, LockIInv, LocksTypeOK, Stages, LockRefInv, LockMapInv,
   OneLockPerKey, LockGuardInv, NoLostWakeup

LEMMA LockStutterInv == LockIInv /\ UNCHANGED locksVars => LockIInv'
BY DEF LockIInv, LocksTypeOK, LockRefInv, LockMapInv, OneLockPerKey, LockGuardInv,
   NoLostWakeup, locksVars

\* A waiter leaves the queue, and the others keep their order.
LEMMA LockWithoutType ==
    ASSUME NEW q \in Seq(Tasks), NEW i \in DOMAIN q
    PROVE  Without(q, i) \in Seq(Tasks)
BY DEF Without

\* A release keeps the lock tables well typed, touches one lock, and leaves no
\* lock with waiters and without a holder.
LEMMA LockHandOverFacts ==
    ASSUME LockIInv, NEW l \in Locks, HandOver(l)
    PROVE  /\ holder' \in [Locks -> Tasks \cup {Nil}]
           /\ queue' \in [Locks -> Seq(Tasks)]
           /\ \A m \in Locks : m # l => holder'[m] = holder[m]
           /\ NoLostWakeup'
<1>1. CASE queue[l] = <<>>
  BY <1>1 DEF HandOver, LockIInv, LocksTypeOK, NoLostWakeup
<1>2. CASE queue[l] # <<>>
  <2>1. Head(queue[l]) \in Tasks /\ Tail(queue[l]) \in Seq(Tasks)
    BY <1>2 DEF LockIInv, LocksTypeOK
  <2> QED
    <3>1. /\ holder' = [holder EXCEPT ![l] = Head(queue[l])]
          /\ queue' = [queue EXCEPT ![l] = Tail(queue[l])]
      BY <1>2 DEF HandOver
    <3>2. /\ holder \in [Locks -> Tasks \cup {Nil}] /\ queue \in [Locks -> Seq(Tasks)]
          /\ Head(queue[l]) # Nil
      BY <2>1, ResourceLocksAssumption DEF LockIInv, LocksTypeOK
    <3>3. /\ holder'[l] # Nil
          /\ \A m \in Locks \ {l} : holder'[m] = holder[m] /\ queue'[m] = queue[m]
      BY <3>1, <3>2
    <3> QED
      BY <2>1, <3>1, <3>2, <3>3 DEF LockIInv, NoLostWakeup
<1> QED
  BY <1>1, <1>2

\* Dropping references keeps the shape of what is left.
LEMMA LockKeepFacts ==
    ASSUME LockIInv, NEW t \in Tasks, stage[t] \notin {"idle", "resolving"},
           NEW S, S \subseteq held[t], Keep(t, S), held' = [held EXCEPT ![t] = S],
           entries' = entries
    PROVE  /\ stage' \in [Tasks -> Stages]
           /\ want' \in [Tasks -> SUBSET Keys]
           /\ ref' \in [Tasks -> [Keys -> Locks \cup {Nil}]]
           /\ held' \in [Tasks -> SUBSET Keys]
           /\ LockRefInv' /\ LockMapInv'
<1>1. /\ stage' \in [Tasks -> Stages]
      /\ want' \in [Tasks -> SUBSET Keys]
      /\ ref' \in [Tasks -> [Keys -> Locks \cup {Nil}]]
      /\ held' \in [Tasks -> SUBSET Keys]
  BY DEF LockIInv, LocksTypeOK, Keep, Stages
<1>2. /\ \A u \in Tasks, k \in Keys : ref'[u][k] # Nil => ref'[u][k] = ref[u][k]
      /\ \A u \in Tasks \ {t} : /\ ref'[u] = ref[u] /\ want'[u] = want[u]
                               /\ stage'[u] = stage[u] /\ held'[u] = held[u]
      /\ \A k \in Keys : ref'[t][k] = IF k \in S THEN ref[t][k] ELSE Nil
  BY DEF LockIInv, LocksTypeOK, Keep
<1>3. /\ want'[t] = S /\ held'[t] = S
      /\ stage'[t] = IF S = {} THEN "idle" ELSE "dropping"
  BY DEF LockIInv, LocksTypeOK, Keep
<1>4. LockRefInv'
  <2>1. ASSUME NEW u \in Tasks
        PROVE  /\ \A k \in Keys : ref'[u][k] # Nil => k \in want'[u]
               /\ held'[u] \subseteq want'[u]
               /\ stage'[u] \in {"idle", "resolving"} => held'[u] = {}
               /\ stage'[u] = "idle" => want'[u] = {}
               /\ stage'[u] \notin {"idle", "resolving"} =>
                     \A k \in want'[u] : ref'[u][k] # Nil
    <3>1. CASE u = t
      BY <3>1, <1>2, <1>3 DEF LockIInv, LockRefInv, LocksTypeOK
    <3>2. CASE u # t
      BY <3>2, <1>2 DEF LockIInv, LockRefInv, LocksTypeOK
    <3> QED
      BY <3>1, <3>2
  <2> QED
    BY <2>1 DEF LockRefInv
<1>5. LockMapInv'
  BY <1>2 DEF LockIInv, LockMapInv, OneLockPerKey
<1> QED
  BY <1>1, <1>4, <1>5

LEMMA LockEnterInv ==
    ASSUME LockIInv, NEW t \in Tasks, NEW ks \in SUBSET Keys, Enter(t, ks)
    PROVE  LockIInv'
<1>1. LocksTypeOK'
  BY DEF LockIInv, LocksTypeOK, Enter, Stages
<1>2. LockRefInv'
  BY DEF LockIInv, LocksTypeOK, LockRefInv, Enter
<1>3. LockMapInv' /\ LockGuardInv' /\ NoLostWakeup'
  BY DEF LockIInv, LockMapInv, OneLockPerKey, LockGuardInv, NoLostWakeup, Enter
<1> QED
  BY <1>1, <1>2, <1>3 DEF LockIInv

LEMMA LockResolveInv ==
    ASSUME LockIInv, NEW t \in Tasks, NEW k \in Keys, Resolve(t, k)
    PROVE  LockIInv'
<1>1. PICK l \in Locks :
         /\ IF Upgrades(k) THEN l = entries[k] ELSE FreshLock(l)
         /\ ref' = [ref EXCEPT ![t][k] = l]
         /\ entries' = [entries EXCEPT ![k] = l]
  BY DEF Resolve
<1>2. k \in want[t] /\ ref[t][k] = Nil /\ stage[t] = "resolving" /\ held[t] = {}
  BY DEF LockIInv, LockRefInv, Resolve, Least, Unresolved
<1>3. /\ \A u \in Tasks, j \in Keys :
            ref'[u][j] = IF u = t /\ j = k THEN l ELSE ref[u][j]
      /\ \A j \in Keys : entries'[j] = IF j = k THEN l ELSE entries[j]
  BY <1>1 DEF LockIInv, LocksTypeOK
<1>4. LocksTypeOK'
  BY <1>1 DEF LockIInv, LocksTypeOK, Resolve
<1>5. LockRefInv'
  BY <1>2, <1>3 DEF LockIInv, LocksTypeOK, LockRefInv, Resolve
<1>6. OneLockPerKey'
  <2>1. ASSUME NEW u \in Tasks, ref[u][k] # Nil
        PROVE  ref[u][k] = l
    <3>1. entries[k] = ref[u][k]
      BY <2>1 DEF LockIInv, LockMapInv, OneLockPerKey
    <3> QED
      BY <1>1, <2>1, <3>1 DEF Upgrades, Referenced
  <2> QED
    BY <1>3, <2>1 DEF LockIInv, LockMapInv, OneLockPerKey
<1>7. \A j \in Keys : j # k => entries[j] # l
  BY <1>1, ResourceLocksAssumption DEF LockIInv, LockMapInv, Upgrades, FreshLock
<1>8. LockMapInv'
  BY <1>3, <1>6, <1>7 DEF LockIInv, LockMapInv
<1>9. LockGuardInv' /\ NoLostWakeup'
  BY <1>2, <1>3 DEF LockIInv, LocksTypeOK, LockGuardInv, NoLostWakeup, Resolve
<1> QED
  BY <1>4, <1>5, <1>8, <1>9 DEF LockIInv

LEMMA LockLeaveInv ==
    ASSUME LockIInv, NEW t \in Tasks, Leave(t)
    PROVE  LockIInv'
<1>1. LocksTypeOK' /\ LockMapInv' /\ LockGuardInv' /\ NoLostWakeup'
  BY DEF LockIInv, LocksTypeOK, Stages, LockMapInv, OneLockPerKey, LockGuardInv, NoLostWakeup,
     Leave
<1>2. LockRefInv'
  BY DEF LockIInv, LocksTypeOK, LockRefInv, Leave, Unresolved
<1> QED
  BY <1>1, <1>2 DEF LockIInv

\* A task that gets a lock nobody else holds keeps every invariant.
LEMMA LockGotInv ==
    ASSUME LockIInv, NEW t \in Tasks, NEW k \in Keys, NEW l \in Locks,
           stage[t] \in {"locking", "parked"}, k \in want[t] \ held[t], l = ref[t][k],
           holder[l] \in {Nil, t}, holder' = [holder EXCEPT ![l] = t],
           Got(t, k), UNCHANGED <<entries, want, ref, queue>>
    PROVE  LockIInv'
<1>1. LocksTypeOK'
  BY DEF LockIInv, LocksTypeOK, Stages, Got
<1>2. LockRefInv' /\ LockMapInv'
  BY DEF LockIInv, LocksTypeOK, LockRefInv, LockMapInv, OneLockPerKey, Got
<1>3. LockGuardInv'
  <2>1. \A u \in Tasks : held'[u] = IF u = t THEN held[u] \cup {k} ELSE held[u]
    BY DEF LockIInv, LocksTypeOK, Got
  <2>2. \A m \in Locks : holder'[m] = IF m = l THEN t ELSE holder[m]
    BY DEF LockIInv, LocksTypeOK
  <2>3. \A u \in Tasks : \A j \in held[u] : ref[u][j] \in Locks
    BY DEF LockIInv, LocksTypeOK, LockGuardInv
  <2>4. \A u \in Tasks : \A j \in held[u] : ref[u][j] = l => u = t
    BY <2>3, ResourceLocksAssumption DEF LockIInv, LockGuardInv
  <2>5. ASSUME NEW u \in Tasks, NEW j \in held'[u]
        PROVE  ref[u][j] # Nil /\ holder'[ref[u][j]] = u
    <3>1. CASE u = t /\ j = k
      BY <3>1, <2>2, ResourceLocksAssumption
    <3>2. CASE j \in held[u] /\ ref[u][j] = l
      BY <3>2, <2>2, <2>4, ResourceLocksAssumption
    <3>3. CASE j \in held[u] /\ ref[u][j] # l
      BY <3>3, <2>2, <2>3 DEF LockIInv, LockGuardInv
    <3> QED
      BY <2>1, <3>1, <3>2, <3>3
  <2> QED
    BY <2>5 DEF LockGuardInv
<1>4. NoLostWakeup'
  BY ResourceLocksAssumption DEF LockIInv, LocksTypeOK, NoLostWakeup
<1> QED
  BY <1>1, <1>2, <1>3, <1>4 DEF LockIInv

LEMMA LockNextInv ==
    ASSUME LockIInv, NEW t \in Tasks, NEW k \in Keys, LockNext(t, k)
    PROVE  LockIInv'
<1> DEFINE l == ref[t][k]
<1>1. k \in want[t] \ held[t] /\ stage[t] = "locking" /\ l \in Locks
  <2>1. k \in want[t] \ held[t] /\ stage[t] = "locking"
    BY DEF LockNext, Least
  <2>2. ref[t][k] # Nil
    BY <2>1 DEF LockIInv, LockRefInv
  <2> QED
    BY <2>1, <2>2 DEF LockIInv, LocksTypeOK
<1>2. CASE holder[l] = Nil
  <2>1. holder' = [holder EXCEPT ![l] = t] /\ Got(t, k) /\ UNCHANGED <<entries, want, ref, queue>>
    BY <1>2 DEF LockNext
  <2> HIDE DEF l
  <2> QED
    BY <1>1, <1>2, <2>1, LockGotInv DEF l
<1>3. CASE holder[l] # Nil
  <2>1. /\ queue' = [queue EXCEPT ![l] = Append(@, t)]
        /\ stage' = [stage EXCEPT ![t] = "parked"]
        /\ UNCHANGED <<held, holder, entries, want, ref>>
    BY <1>3 DEF LockNext
  <2>2. LocksTypeOK'
    BY <1>1, <2>1 DEF LockIInv, LocksTypeOK, Stages
  <2>3. NoLostWakeup'
    BY <1>1, <1>3, <2>1 DEF LockIInv, LocksTypeOK, NoLostWakeup
  <2>4. LockRefInv' /\ LockMapInv' /\ LockGuardInv'
    BY <1>1, <2>1 DEF LockIInv, LocksTypeOK, LockRefInv, LockMapInv, OneLockPerKey, LockGuardInv
  <2> QED
    BY <2>2, <2>3, <2>4 DEF LockIInv
<1> QED
  BY <1>2, <1>3

LEMMA LockWakeInv ==
    ASSUME LockIInv, NEW t \in Tasks, NEW k \in Keys, Wake(t, k)
    PROVE  LockIInv'
<1>1. /\ k \in want[t] \ held[t] /\ stage[t] = "parked" /\ ref[t][k] \in Locks
      /\ holder[ref[t][k]] = t
  <2>1. k \in want[t] \ held[t] /\ stage[t] = "parked" /\ holder[ref[t][k]] = t
    BY DEF Wake, Least
  <2>2. ref[t][k] # Nil
    BY <2>1 DEF LockIInv, LockRefInv
  <2> QED
    BY <2>1, <2>2 DEF LockIInv, LocksTypeOK
<1>2. holder' = [holder EXCEPT ![ref[t][k]] = t]
  BY <1>1 DEF LockIInv, LocksTypeOK, Wake
<1> QED
  BY <1>1, <1>2, LockGotInv DEF Wake

\* Passing on a lock t was granted, for a key t no longer has the guard of.
LEMMA LockDropInv ==
    ASSUME LockIInv, NEW t \in Tasks, NEW k \in want[t],
           stage[t] \notin {"idle", "resolving"}, holder[ref[t][k]] = t, HandOver(ref[t][k]),
           NEW S, S = held[t] \ {k}, Keep(t, S),
           held' = [held EXCEPT ![t] = S], entries' = entries
    PROVE  LockIInv'
<1>1. k \in Keys /\ ref[t][k] \in Locks /\ S \subseteq held[t]
  BY DEF LockIInv, LocksTypeOK, LockRefInv
<1>2. /\ holder' \in [Locks -> Tasks \cup {Nil}]
      /\ queue' \in [Locks -> Seq(Tasks)]
      /\ \A m \in Locks : m # ref[t][k] => holder'[m] = holder[m]
      /\ NoLostWakeup'
  BY <1>1, LockHandOverFacts
<1>3. /\ stage' \in [Tasks -> Stages]
      /\ want' \in [Tasks -> SUBSET Keys]
      /\ ref' \in [Tasks -> [Keys -> Locks \cup {Nil}]]
      /\ held' \in [Tasks -> SUBSET Keys]
      /\ LockRefInv' /\ LockMapInv'
  BY <1>1, LockKeepFacts
<1>4. LocksTypeOK'
  BY <1>2, <1>3 DEF LockIInv, LocksTypeOK
<1>5. \A u \in Tasks : \A j \in held'[u] :
         j \in held[u] /\ j \in Keys /\ ref'[u][j] = ref[u][j] /\ (u = t => j # k)
  BY <1>1 DEF LockIInv, LocksTypeOK, Keep
<1>6. \A u \in Tasks : \A j \in held'[u] : ref[u][j] # ref[t][k]
  <2> SUFFICES ASSUME NEW u \in Tasks, NEW j \in held'[u], ref[u][j] = ref[t][k]
               PROVE  FALSE
    OBVIOUS
  <2>1. u = t
    BY <1>5 DEF LockIInv, LockGuardInv
  <2>2. entries[j] = entries[k] /\ entries[j] # Nil
    BY <1>1, <1>5, <2>1, ResourceLocksAssumption DEF LockIInv, LockMapInv, OneLockPerKey
  <2> QED
    BY <1>1, <1>5, <2>1, <2>2 DEF LockIInv, LockMapInv
<1>7. LockGuardInv'
  <2>1. \A u \in Tasks : \A j \in held'[u] : ref[u][j] \in Locks
    BY <1>5 DEF LockIInv, LocksTypeOK, LockGuardInv
  <2> QED
    BY <1>2, <1>5, <1>6, <2>1 DEF LockIInv, LockGuardInv
<1> QED
  BY <1>2, <1>3, <1>4, <1>7 DEF LockIInv

LEMMA LockReleaseInv ==
    ASSUME LockIInv, NEW t \in Tasks, NEW k \in Keys, Release(t, k)
    PROVE  LockIInv'
<1>1. /\ k \in want[t] /\ stage[t] \notin {"idle", "resolving"} /\ holder[ref[t][k]] = t
  BY DEF LockIInv, LockRefInv, LockGuardInv, Release, Least
<1> QED
  BY <1>1, LockDropInv DEF Release

LEMMA LockAbortInv ==
    ASSUME LockIInv, NEW t \in Tasks, Abort(t)
    PROVE  LockIInv'
<1>1. /\ stage[t] \notin {"idle", "resolving"} /\ Keep(t, held[t])
      /\ held' = held /\ entries' = entries
  BY DEF Abort
<1>2. held' = [held EXCEPT ![t] = held[t]]
  BY <1>1 DEF LockIInv, LocksTypeOK
<1>3. CASE \E k \in want[t] \ held[t] : holder[ref[t][k]] = t /\ HandOver(ref[t][k])
  <2>1. PICK k \in want[t] \ held[t] : holder[ref[t][k]] = t /\ HandOver(ref[t][k])
    BY <1>3
  <2>2. held[t] = held[t] \ {k}
    BY <2>1
  <2> QED
    BY <1>1, <1>2, <2>1, <2>2, LockDropInv
<1>4. CASE /\ holder' = holder
           /\ \/ queue' = queue
              \/ \E l \in Locks : \E i \in DOMAIN queue[l] :
                    queue' = [queue EXCEPT ![l] = Without(@, i)]
  <2>1. /\ stage' \in [Tasks -> Stages]
        /\ want' \in [Tasks -> SUBSET Keys]
        /\ ref' \in [Tasks -> [Keys -> Locks \cup {Nil}]]
        /\ held' \in [Tasks -> SUBSET Keys]
        /\ LockRefInv' /\ LockMapInv'
    BY <1>1, <1>2, LockKeepFacts
  <2>2. queue' \in [Locks -> Seq(Tasks)]
    <3>1. CASE queue' = queue
      BY <3>1 DEF LockIInv, LocksTypeOK
    <3>2. ASSUME NEW l \in Locks, NEW i \in DOMAIN queue[l],
                 queue' = [queue EXCEPT ![l] = Without(@, i)]
          PROVE  queue' \in [Locks -> Seq(Tasks)]
      BY <3>2, LockWithoutType DEF LockIInv, LocksTypeOK
    <3> QED
      BY <1>4, <3>1, <3>2
  <2>3. NoLostWakeup'
    <3>1. CASE queue' = queue
      BY <1>4, <3>1 DEF LockIInv, NoLostWakeup
    <3>2. ASSUME NEW l \in Locks, NEW i \in DOMAIN queue[l],
                 queue' = [queue EXCEPT ![l] = Without(@, i)]
          PROVE  NoLostWakeup'
      <4>1. queue[l] # <<>>
        BY <3>2
      <4> QED
        BY <1>4, <3>2, <4>1 DEF LockIInv, LocksTypeOK, NoLostWakeup
    <3> QED
      BY <1>4, <3>1, <3>2
  <2>4. LockGuardInv'
    BY <1>1, <1>4 DEF LockIInv, LocksTypeOK, LockGuardInv, Keep
  <2> QED
    <3>1. /\ entries' \in [Keys -> Locks \cup {Nil}]
          /\ holder' \in [Locks -> Tasks \cup {Nil}]
      BY <1>1, <1>4 DEF LockIInv, LocksTypeOK
    <3>2. LocksTypeOK'
      BY <3>1, <2>1, <2>2 DEF LocksTypeOK
    <3> QED
      BY <3>2, <2>1, <2>3, <2>4 DEF LockIInv
<1>5. \A k \in want[t] \ held[t] : ref[t][k] \in Locks
  BY <1>1 DEF LockIInv, LocksTypeOK, LockRefInv
<1> QED
  BY <1>3, <1>4, <1>5 DEF Abort

-----------------------------------------------------------------------------
LEMMA LockStepInv == LockIInv /\ [LocksNext]_locksVars => LockIInv'
<1> SUFFICES ASSUME LockIInv, [LocksNext]_locksVars PROVE LockIInv'
  OBVIOUS
<1>1. CASE LocksNext
  BY <1>1, LockEnterInv, LockLeaveInv, LockResolveInv, LockNextInv, LockWakeInv,
     LockReleaseInv, LockAbortInv DEF LocksNext, Step
<1>2. CASE UNCHANGED locksVars
  BY <1>2, LockStutterInv
<1> QED
  BY <1>1, <1>2

\* The inductive invariant of the coordinator, for any tasks, keys and cells.
THEOREM LockInvariance == LocksSpec => []LockIInv
BY LockInitInv, LockStepInv, PTL DEF LocksSpec

\* The tables of the coordinator and of its mutexes stay well typed.
THEOREM LockTypeCorrect == LocksSpec => []LocksTypeOK
<1>1. LockIInv => LocksTypeOK
  BY DEF LockIInv
<1> QED
  BY <1>1, LockInvariance, PTL

\* While a task refers to the lock of a key, a new request upgrades that very
\* lock: the Weak map never lets a key have two live locks.
THEOREM LockIsSingle == LocksSpec => []OneLockPerKey
<1>1. LockIInv => OneLockPerKey
  BY DEF LockIInv, LockMapInv
<1> QED
  BY <1>1, LockInvariance, PTL

\* acquire excludes: two tasks never have the guard of the same ResourceKey.
THEOREM LockExclusion == LocksSpec => []MutualExclusion
<1>1. LockIInv => MutualExclusion
  <2> SUFFICES ASSUME LockIInv, NEW t \in Tasks, NEW u \in Tasks, NEW k \in held[t] \cap held[u]
               PROVE  t = u
    BY DEF MutualExclusion
  <2>1. k \in Keys
    BY DEF LockIInv, LocksTypeOK
  <2>2. ref[t][k] = ref[u][k]
    BY <2>1 DEF LockIInv, LockGuardInv, LockMapInv, OneLockPerKey
  <2> QED
    BY <2>2 DEF LockIInv, LockGuardInv
<1> QED
  BY <1>1, LockInvariance, PTL

\* Releases and aborts never leave a waiter parked on a lock nobody has.
THEOREM LockWakeUps == LocksSpec => []NoLostWakeup
<1>1. LockIInv => NoLostWakeup
  BY DEF LockIInv
<1> QED
  BY <1>1, LockInvariance, PTL
=============================================================================
