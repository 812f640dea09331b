-------------------------- MODULE ProjectDeleteProofs --------------------------
(***************************************************************************)
(* Theorems about ProjectDelete for every set of deletions and any number  *)
(* of deaths, failing steps, touches of the row and changes of the path.   *)
(*                                                                         *)
(* The inductive invariant IInv ties the place of a worker to the newest   *)
(* phase in the journal of its Operation: Early places have a journal      *)
(* before the intent, Late places one after it, and only where the journal *)
(* or the phase that was loaded says so is the registry commit taken for   *)
(* granted.  What the files of one deletion can be follows from that, and  *)
(* no step of another deletion disturbs it.                                *)
(***************************************************************************)
EXTENDS ProjectDelete, TLAPS

\* Places of a worker before and after the intent is journalled.
Early == {"make", "own", "preflighted", "look1", "check", "look2", "intent",
          "dropOwner", "dropWrapper", "cancelled", "backOut", "backOutWrapper"}
Late  == {"rename", "moved", "quarantined", "validate", "commitIntent", "commit",
          "deleting", "remove", "removing", "disown", "unwrap", "cleaned"}

\* Phases that are only reached with the registry commit, and places behind it.
Committed  == {"state_committed", "deleting", "cleanup_complete"}
PastCommit == {"deleting", "remove", "removing", "disown", "unwrap", "cleaned"}

\* The row of a deletion that a worker is at work on.
RowInv(o) ==
    /\ pc[o] \in Early \cup Late \cup {"lock", "finish"} =>
          row[o].state \in {"running", "cancelling"}
    /\ pc[o] = "lock" => seen[o] = row[o].phase
    /\ pc[o] \in Early => row[o].phase \in {"accepted", "preflight_complete"}
    /\ pc[o] \in Late => row[o].phase \in AfterIntent \ {"cleanup_complete"}
    /\ row[o].state \in {"absent", "queued"} => row[o].phase = "accepted"
    /\ row[o].state = "succeeded" => row[o].phase = "cleanup_complete"
    /\ row[o].state \in {"failed", "cancelled"} => row[o].phase \notin AfterIntent

CommitInv(o) ==
    pc[o] \in PastCommit \/ row[o].phase \in Committed \/ seen[o] \in Committed =>
        deletedEvent

FileInv(o) ==
    /\ row[o].state \in {"absent", "queued", "cancelled"} \/ pc[o] \in {"cancelled", "cleaned"}
          => wrapper[o] = "none"
    /\ payload[o] # "none" =>
          /\ row[o].phase \in AfterIntent
          /\ row[o].state \in {"running", "cancelling", "recovering"}
    /\ pc[o] \in {"disown", "unwrap", "cleaned"} => payload[o] = "none"
    /\ pc[o] \in {"removing", "disown", "unwrap", "cleaned"} => "project" \in destroyed
    /\ row[o].phase = "cleanup_complete" =>
          payload[o] = "none" /\ wrapper[o] = "none" /\ "project" \in destroyed

OpInv(o) == RowInv(o) /\ CommitInv(o) /\ FileInv(o)

RegistryInv ==
    /\ deletedEvent => project = 0
    /\ "project" \in destroyed => deletedEvent
    /\ "other" \notin destroyed

IInv == TypeOK /\ RegistryInv /\ \A o \in Ops : OpInv(o)

\* What a step of o's worker leaves to the others, and never takes back.
OnlyItsOwn(o) ==
    /\ \A a \in Ops \ {o} : /\ row'[a] = row[a] /\ pc'[a] = pc[a] /\ seen'[a] = seen[a]
                            /\ wrapper'[a] = wrapper[a] /\ payload'[a] = payload[a]
    /\ deletedEvent => deletedEvent'
    /\ destroyed \subseteq destroyed'

-----------------------------------------------------------------------------
(* Helpers *)

LEMMA OwnStep ==
    ASSUME IInv, NEW o \in Ops, TypeOK', OpInv(o)', RegistryInv', OnlyItsOwn(o)
    PROVE  IInv'
<1>1. ASSUME NEW a \in Ops \ {o} PROVE OpInv(a)'
  BY <1>1 DEF IInv, OpInv, RowInv, CommitInv, FileInv, OnlyItsOwn
<1> QED
  BY <1>1 DEF IInv

\* The worker goes on and changes nothing else.
LEMMA MovesOn ==
    ASSUME IInv, NEW o \in Ops, NEW here \in Early \cup Late, NEW onward \in PCs,
           pc[o] = here, Goto(o, onward), UNCHANGED <<store, files, daemon, seen, lock, bounds>>,
           \/ onward = "fail"
           \/ here \in Early /\ onward \in Early /\ onward # "cancelled"
           \/ here \in Late /\ onward \in Late \ PastCommit
           \/ here \in Late /\ onward = "deleting" /\ seen[o] \in Committed
    PROVE  IInv'
<1> USE DEF store, files, bounds
<1>1. pc' = [pc EXCEPT ![o] = onward]
  BY DEF Goto
<1>2. TypeOK'
  BY <1>1 DEF IInv, TypeOK
<1>3. pc'[o] = onward /\ \A a \in Ops \ {o} : pc'[a] = pc[a]
  BY <1>1 DEF IInv, TypeOK
<1>4. OpInv(o)'
  BY <1>3 DEF IInv, OpInv, RowInv, CommitInv, FileInv, Early, Late, PastCommit
<1>5. RegistryInv' /\ OnlyItsOwn(o)
  BY <1>3 DEF IInv, RegistryInv, OnlyItsOwn
<1> QED
  BY <1>2, <1>4, <1>5, OwnStep

-----------------------------------------------------------------------------
LEMMA InitInv == Init => IInv
<1>1. SUFFICES ASSUME Init PROVE IInv
  OBVIOUS
<1>2. TypeOK
  BY <1>1 DEF Init, TypeOK, States, Phases, PCs
<1>3. \A o \in Ops : OpInv(o)
  BY <1>1 DEF Init, OpInv, RowInv, CommitInv, FileInv, Early, Late, PastCommit, Committed,
              AfterIntent
<1>4. RegistryInv
  BY <1>1 DEF Init, RegistryInv
<1> QED
  BY <1>2, <1>3, <1>4 DEF IInv

LEMMA StutterInv == IInv /\ UNCHANGED vars => IInv'
BY DEF IInv, TypeOK, RegistryInv, OpInv, RowInv, CommitInv, FileInv, vars, store, files, bounds

-----------------------------------------------------------------------------
(* Requests, other programs and the daemon process *)

LEMMA PlanInv == ASSUME IInv, NEW o \in Ops, Plan(o) PROVE IInv'
<1>1. TypeOK'
  BY DEF IInv, TypeOK, Plan, files, bounds
<1>2. RegistryInv' /\ \A a \in Ops : OpInv(a)'
  BY DEF IInv, RegistryInv, OpInv, RowInv, CommitInv, FileInv, Plan, files, bounds
<1> QED
  BY <1>1, <1>2 DEF IInv

LEMMA ApplyInv == ASSUME IInv, NEW o \in Ops, Apply(o) PROVE IInv'
<1> USE DEF files, bounds
<1>1. TypeOK'
  BY DEF IInv, TypeOK, Apply, SetState, Goto, States, PCs
<1>2. OpInv(o)'
  BY DEF IInv, TypeOK, OpInv, RowInv, CommitInv, FileInv, Apply, SetState, Goto, Early, Late,
         PastCommit, Committed, AfterIntent
<1>3. RegistryInv' /\ OnlyItsOwn(o)
  BY DEF IInv, TypeOK, RegistryInv, OnlyItsOwn, Apply, SetState, Goto
<1> QED
  BY <1>1, <1>2, <1>3, OwnStep

LEMMA CancelInv == ASSUME IInv, NEW o \in Ops, Cancel(o) PROVE IInv'
<1> USE DEF files, bounds
<1> DEFINE s == IF row[o].state = "queued" THEN "cancelled" ELSE "cancelling"
           r == [state |-> s, phase |-> row[o].phase, cancel |-> TRUE]
<1>a. r \in [state : States, phase : Phases, cancel : BOOLEAN]
  BY DEF IInv, TypeOK, States, Terminal
<1>b. row' = [row EXCEPT ![o] = r]
  BY DEF Cancel
<1>1. TypeOK'
  <2> HIDE DEF r
  <2> QED
    BY <1>a, <1>b DEF IInv, TypeOK, Cancel
<1>2. row'[o].phase = row[o].phase /\ row[o].phase \notin AfterIntent
  BY DEF IInv, TypeOK, Cancel, PastIntent
<1>3. row'[o].state = IF row[o].state = "queued" THEN "cancelled" ELSE "cancelling"
  BY DEF IInv, TypeOK, Cancel
<1>4. row[o].state = "queued" => pc[o] \notin Early \cup Late \cup {"lock", "finish"}
  BY DEF IInv, OpInv, RowInv
<1>5. OpInv(o)'
  BY <1>2, <1>3, <1>4 DEF IInv, OpInv, RowInv, CommitInv, FileInv, Cancel, AfterIntent
<1>6. RegistryInv' /\ OnlyItsOwn(o)
  BY DEF IInv, TypeOK, RegistryInv, OnlyItsOwn, Cancel
<1> QED
  BY <1>1, <1>5, <1>6, OwnStep

LEMMA TouchInv == ASSUME IInv, Touch PROVE IInv'
<1>1. TypeOK'
  BY DEF IInv, TypeOK, Touch, files
<1>2. RegistryInv' /\ \A a \in Ops : OpInv(a)'
  BY DEF IInv, RegistryInv, OpInv, RowInv, CommitInv, FileInv, Touch, files
<1> QED
  BY <1>1, <1>2 DEF IInv

LEMMA OutsideInv == ASSUME IInv, Outside PROVE IInv'
<1>1. TypeOK'
  BY DEF IInv, TypeOK, Outside, store
<1>2. \A a \in Ops : payload'[a] \in {payload[a], "none"}
  BY DEF IInv, TypeOK, Outside
<1>3. RegistryInv' /\ \A a \in Ops : OpInv(a)'
  BY <1>2 DEF IInv, RegistryInv, OpInv, RowInv, CommitInv, FileInv, Outside, store
<1> QED
  BY <1>1, <1>3 DEF IInv

LEMMA CrashInv == ASSUME IInv, Crash PROVE IInv'
<1> USE DEF store, files
<1>1. TypeOK'
  BY DEF IInv, TypeOK, Crash, PCs, Phases
<1>2. \A a \in Ops : pc'[a] = "idle" /\ seen'[a] = "accepted"
  BY DEF Crash
<1>3. RegistryInv' /\ \A a \in Ops : OpInv(a)'
  BY <1>2 DEF IInv, RegistryInv, OpInv, RowInv, CommitInv, FileInv, Crash, Early, Late,
              PastCommit, Committed
<1> QED
  BY <1>1, <1>3 DEF IInv

LEMMA StartInv == ASSUME IInv, Start PROVE IInv'
<1> USE DEF files, bounds
<1>1. \A a \in Ops : /\ pc'[a] \in {"begin", "idle"}
                     /\ row'[a].phase = row[a].phase
                     /\ row'[a].state = IF row[a].state = "running" THEN "recovering"
                                        ELSE row[a].state
  BY DEF IInv, TypeOK, Start
<1>2. TypeOK'
  BY DEF IInv, TypeOK, Start, States, PCs
<1>3. RegistryInv' /\ \A a \in Ops : OpInv(a)'
  BY <1>1 DEF IInv, RegistryInv, OpInv, RowInv, CommitInv, FileInv, Start, Early, Late, PastCommit
<1> QED
  BY <1>2, <1>3 DEF IInv

-----------------------------------------------------------------------------
(* The worker *)

LEMMA RowStep ==
    ASSUME IInv, NEW o \in Ops, NEW s \in States, NEW p \in Phases,
           row' = [row EXCEPT ![o] = [state |-> s, phase |-> p, cancel |-> row[o].cancel]]
    PROVE  /\ row' \in [Ops -> [state : States, phase : Phases, cancel : BOOLEAN]]
           /\ row'[o].state = s /\ row'[o].phase = p
           /\ \A a \in Ops \ {o} : row'[a] = row[a]
BY DEF IInv, TypeOK

LEMMA StateStep ==
    ASSUME IInv, NEW o \in Ops, NEW s \in States, SetState(o, s)
    PROVE  /\ row' \in [Ops -> [state : States, phase : Phases, cancel : BOOLEAN]]
           /\ row'[o].state = s /\ row'[o].phase = row[o].phase
           /\ \A a \in Ops \ {o} : row'[a] = row[a]
BY DEF IInv, TypeOK, SetState

LEMMA PhaseStep ==
    ASSUME IInv, NEW o \in Ops, NEW p \in Phases, SetPhase(o, p)
    PROVE  /\ row' \in [Ops -> [state : States, phase : Phases, cancel : BOOLEAN]]
           /\ row'[o].state = row[o].state /\ row'[o].phase = p
           /\ \A a \in Ops \ {o} : row'[a] = row[a]
BY DEF IInv, TypeOK, SetPhase

LEMMA GotoStep ==
    ASSUME IInv, NEW o \in Ops, NEW where \in PCs, Goto(o, where)
    PROVE  /\ pc' \in [Ops -> PCs] /\ pc'[o] = where
           /\ \A a \in Ops \ {o} : pc'[a] = pc[a]
BY DEF IInv, TypeOK, Goto

LEMMA EndTaskStep ==
    ASSUME IInv, NEW o \in Ops, EndTask(o)
    PROVE  /\ pc' \in [Ops -> PCs] /\ pc'[o] = "idle"
           /\ seen' \in [Ops -> Phases] /\ seen'[o] = "accepted"
           /\ lock' \in Ops \cup {None}
           /\ \A a \in Ops \ {o} : pc'[a] = pc[a] /\ seen'[a] = seen[a]
<1>1. "idle" \in PCs /\ "accepted" \in Phases
  BY DEF PCs, Phases
<1> QED
  BY <1>1, GotoStep DEF IInv, TypeOK, EndTask

LEMMA BeginInv == ASSUME IInv, NEW o \in Ops, Begin(o) PROVE IInv'
<1> USE DEF files, bounds
<1>1. CASE row[o].state \in {"queued", "recovering", "running"}
  <2>1. /\ row' \in [Ops -> [state : States, phase : Phases, cancel : BOOLEAN]]
        /\ row'[o].state = "running" /\ row'[o].phase = row[o].phase
        /\ \A a \in Ops \ {o} : row'[a] = row[a]
    BY <1>1, StateStep DEF Begin, States
  <2>2. /\ pc' \in [Ops -> PCs] /\ pc'[o] = "lock"
        /\ \A a \in Ops \ {o} : pc'[a] = pc[a]
    BY <1>1, GotoStep DEF Begin, PCs
  <2>3. /\ seen' \in [Ops -> Phases] /\ seen'[o] = row[o].phase
        /\ \A a \in Ops \ {o} : seen'[a] = seen[a]
    BY <1>1 DEF Begin, IInv, TypeOK
  <2>4. TypeOK'
    BY <2>1, <2>2, <2>3 DEF IInv, TypeOK, Begin
  <2>5. OpInv(o)'
    BY <1>1, <2>1, <2>2, <2>3 DEF IInv, OpInv, RowInv, CommitInv, FileInv, Begin, Early, Late,
                                 PastCommit
  <2>6. RegistryInv' /\ OnlyItsOwn(o)
    BY <2>1, <2>2, <2>3 DEF IInv, RegistryInv, OnlyItsOwn, Begin
  <2> QED
    BY <2>4, <2>5, <2>6, OwnStep
<1>2. CASE row[o].state \notin {"queued", "recovering", "running"}
  <2>1. /\ pc' \in [Ops -> PCs] /\ pc'[o] = "fail"
        /\ \A a \in Ops \ {o} : pc'[a] = pc[a]
    BY <1>2, GotoStep DEF Begin, PCs
  <2>2. TypeOK'
    BY <1>2, <2>1 DEF IInv, TypeOK, Begin
  <2>3. OpInv(o)'
    BY <1>2, <2>1 DEF IInv, OpInv, RowInv, CommitInv, FileInv, Begin, Early, Late, PastCommit
  <2>4. RegistryInv' /\ OnlyItsOwn(o)
    BY <1>2, <2>1 DEF IInv, RegistryInv, OnlyItsOwn, Begin
  <2> QED
    BY <2>2, <2>3, <2>4, OwnStep
<1> QED
  BY <1>1, <1>2

LEMMA AcquireInv == ASSUME IInv, NEW o \in Ops, Acquire(o) PROVE IInv'
<1> USE DEF store, files, bounds
<1>1. seen[o] = row[o].phase /\ row[o].phase \in Phases /\ pc[o] = "lock"
  BY DEF Acquire, At, IInv, TypeOK, OpInv, RowInv
<1>2. /\ Entry(seen[o]) \in {"finish", "make", "look1", "validate"}
      /\ Entry(seen[o]) \in {"make", "look1"} => row[o].phase \in {"accepted", "preflight_complete"}
      /\ Entry(seen[o]) = "validate" => row[o].phase \in AfterIntent \ {"cleanup_complete"}
  BY <1>1 DEF Entry, Phases
<1>3. /\ pc' \in [Ops -> PCs] /\ pc'[o] = Entry(seen[o])
      /\ \A a \in Ops \ {o} : pc'[a] = pc[a]
  BY <1>2, GotoStep DEF Acquire, PCs
<1>4. TypeOK'
  BY <1>3 DEF IInv, TypeOK, Acquire
<1>5. OpInv(o)'
  BY <1>1, <1>2, <1>3 DEF IInv, OpInv, RowInv, CommitInv, FileInv, Acquire, Early, Late, PastCommit
<1>6. RegistryInv' /\ OnlyItsOwn(o)
  BY <1>3 DEF IInv, RegistryInv, OnlyItsOwn, Acquire
<1> QED
  BY <1>4, <1>5, <1>6, OwnStep

\* A checkpoint, given what its phase means for the place it leads to.
LEMMA CheckpointInv ==
    ASSUME IInv, NEW o \in Ops, NEW here \in Early \cup Late, NEW phase \in Phases,
           NEW onward \in PCs, Checkpoint(o, here, phase, onward),
           \/ /\ here \in Early /\ phase = "preflight_complete"
              /\ onward \in Early \ {"cancelled"}
           \/ /\ here \in Early /\ phase = "quarantine_intent"
              /\ onward \in Late \ PastCommit
           \/ /\ here \in Late /\ phase \in AfterIntent \ Committed
              /\ onward \in Late \ PastCommit
           \/ here = "deleting" /\ phase = "deleting" /\ onward = "remove"
           \/ here = "cleaned" /\ phase = "cleanup_complete" /\ onward = "finish"
    PROVE  IInv'
<1> USE DEF files, bounds
<1>1. CASE row[o].state \in {"running", "cancelling"}
  <2>1. /\ row' \in [Ops -> [state : States, phase : Phases, cancel : BOOLEAN]]
        /\ row'[o].state = row[o].state /\ row'[o].phase = phase
        /\ \A a \in Ops \ {o} : row'[a] = row[a]
    BY <1>1, PhaseStep DEF Checkpoint
  <2>2. /\ pc' \in [Ops -> PCs] /\ pc'[o] = onward
        /\ \A a \in Ops \ {o} : pc'[a] = pc[a]
    BY <1>1, GotoStep DEF Checkpoint
  <2>3. TypeOK'
    BY <2>1, <2>2 DEF IInv, TypeOK, Checkpoint
  <2>4. pc[o] = here /\ onward # "lock" /\ OpInv(o)
        /\ UNCHANGED <<planRev, project, deletedEvent, root, wrapper, payload, destroyed, seen>>
    BY DEF Checkpoint, At, IInv, Early, Late
  <2>5. RowInv(o)'
    BY <1>1, <2>1, <2>2, <2>4 DEF OpInv, RowInv, Early, Late, AfterIntent, PastCommit, Committed
  <2>6. CommitInv(o)'
    BY <2>1, <2>2, <2>4 DEF OpInv, CommitInv, Early, Late, AfterIntent, PastCommit, Committed
  <2>7. FileInv(o)'
    BY <1>1, <2>1, <2>2, <2>4 DEF OpInv, RowInv, FileInv, Early, Late, AfterIntent, PastCommit,
                                  Committed
  <2>8. RegistryInv' /\ OnlyItsOwn(o)
    BY <2>1, <2>2, <2>4 DEF IInv, RegistryInv, OnlyItsOwn
  <2> QED
    BY <2>3, <2>5, <2>6, <2>7, <2>8, OwnStep DEF OpInv
<1>2. CASE row[o].state \notin {"running", "cancelling"}
  BY <1>2, MovesOn DEF Checkpoint, At, PCs, store
<1> QED
  BY <1>1, <1>2

\* A step on the files of o's deletion, given what they are after it.
LEMMA FileStepInv ==
    ASSUME IInv, NEW o \in Ops, NEW here \in Early \cup Late, NEW onward \in PCs,
           FileStep(o, here, onward), wrapper' \in [Ops -> {"none", "bare", "owned"}],
           payload' \in [Ops -> {"none", "project", "other"}],
           root' \in {"project", "other", "none"},
           destroyed \subseteq destroyed', destroyed' \subseteq {"project", "other"},
           \A a \in Ops \ {o} : wrapper'[a] = wrapper[a] /\ payload'[a] = payload[a],
           \/ onward = "fail"
           \/ here \in Early /\ onward \in Early
           \/ here \in Late /\ onward \in Late \ PastCommit
           \/ here \in Late /\ onward \in PastCommit /\ deletedEvent,
           onward \in {"cancelled", "cleaned"} => wrapper'[o] = "none",
           here \in Early => payload'[o] = payload[o],
           onward \in {"disown", "unwrap", "cleaned"} => payload'[o] = "none",
           onward \in {"removing", "disown", "unwrap", "cleaned"} => "project" \in destroyed',
           destroyed' # destroyed => destroyed' = destroyed \cup {"project"} /\ deletedEvent
    PROVE  IInv'
<1> USE DEF store, bounds
<1>1. /\ pc' \in [Ops -> PCs] /\ pc'[o] = onward
      /\ \A a \in Ops \ {o} : pc'[a] = pc[a]
  BY GotoStep DEF FileStep
<1>2. TypeOK'
  BY <1>1 DEF IInv, TypeOK, FileStep
<1>3. pc[o] = here /\ OpInv(o) /\ UNCHANGED <<row, planRev, project, deletedEvent, seen>>
  BY DEF FileStep, At, IInv
<1>4. RowInv(o)' /\ CommitInv(o)'
  BY <1>1, <1>3 DEF OpInv, RowInv, CommitInv, Early, Late, PastCommit
<1>5. FileInv(o)'
  BY <1>1, <1>3 DEF OpInv, RowInv, FileInv, Early, Late, PastCommit, AfterIntent
<1>6. RegistryInv' /\ OnlyItsOwn(o)
  BY <1>1, <1>3 DEF IInv, RegistryInv, OnlyItsOwn
<1> QED
  BY <1>2, <1>4, <1>5, <1>6, OwnStep DEF OpInv

LEMMA MakeInv == ASSUME IInv, NEW o \in Ops, Make(o) PROVE IInv'
<1> USE DEF files
<1>1. PICK onward \in {"own", "preflighted", "fail"} : FileStep(o, "make", onward)
  BY DEF Make
<1>2. wrapper' \in [Ops -> {"none", "bare", "owned"}]
      /\ \A a \in Ops \ {o} : wrapper'[a] = wrapper[a]
  BY DEF Make, IInv, TypeOK
<1>3. UNCHANGED <<root, payload, destroyed>>
  BY DEF Make
<1>4. onward \in PCs /\ (onward = "fail" \/ onward \in Early) /\ "make" \in Early
      /\ onward \notin {"cancelled", "removing", "disown", "unwrap", "cleaned"}
  BY DEF Early, PCs
<1> QED
  BY <1>1, <1>2, <1>3, <1>4, FileStepInv DEF IInv, TypeOK

LEMMA OwnInv == ASSUME IInv, NEW o \in Ops, Own(o) PROVE IInv'
<1>1. wrapper' \in [Ops -> {"none", "bare", "owned"}]
      /\ \A a \in Ops \ {o} : wrapper'[a] = wrapper[a]
  BY DEF Own, IInv, TypeOK
<1> QED
  BY <1>1, FileStepInv DEF Own, IInv, TypeOK, Early, PCs

LEMMA RefuseInv == ASSUME IInv, NEW o \in Ops, Refuse(o) PROVE IInv'
BY FileStepInv DEF Refuse, files, IInv, TypeOK, Early, PCs

LEMMA LookInv ==
    ASSUME IInv, NEW o \in Ops, NEW here \in Early, NEW onward \in Early \ {"cancelled"},
           Look(o, here, onward)
    PROVE  IInv'
<1>1. PICK to \in {onward, "dropOwner"} : FileStep(o, here, to)
  BY DEF Look
<1>2. to \in PCs /\ to \in Early /\ here \in Early
      /\ to \notin {"cancelled", "removing", "disown", "unwrap", "cleaned"}
  BY DEF Early, PCs
<1> QED
  BY <1>1, <1>2, FileStepInv DEF Look, files, IInv, TypeOK

LEMMA CheckInv == ASSUME IInv, NEW o \in Ops, Check(o) PROVE IInv'
<1>1. PICK onward \in {"look2", "backOut", "fail"} : FileStep(o, "check", onward)
  BY DEF Check
<1> QED
  BY <1>1, FileStepInv DEF Check, files, IInv, TypeOK, Early, PCs

LEMMA DropOwnerInv ==
    ASSUME IInv, NEW o \in Ops, NEW here \in Early, NEW onward \in Early \ {"cancelled"},
           DropOwner(o, here, onward)
    PROVE  IInv'
<1>1. PICK to \in {onward, "fail"} : FileStep(o, here, to)
  BY DEF DropOwner
<1>2. wrapper' \in [Ops -> {"none", "bare", "owned"}]
      /\ \A a \in Ops \ {o} : wrapper'[a] = wrapper[a]
  BY DEF DropOwner, IInv, TypeOK, files
<1>3. UNCHANGED <<root, payload, destroyed>>
  BY DEF DropOwner, files
<1>4. to \in PCs /\ to # "cancelled" /\ to # "cleaned" /\ (to = "fail" \/ to \in Early)
      /\ to \notin {"removing", "disown", "unwrap", "cleaned"} /\ here \in Early \cup Late
  BY DEF Early, PCs
<1> QED
  BY <1>1, <1>2, <1>3, <1>4, FileStepInv DEF IInv, TypeOK

LEMMA DropWrapperInv ==
    ASSUME IInv, NEW o \in Ops, NEW here \in {"unwrap", "dropWrapper", "backOutWrapper"},
           NEW onward \in {"cleaned", "cancelled", "fail"},
           here = "dropWrapper" <=> onward = "cancelled",
           here = "unwrap" <=> onward = "cleaned",
           DropWrapper(o, here, onward)
    PROVE  IInv'
<1>1. /\ wrapper' \in [Ops -> {"none", "bare", "owned"}] /\ wrapper'[o] = "none"
      /\ \A a \in Ops \ {o} : wrapper'[a] = wrapper[a]
  BY DEF DropWrapper, IInv, TypeOK
<1>2. /\ pc[o] = here
      /\ here = "unwrap" => payload[o] = "none" /\ "project" \in destroyed /\ deletedEvent
  BY DEF DropWrapper, FileStep, At, IInv, OpInv, FileInv, CommitInv, PastCommit
<1>3. here \in Early \cup Late /\ onward \in PCs
  BY DEF Early, Late, PCs
<1> QED
  BY <1>1, <1>2, <1>3, FileStepInv DEF DropWrapper, IInv, TypeOK, Early, Late, PastCommit

\* A directory that is moved into the quarantine belongs to a closed deletion.
LEMMA SwallowInv ==
    ASSUME IInv, NEW o \in Ops, NEW here \in Late, NEW onward \in PCs,
           FileStep(o, here, onward), UNCHANGED <<wrapper, destroyed>>,
           \/ UNCHANGED <<root, payload>>
           \/ root' = "none" /\ payload' = [payload EXCEPT ![o] = root],
           \/ onward = "fail"
           \/ onward \in Late \ PastCommit
           \/ onward = "deleting" /\ deletedEvent
    PROVE  IInv'
<1>1. /\ payload' \in [Ops -> {"none", "project", "other"}]
      /\ root' \in {"project", "other", "none"}
      /\ \A a \in Ops \ {o} : payload'[a] = payload[a]
  BY DEF IInv, TypeOK
<1>2. /\ onward \notin {"cancelled", "cleaned", "disown", "unwrap", "removing"}
      /\ here \in Early \cup Late /\ here \notin Early /\ "deleting" \in PastCommit
  BY DEF Early, Late, PastCommit
<1> QED
  BY <1>1, <1>2, FileStepInv DEF IInv, TypeOK

LEMMA RenameInv == ASSUME IInv, NEW o \in Ops, Rename(o) PROVE IInv'
<1>1. PICK onward \in {"moved", "fail"} : FileStep(o, "rename", onward)
  BY DEF Rename
<1>2. onward \in PCs /\ "rename" \in Late /\ (onward = "fail" \/ onward \in Late \ PastCommit)
  BY DEF Late, PastCommit, PCs
<1> QED
  BY <1>1, <1>2, SwallowInv DEF Rename, files

LEMMA MovedInv == ASSUME IInv, NEW o \in Ops, Moved(o) PROVE IInv'
<1>1. PICK onward \in {"quarantined", "fail"} : FileStep(o, "moved", onward)
  BY DEF Moved
<1>2. onward \in PCs /\ "moved" \in Late /\ (onward = "fail" \/ onward \in Late \ PastCommit)
  BY DEF Late, PastCommit, PCs
<1> QED
  BY <1>1, <1>2, SwallowInv DEF Moved, files

LEMMA ValidateInv == ASSUME IInv, NEW o \in Ops, Validate(o) PROVE IInv'
<1>1. AfterValidate(o) \in {"commitIntent", "deleting"}
      /\ (AfterValidate(o) = "deleting" => deletedEvent)
  BY DEF AfterValidate, IInv, OpInv, CommitInv, Committed
<1>2. PICK onward \in {AfterValidate(o), "fail"} : FileStep(o, "validate", onward)
  BY DEF Validate
<1>3. /\ onward \in PCs /\ "validate" \in Late
      /\ \/ onward = "fail"
         \/ onward \in Late \ PastCommit
         \/ onward = "deleting" /\ deletedEvent
  BY <1>1 DEF Late, PastCommit, PCs
<1> QED
  BY <1>2, <1>3, SwallowInv DEF Validate, files

LEMMA CommitsInv == ASSUME IInv, NEW o \in Ops, Commit(o) PROVE IInv'
<1> USE DEF files, bounds
<1>0. pc[o] = "commit" /\ OpInv(o) /\ RegistryInv
  BY DEF Commit, At, IInv
<1>1. CASE row[o].state = "running" /\ (project = planRev[o] \/ deletedEvent)
  <2>1. /\ row' \in [Ops -> [state : States, phase : Phases, cancel : BOOLEAN]]
        /\ row'[o].state = "running" /\ row'[o].phase = "state_committed"
        /\ \A a \in Ops \ {o} : row'[a] = row[a]
    BY <1>1, PhaseStep DEF Commit, Phases, AfterIntent
  <2>2. /\ pc' \in [Ops -> PCs] /\ pc'[o] = "deleting"
        /\ \A a \in Ops \ {o} : pc'[a] = pc[a]
    BY <1>1, GotoStep DEF Commit, PCs
  <2>3. project' = 0 /\ deletedEvent' = TRUE
    BY <1>0, <1>1 DEF Commit, RegistryInv
  <2>4. TypeOK'
    BY <2>1, <2>2, <2>3 DEF IInv, TypeOK, Commit
  <2>5. UNCHANGED <<planRev, root, wrapper, payload, destroyed, seen>>
    BY DEF Commit
  <2>6. OpInv(o)'
    BY <1>0, <1>1, <2>1, <2>2, <2>3, <2>5
       DEF OpInv, RowInv, CommitInv, FileInv, Early, Late, AfterIntent
  <2>7. RegistryInv' /\ OnlyItsOwn(o)
    BY <1>0, <2>1, <2>2, <2>3, <2>5 DEF RegistryInv, OnlyItsOwn
  <2> QED
    BY <2>4, <2>6, <2>7, OwnStep
<1>2. CASE ~(row[o].state = "running" /\ (project = planRev[o] \/ deletedEvent))
  BY <1>0, <1>2, MovesOn DEF Commit, At, PCs, Late, store
<1> QED
  BY <1>1, <1>2

LEMMA RemoveInv == ASSUME IInv, NEW o \in Ops, Remove(o) PROVE IInv'
<1>1. PICK onward \in {"removing", "fail"} : FileStep(o, "remove", onward)
  BY DEF Remove
<1>2. /\ onward \in PCs /\ "remove" \in Late
      /\ (onward = "fail" \/ onward = "removing") /\ "removing" \in PastCommit
      /\ onward \notin {"cancelled", "cleaned", "disown", "unwrap"}
      /\ "remove" \notin Early
  BY DEF Early, Late, PastCommit, PCs
<1>3. deletedEvent
  BY DEF Remove, FileStep, At, IInv, OpInv, CommitInv, PastCommit
<1>4. /\ destroyed' = destroyed \/ destroyed' = destroyed \cup {"project"}
      /\ onward = "removing" => "project" \in destroyed'
      /\ UNCHANGED <<root, wrapper, payload>>
  <2>1. CASE pc'[o] = "fail"
    BY <1>1, <2>1, GotoStep DEF Remove, FileStep, files, PCs
  <2>2. CASE pc'[o] # "fail"
    BY <1>1, <2>2, GotoStep DEF Remove, FileStep, files, PCs
  <2> QED
    BY <2>1, <2>2
<1> QED
  BY <1>1, <1>2, <1>3, <1>4, FileStepInv DEF IInv, TypeOK

LEMMA RemoveLastInv == ASSUME IInv, NEW o \in Ops, RemoveLast(o) PROVE IInv'
<1>1. /\ payload' \in [Ops -> {"none", "project", "other"}] /\ payload'[o] = "none"
      /\ \A a \in Ops \ {o} : payload'[a] = payload[a]
  BY DEF RemoveLast, IInv, TypeOK
<1>2. "project" \in destroyed /\ deletedEvent
  BY DEF RemoveLast, FileStep, At, IInv, OpInv, FileInv, CommitInv, PastCommit
<1> QED
  BY <1>1, <1>2, FileStepInv DEF RemoveLast, IInv, TypeOK, Early, Late, PastCommit, PCs

LEMMA DisownInv == ASSUME IInv, NEW o \in Ops, Disown(o) PROVE IInv'
<1>1. /\ wrapper' \in [Ops -> {"none", "bare", "owned"}]
      /\ \A a \in Ops \ {o} : wrapper'[a] = wrapper[a]
  BY DEF Disown, IInv, TypeOK
<1>2. "project" \in destroyed /\ deletedEvent /\ payload[o] = "none"
  BY DEF Disown, FileStep, At, IInv, OpInv, FileInv, CommitInv, PastCommit
<1> QED
  BY <1>1, <1>2, FileStepInv DEF Disown, IInv, TypeOK, Early, Late, PastCommit, PCs

\* The end of a task, given that the row it leaves is in order.
LEMMA EndInv ==
    ASSUME IInv, NEW o \in Ops, EndTask(o), OpInv(o)',
           row' \in [Ops -> [state : States, phase : Phases, cancel : BOOLEAN]],
           \A a \in Ops \ {o} : row'[a] = row[a],
           UNCHANGED <<planRev, project, deletedEvent, files, daemon>>,
           crashes' \in Nat, faults' \in Nat, touches' \in Nat, outside' \in Nat
    PROVE  IInv'
<1> USE DEF files
<1>1. TypeOK'
  BY EndTaskStep DEF IInv, TypeOK
<1>2. RegistryInv' /\ OnlyItsOwn(o)
  BY EndTaskStep DEF IInv, RegistryInv, OnlyItsOwn
<1> QED
  BY <1>1, <1>2, OwnStep

LEMMA FinishInv == ASSUME IInv, NEW o \in Ops, Finish(o) PROVE IInv'
<1> USE DEF files, bounds
<1>0. pc[o] = "finish" /\ OpInv(o)
  BY DEF Finish, At, IInv
<1>1. CASE row[o].state = "running" /\ row[o].phase = "cleanup_complete"
  <2>1. /\ row' \in [Ops -> [state : States, phase : Phases, cancel : BOOLEAN]]
        /\ row'[o].state = "succeeded" /\ row'[o].phase = "cleanup_complete"
        /\ \A a \in Ops \ {o} : row'[a] = row[a]
    BY <1>1, StateStep DEF Finish, States, Terminal
  <2>2. EndTask(o) /\ UNCHANGED <<planRev, project, deletedEvent, files, daemon, bounds>>
    BY <1>1 DEF Finish
  <2>3. pc'[o] = "idle" /\ seen'[o] = "accepted"
    BY <2>2, EndTaskStep
  <2>4. OpInv(o)'
    BY <1>0, <1>1, <2>1, <2>2, <2>3
       DEF OpInv, RowInv, CommitInv, FileInv, Early, Late, Committed, PastCommit, AfterIntent
  <2> QED
    BY <2>1, <2>2, <2>4, EndInv DEF IInv, TypeOK
<1>2. CASE ~(row[o].state = "running" /\ row[o].phase = "cleanup_complete")
  <2>1. /\ pc' \in [Ops -> PCs] /\ pc'[o] = "fail"
        /\ \A a \in Ops \ {o} : pc'[a] = pc[a]
    BY <1>2, GotoStep DEF Finish, PCs
  <2>2. TypeOK'
    BY <1>2, <2>1 DEF IInv, TypeOK, Finish
  <2>3. OpInv(o)'
    BY <1>0, <1>2, <2>1 DEF OpInv, RowInv, CommitInv, FileInv, Finish, Early, Late, PastCommit
  <2>4. RegistryInv' /\ OnlyItsOwn(o)
    BY <1>2, <2>1 DEF IInv, RegistryInv, OnlyItsOwn, Finish
  <2> QED
    BY <2>2, <2>3, <2>4, OwnStep
<1> QED
  BY <1>1, <1>2

LEMMA FinishCancelledInv == ASSUME IInv, NEW o \in Ops, FinishCancelled(o) PROVE IInv'
<1> USE DEF files, bounds
<1> DEFINE Good == row[o].state \in {"running", "cancelling", "recovering"} /\ ~PastIntent(o)
<1>0. pc[o] = "cancelled" /\ OpInv(o)
  BY DEF FinishCancelled, At, IInv
<1>1. CASE Good
  <2>1. /\ row' \in [Ops -> [state : States, phase : Phases, cancel : BOOLEAN]]
        /\ row'[o].state = "cancelled" /\ row'[o].phase = row[o].phase
        /\ \A a \in Ops \ {o} : row'[a] = row[a]
    BY <1>1, StateStep DEF FinishCancelled, States, Terminal
  <2>2. EndTask(o) /\ UNCHANGED <<planRev, project, deletedEvent, files, daemon, bounds>>
    BY <1>1 DEF FinishCancelled
  <2>3. pc'[o] = "idle" /\ seen'[o] = "accepted"
    BY <2>2, EndTaskStep
  <2>4. OpInv(o)'
    BY <1>0, <1>1, <2>1, <2>2, <2>3
       DEF OpInv, RowInv, CommitInv, FileInv, PastIntent, Early, Late, Committed, PastCommit,
           AfterIntent
  <2> QED
    BY <2>1, <2>2, <2>4, EndInv DEF IInv, TypeOK
<1>2. CASE ~Good
  BY <1>0, <1>2, MovesOn DEF FinishCancelled, PCs, Early, store
<1> QED
  BY <1>1, <1>2

LEMMA FailInv == ASSUME IInv, NEW o \in Ops, Fail(o) PROVE IInv'
<1> USE DEF files, bounds
<1>0. /\ pc[o] = "fail" /\ OpInv(o) /\ row[o].state \in States
      /\ EndTask(o) /\ UNCHANGED <<planRev, project, deletedEvent, files, daemon, bounds>>
  BY DEF Fail, At, IInv, TypeOK
<1>1. pc'[o] = "idle" /\ seen'[o] = "accepted"
  BY <1>0, EndTaskStep
<1>2. CASE ~Live(o)
  <2>1. row' = row
    BY <1>2 DEF Fail
  <2>2. OpInv(o)'
    BY <1>0, <1>1, <2>1 DEF OpInv, RowInv, CommitInv, FileInv, Early, Late, PastCommit, Committed
  <2> QED
    BY <1>0, <2>1, <2>2, EndInv DEF IInv, TypeOK
<1>3. CASE Live(o) /\ PastIntent(o)
  <2>1. row' = [row EXCEPT ![o] = [state  |-> "recovering", phase  |-> "recovery_required",
                                   cancel |-> row[o].cancel]]
    BY <1>3 DEF Fail
  <2>2. /\ row' \in [Ops -> [state : States, phase : Phases, cancel : BOOLEAN]]
        /\ row'[o].state = "recovering" /\ row'[o].phase = "recovery_required"
        /\ \A a \in Ops \ {o} : row'[a] = row[a]
    BY <2>1, RowStep DEF States, Phases, AfterIntent
  <2>3. OpInv(o)'
    BY <1>0, <1>1, <1>3, <2>2
       DEF OpInv, RowInv, CommitInv, FileInv, Live, PastIntent, Early, Late, PastCommit, Committed,
           AfterIntent, Terminal
  <2> QED
    BY <1>0, <2>2, <2>3, EndInv DEF IInv, TypeOK
<1>4. CASE Live(o) /\ ~PastIntent(o)
  <2>1. SetState(o, "failed")
    BY <1>4 DEF Fail, SetState
  <2>2. /\ row' \in [Ops -> [state : States, phase : Phases, cancel : BOOLEAN]]
        /\ row'[o].state = "failed" /\ row'[o].phase = row[o].phase
        /\ \A a \in Ops \ {o} : row'[a] = row[a]
    BY <2>1, StateStep DEF States, Terminal
  <2>3. OpInv(o)'
    BY <1>0, <1>1, <1>4, <2>2
       DEF OpInv, RowInv, CommitInv, FileInv, Live, PastIntent, Early, Late, PastCommit, Committed,
           AfterIntent
  <2> QED
    BY <1>0, <2>2, <2>3, EndInv DEF IInv, TypeOK
<1> QED
  BY <1>2, <1>3, <1>4

LEMMA FaultInv == ASSUME IInv, NEW o \in Ops, Fault(o) PROVE IInv'
<1> USE DEF store, files
<1>1. OpInv(o) /\ faults' \in Nat /\ UNCHANGED <<store, files, daemon, crashes, touches, outside>>
  BY DEF Fault, IInv, TypeOK
<1>2. CASE pc[o] = "fail"
  <2>1. EndTask(o)
    BY <1>2 DEF Fault
  <2>2. pc'[o] = "idle" /\ seen'[o] = "accepted"
    BY <2>1, EndTaskStep
  <2>3. OpInv(o)'
    BY <1>1, <2>2 DEF OpInv, RowInv, CommitInv, FileInv, Early, Late, PastCommit, Committed
  <2> QED
    BY <1>1, <2>1, <2>3, EndInv DEF IInv, TypeOK
<1>3. CASE pc[o] # "fail"
  <2>1. /\ pc' \in [Ops -> PCs] /\ pc'[o] = "fail" /\ UNCHANGED <<seen, lock>>
        /\ \A a \in Ops \ {o} : pc'[a] = pc[a]
    BY <1>3, GotoStep DEF Fault, PCs
  <2>2. TypeOK'
    BY <1>1, <2>1 DEF IInv, TypeOK
  <2>3. OpInv(o)'
    BY <1>1, <2>1 DEF OpInv, RowInv, CommitInv, FileInv, Early, Late, PastCommit
  <2>4. RegistryInv' /\ OnlyItsOwn(o)
    BY <1>1, <2>1 DEF IInv, RegistryInv, OnlyItsOwn
  <2> QED
    BY <2>2, <2>3, <2>4, OwnStep
<1> QED
  BY <1>2, <1>3

\* The checkpoints of a deletion.
CheckpointStep(o) ==
    \/ Checkpoint(o, "preflighted", "preflight_complete", "look1")
    \/ Checkpoint(o, "intent", "quarantine_intent", "rename")
    \/ Checkpoint(o, "quarantined", "root_quarantined", "commitIntent")
    \/ Checkpoint(o, "commitIntent", "registry_commit_intent", "commit")
    \/ Checkpoint(o, "deleting", "deleting", "remove")
    \/ Checkpoint(o, "cleaned", "cleanup_complete", "finish")

LEMMA CheckpointsInv == ASSUME IInv, NEW o \in Ops, CheckpointStep(o) PROVE IInv'
<1>1. CASE Checkpoint(o, "preflighted", "preflight_complete", "look1")
  BY <1>1, CheckpointInv DEF Early, Late, PCs, Phases
<1>2. CASE Checkpoint(o, "intent", "quarantine_intent", "rename")
  BY <1>2, CheckpointInv DEF Early, Late, PastCommit, PCs, Phases, AfterIntent
<1>3. CASE Checkpoint(o, "quarantined", "root_quarantined", "commitIntent")
  BY <1>3, CheckpointInv DEF Late, PastCommit, Committed, PCs, Phases, AfterIntent
<1>4. CASE Checkpoint(o, "commitIntent", "registry_commit_intent", "commit")
  BY <1>4, CheckpointInv DEF Late, PastCommit, Committed, PCs, Phases, AfterIntent
<1>5. CASE Checkpoint(o, "deleting", "deleting", "remove")
  BY <1>5, CheckpointInv DEF Late, PCs, Phases, AfterIntent
<1>6. CASE Checkpoint(o, "cleaned", "cleanup_complete", "finish")
  BY <1>6, CheckpointInv DEF Late, PCs, Phases, AfterIntent
<1> QED
  BY <1>1, <1>2, <1>3, <1>4, <1>5, <1>6 DEF CheckpointStep

LEMMA WorkerInv == ASSUME IInv, NEW o \in Ops, WorkerStep(o) PROVE IInv'
<1>1. CASE Look(o, "look1", "check") \/ Look(o, "look2", "intent")
  BY <1>1, LookInv DEF Early
<1>2. CASE \/ DropOwner(o, "dropOwner", "dropWrapper")
           \/ DropOwner(o, "backOut", "backOutWrapper")
  BY <1>2, DropOwnerInv DEF Early
<1>3. CASE \/ DropWrapper(o, "unwrap", "cleaned")
           \/ DropWrapper(o, "dropWrapper", "cancelled")
           \/ DropWrapper(o, "backOutWrapper", "fail")
  BY <1>3, DropWrapperInv
<1>4. CASE CheckpointStep(o)
  BY <1>4, CheckpointsInv
<1> QED
  BY <1>1, <1>2, <1>3, <1>4, BeginInv, AcquireInv, MakeInv, OwnInv, RefuseInv, CheckInv,
     RenameInv, MovedInv, ValidateInv, CommitsInv, RemoveInv, RemoveLastInv, DisownInv,
     FinishInv, FinishCancelledInv, FailInv DEF WorkerStep, CheckpointStep

-----------------------------------------------------------------------------
(* The theorems *)

\* IInv is inductive: it holds of every reachable state.
THEOREM Invariance == Spec => []IInv
<1>1. IInv /\ [Next]_vars => IInv'
  BY PlanInv, ApplyInv, CancelInv, WorkerInv, FaultInv, TouchInv, OutsideInv, CrashInv, StartInv,
     StutterInv DEF Next
<1> QED
  BY <1>1, InitInv, PTL DEF Spec

\* The variables keep their types.
THEOREM TypeCorrect == Spec => []TypeOK
<1>1. IInv => TypeOK
  BY DEF IInv
<1> QED
  BY <1>1, Invariance, PTL

\* Nothing but the planned directory is removed, and not before the transaction
\* of commit_project_delete_registry.
THEOREM CommitComesFirst == Spec => []DestroyedOnlyAfterCommit
<1>1. IInv => DestroyedOnlyAfterCommit
  BY DEF IInv, RegistryInv, DestroyedOnlyAfterCommit
<1> QED
  BY <1>1, Invariance, PTL

\* What quarantine swallowed belongs to a deletion that is past its intent and
\* not over.
THEOREM Owned == Spec => []QuarantineIsOwned
<1>1. IInv => QuarantineIsOwned
  BY DEF IInv, OpInv, FileInv, QuarantineIsOwned, PastIntent
<1> QED
  BY <1>1, Invariance, PTL

\* A deletion reported cancelled left no trace, one reported succeeded is complete.
THEOREM Truthful == Spec => []ReportsAreTrue
<1>1. IInv => ReportsAreTrue
  BY DEF IInv, OpInv, RowInv, FileInv, RegistryInv, ReportsAreTrue, PastIntent, AfterIntent
<1> QED
  BY <1>1, Invariance, PTL

-----------------------------------------------------------------------------
(* Refinement: a deletion past its intent never turns back *)

Moves == {<<"none", "open">>, <<"open", "failed">>, <<"open", "cancelled">>,
          <<"open", "closed">>, <<"closed", "succeeded">>}

\* A step of the row of o alone, as ForwardOnly sees it.
StageStep(o) ==
    /\ \A a \in Ops \ {o} : row'[a] = row[a]
    /\ Stage(o)' = Stage(o) \/ <<Stage(o), Stage(o)'>> \in Moves

LEMMA StageStepIsForward ==
    ASSUME NEW o \in Ops, StageStep(o)
    PROVE  [Forward!Next]_stages
<1> USE DEF stages
<1>1. \A a \in Ops \ {o} : Stage(a)' = Stage(a)
  BY DEF StageStep, Stage, Live, PastIntent
<1>2. CASE Stage(o)' = Stage(o)
  <2>1. stages' = stages
    BY <1>1, <1>2
  <2> QED
    BY <2>1
<1>3. CASE <<Stage(o), Stage(o)'>> \in Moves
  <2>1. stages' = [stages EXCEPT ![o] = Stage(o)']
    BY <1>1
  <2>2. stages[o] = Stage(o)
    BY DEF stages
  <2>3. Forward!Next
    BY <1>3, <2>1, <2>2 DEF Moves, Forward!Next, Forward!Accept, Forward!GiveUp, Forward!Intend,
       Forward!Succeed, Forward!Move
  <2> QED
    BY <2>3
<1> QED
  BY <1>2, <1>3 DEF StageStep

LEMMA SameRowsSameStage ==
    ASSUME UNCHANGED row
    PROVE  [Forward!Next]_stages
<1>1. \A a \in Ops : Stage(a)' = Stage(a)
  BY DEF Stage, Live, PastIntent
<1>2. stages' = stages
  BY <1>1 DEF stages
<1> QED
  BY <1>2

\* The two kinds of row steps that are not a refusal.
LEMMA StateStage ==
    ASSUME IInv, NEW o \in Ops, NEW s \in States, SetState(o, s),
           \/ row[o].state = "absent" /\ s = "queued"
           \/ Live(o) /\ s \in States \ (Terminal \cup {"absent"})
           \/ Live(o) /\ PastIntent(o) /\ s = "succeeded"
           \/ Live(o) /\ ~PastIntent(o) /\ s \in {"failed", "cancelled"}
    PROVE  StageStep(o)
<1>1. /\ row'[o].state = s /\ row'[o].phase = row[o].phase
      /\ \A a \in Ops \ {o} : row'[a] = row[a]
  BY StateStep
<1>2. row[o].state = "absent" => ~PastIntent(o)
  BY DEF IInv, OpInv, RowInv, PastIntent, AfterIntent
<1> QED
  BY <1>1, <1>2 DEF StageStep, Stage, Live, PastIntent, Terminal, Moves, States

LEMMA CheckpointStage ==
    ASSUME IInv, NEW o \in Ops, NEW here \in Early \cup Late, NEW phase \in Phases,
           NEW onward, Checkpoint(o, here, phase, onward),
           here \in Late => phase \in AfterIntent
    PROVE  StageStep(o)
<1>1. CASE row[o].state \in {"running", "cancelling"}
  <2>1. /\ row'[o].state = row[o].state /\ row'[o].phase = phase
        /\ \A a \in Ops \ {o} : row'[a] = row[a]
    BY <1>1, PhaseStep DEF Checkpoint
  <2>2. here \in Late => PastIntent(o)
    BY DEF Checkpoint, At, IInv, OpInv, RowInv, PastIntent
  <2>3. here \in Early => ~PastIntent(o)
    BY DEF Checkpoint, At, IInv, OpInv, RowInv, PastIntent, AfterIntent
  <2> QED
    BY <1>1, <2>1, <2>2, <2>3 DEF StageStep, Stage, Live, PastIntent, Terminal, Moves
<1>2. CASE row[o].state \notin {"running", "cancelling"}
  BY <1>2 DEF Checkpoint, StageStep, Stage, Live, PastIntent
<1> QED
  BY <1>1, <1>2

LEMMA CancelStage == ASSUME IInv, NEW o \in Ops, Cancel(o) PROVE StageStep(o)
<1>1. /\ row'[o].state = IF row[o].state = "queued" THEN "cancelled" ELSE "cancelling"
      /\ row'[o].phase = row[o].phase
      /\ \A a \in Ops \ {o} : row'[a] = row[a]
  BY DEF Cancel, IInv, TypeOK
<1> QED
  BY <1>1 DEF Cancel, StageStep, Stage, Live, PastIntent, Terminal, Moves

LEMMA CommitStage == ASSUME IInv, NEW o \in Ops, Commit(o) PROVE StageStep(o)
<1>1. CASE row' = row
  BY <1>1 DEF StageStep, Stage, Live, PastIntent
<1>2. CASE row' # row
  <2>1. row[o].state = "running" /\ SetPhase(o, "state_committed")
    BY <1>2 DEF Commit
  <2>2. /\ row'[o].state = row[o].state /\ row'[o].phase = "state_committed"
        /\ \A a \in Ops \ {o} : row'[a] = row[a]
    BY <2>1, PhaseStep DEF Phases, AfterIntent
  <2>3. PastIntent(o)
    BY DEF Commit, At, IInv, OpInv, RowInv, Late, PastIntent
  <2> QED
    BY <2>1, <2>2, <2>3 DEF StageStep, Stage, Live, PastIntent, AfterIntent, Terminal
<1> QED
  BY <1>1, <1>2

LEMMA FailStage == ASSUME IInv, NEW o \in Ops, Fail(o) PROVE StageStep(o)
<1>1. CASE ~Live(o)
  BY <1>1 DEF Fail, StageStep, Stage, Live, PastIntent
<1>2. CASE Live(o) /\ PastIntent(o)
  <2>1. row' = [row EXCEPT ![o] = [state  |-> "recovering", phase  |-> "recovery_required",
                                   cancel |-> row[o].cancel]]
    BY <1>2 DEF Fail
  <2>2. /\ row'[o].state = "recovering" /\ row'[o].phase = "recovery_required"
        /\ \A a \in Ops \ {o} : row'[a] = row[a]
    BY <2>1, RowStep DEF States, Phases, AfterIntent
  <2> QED
    BY <1>2, <2>2 DEF StageStep, Stage, Live, PastIntent, AfterIntent, Terminal
<1>3. CASE Live(o) /\ ~PastIntent(o)
  <2>1. SetState(o, "failed")
    BY <1>3 DEF Fail, SetState
  <2> QED
    BY <1>3, <2>1, StateStage DEF States, Terminal
<1> QED
  BY <1>1, <1>2, <1>3

\* The steps of a worker that leave its row alone.
LEMMA FileStage ==
    ASSUME NEW o \in Ops,
           \/ Acquire(o) \/ Make(o) \/ Own(o) \/ Refuse(o) \/ Check(o) \/ Rename(o) \/ Moved(o)
           \/ Validate(o) \/ Remove(o) \/ RemoveLast(o) \/ Disown(o)
    PROVE  UNCHANGED row
BY DEF Acquire, Make, Own, Refuse, Check, Rename, Moved, Validate, Remove, RemoveLast, Disown,
       FileStep, store

LEMMA WorkerStage ==
    ASSUME IInv, NEW o \in Ops, WorkerStep(o)
    PROVE  [Forward!Next]_stages
<1>1. CASE Begin(o)
  <2>1. CASE UNCHANGED row
    BY <2>1, SameRowsSameStage
  <2>2. CASE row' # row
    BY <1>1, <2>2, StateStage, StageStepIsForward DEF Begin, Live, Terminal, States
  <2> QED
    BY <2>1, <2>2
<1>2. CASE CheckpointStep(o)
  BY <1>2, CheckpointStage, StageStepIsForward
     DEF CheckpointStep, Early, Late, Phases, AfterIntent
<1>3. CASE Commit(o)
  BY <1>3, CommitStage, StageStepIsForward
<1>4. CASE Finish(o)
  <2>1. CASE UNCHANGED row
    BY <2>1, SameRowsSameStage
  <2>2. CASE row' # row
    BY <1>4, <2>2, StateStage, StageStepIsForward
       DEF Finish, Live, PastIntent, AfterIntent, Terminal, States
  <2> QED
    BY <2>1, <2>2
<1>5. CASE FinishCancelled(o)
  <2>1. CASE UNCHANGED row
    BY <2>1, SameRowsSameStage
  <2>2. CASE row' # row
    BY <1>5, <2>2, StateStage, StageStepIsForward DEF FinishCancelled, Live, Terminal, States
  <2> QED
    BY <2>1, <2>2
<1>6. CASE Fail(o)
  BY <1>6, FailStage, StageStepIsForward
<1>7. CASE \/ Look(o, "look1", "check") \/ Look(o, "look2", "intent")
           \/ DropOwner(o, "dropOwner", "dropWrapper")
           \/ DropOwner(o, "backOut", "backOutWrapper")
           \/ DropWrapper(o, "unwrap", "cleaned")
           \/ DropWrapper(o, "dropWrapper", "cancelled")
           \/ DropWrapper(o, "backOutWrapper", "fail")
  <2>1. UNCHANGED row
    BY <1>7 DEF Look, DropOwner, DropWrapper, FileStep, store
  <2> QED
    BY <2>1, SameRowsSameStage
<1> QED
  BY <1>1, <1>2, <1>3, <1>4, <1>5, <1>6, <1>7, FileStage, SameRowsSameStage
     DEF WorkerStep, CheckpointStep

LEMMA NextIsForward ==
    ASSUME IInv, [Next]_vars
    PROVE  [Forward!Next]_stages
<1>1. ASSUME NEW o \in Ops, Apply(o) PROVE [Forward!Next]_stages
  BY <1>1, StateStage, StageStepIsForward DEF Apply, States
<1>2. ASSUME NEW o \in Ops, Cancel(o) PROVE [Forward!Next]_stages
  BY <1>2, CancelStage, StageStepIsForward
<1>3. CASE Start
  <2>1. \A a \in Ops : /\ row'[a].phase = row[a].phase
                        /\ row'[a].state = IF row[a].state = "running" THEN "recovering"
                                           ELSE row[a].state
    BY <1>3 DEF Start, IInv, TypeOK
  <2>2. \A a \in Ops : Stage(a)' = Stage(a)
    BY <2>1 DEF Stage, Live, PastIntent, Terminal
  <2>3. stages' = stages
    BY <2>2 DEF stages
  <2> QED
    BY <2>3
<1>4. CASE \/ Touch \/ Outside \/ Crash \/ UNCHANGED vars
           \/ \E o \in Ops : Plan(o) \/ Fault(o)
  BY <1>4, SameRowsSameStage DEF Touch, Outside, Crash, Plan, Fault, vars, store
<1> QED
  BY <1>1, <1>2, <1>3, <1>4, WorkerStage DEF Next

\* Past its intent a deletion is never cancelled and never fails, and it succeeds
\* only from there.
THEOREM NeverTurnsBackHolds == Spec => NeverTurnsBack
<1>1. Init => Forward!Init
  <2>1. Init => \A a \in Ops : Stage(a) = "none"
    BY DEF Init, Stage
  <2> QED
    BY <2>1 DEF Forward!Init, stages
<1>2. IInv /\ [Next]_vars => [Forward!Next]_stages
  BY NextIsForward
<1> QED
  BY <1>1, <1>2, Invariance, PTL DEF Spec, NeverTurnsBack, Forward!ForwardSpec

-----------------------------------------------------------------------------
(* Stuck deletions                                                         *)
(*                                                                         *)
(* While no step failed and nobody touched the row or the path, there is   *)
(* one directory: at the path, in one quarantine, or being removed.  Each  *)
(* place of a worker that was not cancelled then knows where it is, so a   *)
(* deletion can only be refused past its intent after a death, and the     *)
(* reason it is refused for outlives the refusal.                          *)

\* Places at which a worker holds the locks.
Held == Early \cup Late \cup {"finish"}

TaskInv(o) ==
    /\ pc[o] \in Held => lock = o
    /\ row[o].state = "cancelling" => row[o].cancel
    /\ pc[o] = "begin" => row[o].state \in {"queued", "running", "recovering"} \/ row[o].cancel
    /\ pc[o] \in {"dropOwner", "dropWrapper", "cancelled"} => row[o].cancel
    /\ pc[o] \in {"begin", "lock"} /\ row[o].phase # "accepted" => crashes > 0
    /\ pc[o] = "finish" => row[o].phase = "cleanup_complete"
    /\ row[o].state # "absent" => planRev[o] # 0

\* No step failed, and only this daemon's deletions moved the project.
Quiet == faults = 0 /\ touches = 0 /\ outside = 0

\* Then there is one directory and one revision.
QuietWorld ==
    /\ root \in {"project", "none"} /\ \A p \in Ops : payload[p] \in {"project", "none"}
    /\ root = "project" => destroyed = {} /\ \A p \in Ops : payload[p] = "none"
    /\ root = "none" => destroyed # {} \/ \E p \in Ops : payload[p] = "project"
    /\ \A p, q \in Ops : payload[p] = "project" /\ payload[q] = "project" => p = q
    /\ project \in {0, 1} /\ (project = 0 => deletedEvent)
    /\ \A p \in Ops : planRev[p] \in {0, 1}

\* A start cannot take up the deletion again.
Lost(o) == \/ destroyed # {} \/ wrapper[o] # "owned"
           \/ \E p \in Ops \ {o} : payload[p] = "project"

\* ... and each worker finds what its place promises.
QuietOp(o) ==
    /\ pc[o] \in {"look2", "intent", "rename"} => root = "project"
    /\ pc[o] \in {"preflighted", "moved", "quarantined", "commitIntent", "commit", "deleting",
                  "remove"} => wrapper[o] = "owned"
    /\ pc[o] \in {"look1", "check", "look2", "intent", "rename"} /\ wrapper[o] # "owned"
          => crashes > 0
    /\ pc[o] \in {"moved", "quarantined", "commitIntent", "commit", "deleting", "remove"}
          => payload[o] = "project"
    /\ pc[o] = "validate" => crashes > 0
    /\ pc[o] = "fail" /\ PastIntent(o) => crashes > 0 /\ Lost(o)
    /\ Stuck(o) => PastIntent(o) /\ crashes > 0 /\ Lost(o)

StuckInv ==
    /\ daemon = "down" => crashes > 0
    /\ \A o \in Ops : TaskInv(o)
    /\ Quiet => QuietWorld /\ \A o \in Ops : row[o].cancel \/ QuietOp(o)

-----------------------------------------------------------------------------
\* A step of o's worker, given what is true of o and of the project after it.
LEMMA StuckStep ==
    ASSUME IInv, StuckInv, NEW o \in Ops, NEW onward \in PCs, Goto(o, onward),
           UNCHANGED <<daemon, planRev, bounds>>,
           \A a \in Ops \ {o} : /\ row'[a] = row[a] /\ wrapper'[a] = wrapper[a]
                               /\ payload'[a] = payload[a],
           destroyed \subseteq destroyed',
           payload[o] = "project" => payload'[o] = "project" \/ destroyed' # {},
           lock' = lock \/ lock = o \/ lock = None,
           root' = root \/ lock = o,
           TaskInv(o)',
           Quiet => QuietWorld' /\ (row'[o].cancel \/ QuietOp(o)')
    PROVE  StuckInv'
<1>1. \A a \in Ops \ {o} : pc'[a] = pc[a]
  BY GotoStep
<1>2. ASSUME NEW a \in Ops \ {o} PROVE TaskInv(a)'
  <2>1. pc[a] \in Held => lock' = a
    BY <1>2, DeleteAssumption DEF StuckInv, TaskInv
  <2> QED
    BY <1>1, <1>2, <2>1 DEF StuckInv, TaskInv, bounds
<1>3. ASSUME NEW a \in Ops \ {o}, Quiet PROVE row'[a].cancel \/ QuietOp(a)'
  <2>1. pc[a] \in {"look2", "intent", "rename"} => root' = root
    BY <1>3 DEF StuckInv, TaskInv, Held, Early, Late
  <2>2. Lost(a) => Lost(a)'
    BY <1>3 DEF Lost
  <2> QED
    BY <1>1, <1>3, <2>1, <2>2 DEF StuckInv, QuietOp, Stuck, Live, PastIntent, bounds
<1>4. Quiet' => Quiet
  BY DEF Quiet, bounds
<1> QED
  BY <1>2, <1>3, <1>4 DEF StuckInv, bounds

LEMMA WorldKept ==
    ASSUME QuietWorld, UNCHANGED <<root, payload, destroyed, project, deletedEvent, planRev>>
    PROVE  QuietWorld'
BY DEF QuietWorld

\* A worker that only goes on.
LEMMA StuckMove ==
    ASSUME IInv, StuckInv, NEW o \in Ops, NEW here \in Held, NEW onward \in PCs,
           FileStep(o, here, onward), UNCHANGED files,
           onward \notin {"begin", "lock", "finish", "cancelled", "dropWrapper"},
           onward = "dropOwner" => row[o].cancel,
           Quiet /\ ~row[o].cancel => QuietOp(o)'
    PROVE  StuckInv'
<1>1. pc[o] = here /\ pc'[o] = onward /\ Goto(o, onward)
  BY GotoStep DEF FileStep, At
<1>2. UNCHANGED <<row, planRev, project, deletedEvent, root, wrapper, payload, destroyed,
                  daemon, lock, bounds>>
  BY DEF FileStep, store, files
<1>3. TaskInv(o)'
  BY <1>1, <1>2 DEF StuckInv, TaskInv, bounds
<1>4. Quiet => QuietWorld'
  BY <1>2, WorldKept DEF StuckInv
<1> QED
  BY <1>1, <1>2, <1>3, <1>4, StuckStep

\* A worker that writes its own wrapper and goes on.
LEMMA StuckWrapper ==
    ASSUME IInv, StuckInv, NEW o \in Ops, NEW here \in Held, NEW onward \in PCs,
           FileStep(o, here, onward), UNCHANGED <<root, payload, destroyed>>,
           NEW w \in {"none", "bare", "owned"}, wrapper' = [wrapper EXCEPT ![o] = w],
           onward \notin {"begin", "lock", "finish"},
           onward \in {"dropOwner", "dropWrapper", "cancelled"} => row[o].cancel,
           wrapper'[o] = w /\ Quiet /\ ~row[o].cancel => QuietOp(o)'
    PROVE  StuckInv'
<1>1. pc[o] = here /\ pc'[o] = onward /\ Goto(o, onward)
  BY GotoStep DEF FileStep, At
<1>2. UNCHANGED <<row, planRev, project, deletedEvent, daemon, lock, bounds>>
  BY DEF FileStep, store
<1>3. wrapper'[o] = w /\ \A a \in Ops \ {o} : wrapper'[a] = wrapper[a]
  BY DEF IInv, TypeOK
<1>4. TaskInv(o)'
  BY <1>1, <1>2 DEF StuckInv, TaskInv, bounds
<1>5. Quiet => QuietWorld'
  BY <1>2, WorldKept DEF StuckInv
<1> QED
  BY <1>1, <1>2, <1>3, <1>4, <1>5, StuckStep

LEMMA BeginStuck == ASSUME IInv, StuckInv, NEW o \in Ops, Begin(o) PROVE StuckInv'
<1> USE DEF files
<1>0. /\ pc[o] = "begin" /\ TaskInv(o) /\ OpInv(o)
      /\ UNCHANGED <<planRev, project, deletedEvent, root, wrapper, payload, destroyed,
                     daemon, lock, bounds>>
  BY DEF Begin, At, StuckInv, IInv
<1>1. Quiet => QuietWorld'
  BY <1>0, WorldKept DEF StuckInv
<1>2. CASE row[o].state \in {"queued", "recovering", "running"}
  <2>1. SetState(o, "running") /\ Goto(o, "lock") /\ "running" \in States /\ "lock" \in PCs
    BY <1>2 DEF Begin, States, PCs
  <2>2. /\ row'[o].state = "running" /\ row'[o].phase = row[o].phase
        /\ row'[o].cancel = row[o].cancel
        /\ \A a \in Ops \ {o} : row'[a] = row[a]
    BY <2>1 DEF SetState, IInv, TypeOK
  <2>3. pc'[o] = "lock"
    BY <2>1, GotoStep
  <2>4. TaskInv(o)' /\ QuietOp(o)'
    BY <1>0, <1>2, <2>2, <2>3 DEF TaskInv, QuietOp, Stuck, Held, Early, Late, bounds
  <2> QED
    BY <1>0, <1>1, <2>1, <2>2, <2>4, StuckStep
<1>3. CASE row[o].state \notin {"queued", "recovering", "running"}
  <2>1. row' = row /\ Goto(o, "fail") /\ "fail" \in PCs
    BY <1>3 DEF Begin, PCs
  <2>2. pc'[o] = "fail" /\ row[o].cancel
    BY <1>0, <1>3, <2>1, GotoStep DEF TaskInv
  <2>3. TaskInv(o)'
    BY <1>0, <2>1, <2>2 DEF TaskInv, Held, Early, Late, bounds
  <2> QED
    BY <1>0, <1>1, <2>1, <2>2, <2>3, StuckStep
<1> QED
  BY <1>2, <1>3

LEMMA AcquireStuck == ASSUME IInv, StuckInv, NEW o \in Ops, Acquire(o) PROVE StuckInv'
<1>0. /\ pc[o] = "lock" /\ TaskInv(o) /\ OpInv(o) /\ lock = None /\ lock' = o
      /\ seen[o] = row[o].phase /\ row[o].phase \in Phases
      /\ UNCHANGED <<row, planRev, project, deletedEvent, root, wrapper, payload, destroyed,
                     daemon, bounds>>
  BY DEF Acquire, At, StuckInv, IInv, TypeOK, OpInv, RowInv, store, files
<1>1. Quiet => QuietWorld'
  BY <1>0, WorldKept DEF StuckInv
<1>2. /\ Entry(seen[o]) \in {"finish", "make", "look1", "validate"}
      /\ Entry(seen[o]) \in {"look1", "validate"} => row[o].phase # "accepted"
      /\ Entry(seen[o]) = "finish" => row[o].phase = "cleanup_complete"
  BY <1>0 DEF Entry, Phases, AfterIntent
<1>3. Entry(seen[o]) \in PCs /\ Goto(o, Entry(seen[o]))
  BY <1>2 DEF PCs, Acquire
<1>4. pc'[o] = Entry(seen[o])
  BY <1>3, GotoStep
<1>5. TaskInv(o)'
  BY <1>0, <1>2, <1>4 DEF TaskInv, bounds
<1>6. QuietOp(o)'
  BY <1>0, <1>2, <1>4 DEF TaskInv, QuietOp, Stuck, bounds
<1> QED
  BY <1>0, <1>1, <1>3, <1>5, <1>6, StuckStep

\* Before the intent any refusal is harmless: the Operation fails.
LEMMA EarlyFails ==
    ASSUME IInv, StuckInv, NEW o \in Ops, NEW here \in Early,
           FileStep(o, here, "fail"), UNCHANGED files
    PROVE  StuckInv'
<1>1. /\ "fail" \in PCs /\ here \in Held
      /\ "fail" \notin {"begin", "lock", "finish", "cancelled", "dropWrapper", "dropOwner"}
  BY DEF PCs, Held, Early, Late
<1>2. pc[o] = here /\ pc'[o] = "fail" /\ row' = row
  BY <1>1, GotoStep DEF FileStep, At, store
<1>3. ~PastIntent(o)'
  BY <1>2 DEF IInv, OpInv, RowInv, PastIntent, AfterIntent
<1>4. QuietOp(o)'
  BY <1>2, <1>3 DEF QuietOp, Stuck
<1> QED
  BY <1>1, <1>4, StuckMove

LEMMA MakeStuck == ASSUME IInv, StuckInv, NEW o \in Ops, Make(o) PROVE StuckInv'
<1>1. /\ {"own", "preflighted"} \subseteq PCs /\ "make" \in Held \cap Early
      /\ {"own", "preflighted"} \cap
           {"finish", "begin", "lock", "cancelled", "dropWrapper", "dropOwner"} = {}
  BY DEF PCs, Held, Early
<1>2. CASE FileStep(o, "make", "own")
  <2>1. wrapper' = [wrapper EXCEPT ![o] = "bare"] /\ UNCHANGED <<root, payload, destroyed>>
    BY <1>2, GotoStep DEF Make, FileStep, Goto, IInv, TypeOK
  <2>2. pc'[o] = "own"
    BY <1>1, <1>2, GotoStep DEF FileStep
  <2>3. QuietOp(o)'
    BY <2>2 DEF QuietOp, Stuck
  <2> QED
    BY <1>1, <1>2, <2>1, <2>3, StuckWrapper
<1>3. CASE FileStep(o, "make", "preflighted") /\ UNCHANGED files /\ Verified(o)
  <2>1. pc'[o] = "preflighted" /\ wrapper'[o] = "owned"
    BY <1>1, <1>3, GotoStep DEF FileStep, Verified, files
  <2>2. QuietOp(o)'
    BY <2>1 DEF QuietOp, Stuck
  <2> QED
    BY <1>1, <1>3, <2>2, StuckMove
<1>4. CASE FileStep(o, "make", "fail") /\ UNCHANGED files
  BY <1>1, <1>4, EarlyFails
<1> QED
  BY <1>2, <1>3, <1>4 DEF Make

LEMMA OwnStuck == ASSUME IInv, StuckInv, NEW o \in Ops, Own(o) PROVE StuckInv'
<1>1. /\ "preflighted" \in PCs /\ "own" \in Held /\ FileStep(o, "own", "preflighted")
      /\ wrapper' = [wrapper EXCEPT ![o] = "owned"] /\ UNCHANGED <<root, payload, destroyed>>
  BY DEF PCs, Held, Early, Own
<1>2. pc'[o] = "preflighted"
  BY <1>1, GotoStep DEF FileStep
<1>3. wrapper'[o] = "owned" => QuietOp(o)'
  BY <1>2 DEF QuietOp, Stuck
<1> QED
  BY <1>1, <1>3, StuckWrapper

LEMMA RefuseStuck == ASSUME IInv, StuckInv, NEW o \in Ops, Refuse(o) PROVE StuckInv'
BY EarlyFails DEF Refuse, Early

LEMMA LookStuck ==
    ASSUME IInv, StuckInv, NEW o \in Ops,
           Look(o, "look1", "check") \/ Look(o, "look2", "intent")
    PROVE  StuckInv'
<1>1. PICK here \in {"look1", "look2"}, onward \in {"check", "intent", "dropOwner"} :
          /\ FileStep(o, here, onward) /\ UNCHANGED files
          /\ onward = "dropOwner" <=> row[o].cancel
          /\ onward = "intent" => here = "look2"
  BY DEF Look
<1>2. /\ onward \in PCs /\ here \in Held
      /\ onward \notin {"finish", "begin", "lock", "cancelled", "dropWrapper"}
  BY DEF PCs, Held, Early
<1>3. pc[o] = here /\ pc'[o] = onward /\ UNCHANGED <<row, root, wrapper, crashes>>
  BY <1>1, <1>2, GotoStep DEF FileStep, At, store, files, bounds
<1>4. Quiet /\ ~row[o].cancel => QuietOp(o)'
  BY <1>1, <1>3 DEF StuckInv, QuietOp, Stuck
<1> QED
  BY <1>1, <1>2, <1>4, StuckMove

LEMMA CheckStuck == ASSUME IInv, StuckInv, NEW o \in Ops, Check(o) PROVE StuckInv'
<1>1. CASE FileStep(o, "check", "fail")
  BY <1>1, EarlyFails DEF Check, Early
<1>2. CASE ~FileStep(o, "check", "fail")
  <2>1. PICK onward \in {"look2", "backOut"} :
            /\ FileStep(o, "check", onward) /\ UNCHANGED files
            /\ onward = "look2" => root = "project"
    BY <1>2 DEF Check
  <2>2. /\ onward \in PCs /\ "check" \in Held
        /\ onward \notin {"finish", "begin", "lock", "cancelled", "dropWrapper", "dropOwner"}
    BY DEF PCs, Held, Early
  <2>3. pc[o] = "check" /\ pc'[o] = onward /\ UNCHANGED <<row, root, wrapper, crashes>>
    BY <2>1, <2>2, GotoStep DEF FileStep, At, store, files, bounds
  <2>4. Quiet /\ ~row[o].cancel => QuietOp(o)'
    BY <2>1, <2>3 DEF StuckInv, QuietOp, Stuck
  <2> QED
    BY <2>1, <2>2, <2>4, StuckMove
<1> QED
  BY <1>1, <1>2

LEMMA CheckpointsStuck == ASSUME IInv, StuckInv, NEW o \in Ops, CheckpointStep(o) PROVE StuckInv'
<1>1. PICK here \in {"preflighted", "intent", "quarantined", "commitIntent", "deleting", "cleaned"},
           phase \in Phases, onward \in {"look1", "rename", "commitIntent", "commit", "remove",
                                         "finish"} :
          /\ Checkpoint(o, here, phase, onward)
          /\ onward = "look1" => here = "preflighted"
          /\ onward = "rename" => here = "intent"
          /\ onward \in {"commitIntent", "commit", "remove"} =>
                here \in {"quarantined", "commitIntent", "deleting"}
          /\ onward = "finish" => phase = "cleanup_complete"
  BY DEF CheckpointStep, Phases, AfterIntent
<1>2. pc[o] = here /\ here \in Held /\ onward \in PCs /\ TaskInv(o)
      /\ UNCHANGED <<planRev, project, deletedEvent, root, wrapper, payload, destroyed,
                     daemon, lock, bounds>>
  BY <1>1 DEF Checkpoint, At, StuckInv, Held, Early, Late, PCs, files
<1>3. row[o].state \in {"running", "cancelling"}
  BY <1>2 DEF IInv, OpInv, RowInv, Held
<1>4. SetPhase(o, phase) /\ Goto(o, onward)
  BY <1>1, <1>3 DEF Checkpoint
<1>5. /\ row'[o].state = row[o].state /\ row'[o].phase = phase
      /\ row'[o].cancel = row[o].cancel /\ pc'[o] = onward
      /\ \A a \in Ops \ {o} : row'[a] = row[a]
  BY <1>2, <1>4, GotoStep DEF SetPhase, IInv, TypeOK
<1>6. TaskInv(o)'
  BY <1>1, <1>2, <1>3, <1>5 DEF TaskInv
<1>7. Quiet => QuietWorld' /\ (row'[o].cancel \/ QuietOp(o)')
  <2>1. SUFFICES ASSUME Quiet, ~row[o].cancel PROVE QuietOp(o)'
    BY <1>2, <1>5, WorldKept DEF StuckInv
  <2>2. QuietOp(o)
    BY <2>1 DEF StuckInv
  <2> QED
    BY <1>1, <1>2, <1>5, <2>2 DEF QuietOp, Stuck, bounds
<1> QED
  BY <1>2, <1>4, <1>5, <1>6, <1>7, StuckStep

\* The directory at the path goes into the quarantine of o.
LEMMA MoveInStuck ==
    ASSUME IInv, StuckInv, NEW o \in Ops, NEW here \in Held,
           NEW onward \in {"moved", "deleting", "commitIntent"}, FileStep(o, here, onward),
           Verified(o), payload[o] = "none", root # "none",
           payload' = [payload EXCEPT ![o] = root], root' = "none",
           UNCHANGED <<wrapper, destroyed>>
    PROVE  StuckInv'
<1>1. pc[o] = here /\ onward \in PCs /\ TaskInv(o) /\ Goto(o, onward)
      /\ UNCHANGED <<row, planRev, project, deletedEvent, wrapper, destroyed, daemon, lock, bounds>>
  BY DEF FileStep, At, StuckInv, PCs, store
<1>2. payload'[o] = root /\ \A a \in Ops \ {o} : payload'[a] = payload[a]
  BY DEF IInv, TypeOK
<1>3. pc'[o] = onward
  BY <1>1, GotoStep
<1>4. TaskInv(o)' /\ lock = o
  BY <1>1, <1>3 DEF TaskInv, bounds
<1>5. Quiet => QuietWorld' /\ QuietOp(o)'
  <2>1. SUFFICES ASSUME Quiet PROVE QuietWorld' /\ QuietOp(o)'
    OBVIOUS
  <2>2. QuietWorld /\ root = "project" /\ \A p \in Ops : payload[p] = "none"
    BY <2>1 DEF StuckInv, QuietWorld
  <2>3. QuietWorld'
    BY <1>1, <1>2, <2>2 DEF QuietWorld
  <2>4. QuietOp(o)'
    BY <1>1, <1>2, <1>3, <2>2 DEF QuietOp, Stuck, Verified
  <2> QED
    BY <2>3, <2>4
<1> QED
  BY <1>1, <1>2, <1>4, <1>5, StuckStep

LEMMA RenameStuck == ASSUME IInv, StuckInv, NEW o \in Ops, Rename(o) PROVE StuckInv'
<1>1. CASE FileStep(o, "rename", "moved")
  <2>1. pc'[o] = "moved"
    BY <1>1, GotoStep DEF FileStep, PCs
  <2>2. ~FileStep(o, "rename", "fail")
    BY <2>1, GotoStep DEF FileStep, PCs
  <2> QED
    BY <1>1, <2>2, MoveInStuck DEF Rename, Held, Late
<1>2. CASE ~FileStep(o, "rename", "moved")
  <2>1. /\ ~Verified(o) \/ payload[o] # "none" \/ root = "none"
        /\ FileStep(o, "rename", "fail") /\ UNCHANGED files
    BY <1>2 DEF Rename
  <2>2. pc[o] = "rename" /\ pc'[o] = "fail" /\ UNCHANGED <<row, wrapper, payload, destroyed, crashes>>
    BY <2>1, GotoStep DEF FileStep, At, PCs, store, files, bounds
  <2>3. ASSUME Quiet, ~row[o].cancel PROVE QuietOp(o)'
    <3>1. QuietWorld /\ QuietOp(o)
      BY <2>3 DEF StuckInv
    <3>2. root = "project" /\ payload[o] = "none"
      BY <2>2, <3>1 DEF QuietOp, QuietWorld
    <3>3. wrapper[o] # "owned" /\ crashes > 0
      BY <2>1, <2>2, <3>1, <3>2 DEF QuietOp, Verified
    <3> QED
      BY <2>2, <3>3 DEF QuietOp, Stuck, Lost
  <2> QED
    BY <2>1, <2>3, StuckMove DEF Held, Late, PCs
<1> QED
  BY <1>1, <1>2

LEMMA MovedStuck == ASSUME IInv, StuckInv, NEW o \in Ops, Moved(o) PROVE StuckInv'
<1>1. PICK onward \in {"quarantined", "fail"} :
          /\ FileStep(o, "moved", onward) /\ UNCHANGED files
          /\ onward = "fail" => payload[o] # "project" \/ root # "none"
  BY DEF Moved
<1>2. /\ onward \in PCs /\ "moved" \in Held
      /\ onward \notin {"begin", "lock", "finish", "cancelled", "dropWrapper", "dropOwner"}
  BY DEF PCs, Held, Late
<1>3. pc[o] = "moved" /\ pc'[o] = onward /\ UNCHANGED <<row, wrapper, payload>>
  BY <1>1, <1>2, GotoStep DEF FileStep, At, store, files
<1>4. ASSUME Quiet, ~row[o].cancel PROVE QuietOp(o)'
  <2>1. QuietWorld /\ QuietOp(o)
    BY <1>4 DEF StuckInv
  <2>2. wrapper[o] = "owned" /\ payload[o] = "project" /\ root = "none"
    BY <1>3, <2>1 DEF QuietOp, QuietWorld
  <2> QED
    BY <1>1, <1>3, <2>2 DEF QuietOp, Stuck
<1> QED
  BY <1>1, <1>2, <1>4, StuckMove

LEMMA ValidateStuck == ASSUME IInv, StuckInv, NEW o \in Ops, Validate(o) PROVE StuckInv'
<1>0. "validate" \in Held /\ AfterValidate(o) \in {"deleting", "commitIntent"}
  BY DEF Held, Late, AfterValidate
<1>1. CASE /\ Verified(o) /\ payload[o] = "none" /\ root = "project"
           /\ payload' = [payload EXCEPT ![o] = root] /\ root' = "none"
           /\ FileStep(o, "validate", AfterValidate(o)) /\ UNCHANGED <<wrapper, destroyed>>
  BY <1>0, <1>1, MoveInStuck
<1>2. CASE /\ Verified(o) /\ payload[o] = "project"
           /\ FileStep(o, "validate", AfterValidate(o)) /\ UNCHANGED files
  <2>1. PICK onward \in {"deleting", "commitIntent"} : FileStep(o, "validate", onward)
    BY <1>0, <1>2
  <2>2. /\ onward \in PCs
        /\ onward \notin {"begin", "lock", "finish", "cancelled", "dropWrapper", "dropOwner"}
    BY DEF PCs
  <2>3. pc'[o] = onward /\ UNCHANGED <<row, wrapper, payload>>
    BY <1>2, <2>1, <2>2, GotoStep DEF FileStep, store, files
  <2>4. QuietOp(o)'
    BY <1>2, <2>3 DEF QuietOp, Stuck, Verified
  <2> QED
    BY <1>0, <1>2, <2>1, <2>2, <2>4, StuckMove
<1>3. CASE /\ ~Verified(o) \/ payload[o] = "other" \/ (payload[o] = "none" /\ root # "project")
           /\ FileStep(o, "validate", "fail") /\ UNCHANGED files
  <2>1. pc[o] = "validate" /\ pc'[o] = "fail" /\ UNCHANGED <<row, wrapper, payload, destroyed, crashes>>
    BY <1>3, GotoStep DEF FileStep, At, PCs, store, files, bounds
  <2>2. ASSUME Quiet, ~row[o].cancel PROVE QuietOp(o)'
    <3>1. QuietWorld /\ QuietOp(o)
      BY <2>2 DEF StuckInv
    <3>2. crashes > 0 /\ Lost(o)
      BY <1>3, <2>1, <3>1 DEF QuietOp, QuietWorld, Lost, Verified
    <3>3. Lost(o)'
      BY <2>1, <3>2 DEF Lost
    <3> QED
      BY <2>1, <3>2, <3>3 DEF QuietOp, Stuck
  <2> QED
    BY <1>0, <1>3, <2>2, StuckMove DEF PCs
<1> QED
  BY <1>1, <1>2, <1>3 DEF Validate

LEMMA CommitStuck == ASSUME IInv, StuckInv, NEW o \in Ops, Commit(o) PROVE StuckInv'
<1>0. pc[o] = "commit" /\ "commit" \in Held /\ TaskInv(o) /\ OpInv(o)
  BY DEF Commit, At, StuckInv, IInv, Held, Late
<1>1. CASE row[o].state = "running" /\ (project = planRev[o] \/ deletedEvent)
  <2>1. /\ SetPhase(o, "state_committed") /\ Goto(o, "deleting")
        /\ project' \in {0, project} /\ deletedEvent' = TRUE /\ "deleting" \in PCs
        /\ UNCHANGED <<planRev, root, wrapper, payload, destroyed, daemon, lock, bounds>>
    BY <1>1 DEF Commit, files, PCs
  <2>2. /\ row'[o].state = "running" /\ row'[o].phase = "state_committed"
        /\ row'[o].cancel = row[o].cancel /\ pc'[o] = "deleting"
        /\ \A a \in Ops \ {o} : row'[a] = row[a]
    BY <1>1, <2>1, GotoStep DEF SetPhase, IInv, TypeOK
  <2>3. TaskInv(o)'
    BY <1>0, <1>1, <2>1, <2>2 DEF TaskInv
  <2>4. Quiet => QuietWorld'
    BY <2>1 DEF StuckInv, QuietWorld
  <2>5. Quiet => row'[o].cancel \/ QuietOp(o)'
    BY <1>0, <2>1, <2>2 DEF StuckInv, QuietOp, Stuck
  <2> QED
    BY <2>1, <2>2, <2>3, <2>4, <2>5, StuckStep
<1>2. CASE ~(row[o].state = "running" /\ (project = planRev[o] \/ deletedEvent))
  <2>1. FileStep(o, "commit", "fail") /\ UNCHANGED files
    BY <1>2 DEF Commit, FileStep, At, store
  <2>2. ASSUME Quiet, ~row[o].cancel PROVE FALSE
    <3>1. row[o].state = "running"
      BY <1>0, <2>2 DEF OpInv, RowInv, TaskInv, Late
    <3>2. project # planRev[o] /\ ~deletedEvent /\ planRev[o] # 0
      BY <1>0, <1>2, <3>1 DEF TaskInv
    <3> QED
      BY <2>2, <3>2 DEF StuckInv, QuietWorld
  <2> QED
    BY <1>0, <2>1, <2>2, StuckMove DEF PCs
<1> QED
  BY <1>1, <1>2

LEMMA RemoveStuck == ASSUME IInv, StuckInv, NEW o \in Ops, Remove(o) PROVE StuckInv'
<1>0. pc[o] = "remove" /\ "remove" \in Held /\ TaskInv(o)
  BY DEF Remove, FileStep, At, StuckInv, Held, Late
<1>1. CASE /\ payload[o] = "project" /\ destroyed' = destroyed \cup {payload[o]}
           /\ FileStep(o, "remove", "removing") /\ UNCHANGED <<root, wrapper, payload>>
  <2>1. /\ Goto(o, "removing") /\ "removing" \in PCs
        /\ UNCHANGED <<row, planRev, project, deletedEvent, daemon, lock, bounds>>
    BY <1>1 DEF FileStep, store, PCs
  <2>2. pc'[o] = "removing"
    BY <2>1, GotoStep
  <2>3. TaskInv(o)' /\ QuietOp(o)'
    BY <1>0, <2>1, <2>2 DEF TaskInv, QuietOp, Stuck, bounds
  <2>4. Quiet => QuietWorld'
    BY <1>1, <2>1 DEF StuckInv, QuietWorld
  <2> QED
    BY <1>1, <2>1, <2>3, <2>4, StuckStep
<1>2. CASE ~Verified(o) \/ payload[o] # "project"
  <2>1. FileStep(o, "remove", "fail") /\ UNCHANGED files
    BY <1>2 DEF Remove
  <2>2. Quiet => row[o].cancel
    BY <1>0, <1>2 DEF StuckInv, QuietOp, Verified
  <2> QED
    BY <1>0, <2>1, <2>2, StuckMove DEF PCs
<1> QED
  BY <1>1, <1>2 DEF Remove

LEMMA RemoveLastStuck == ASSUME IInv, StuckInv, NEW o \in Ops, RemoveLast(o) PROVE StuckInv'
<1>1. /\ pc[o] = "removing" /\ TaskInv(o) /\ OpInv(o) /\ "disown" \in PCs
      /\ Goto(o, "disown") /\ payload' = [payload EXCEPT ![o] = "none"]
      /\ UNCHANGED <<row, planRev, project, deletedEvent, root, wrapper, destroyed,
                     daemon, lock, bounds>>
  BY DEF RemoveLast, FileStep, At, StuckInv, IInv, PCs, store
<1>2. destroyed # {}
  BY <1>1 DEF OpInv, FileInv
<1>3. pc'[o] = "disown"
  BY <1>1, GotoStep
<1>4. payload'[o] = "none" /\ \A a \in Ops \ {o} : payload'[a] = payload[a]
  BY <1>1 DEF IInv, TypeOK
<1>5. TaskInv(o)' /\ QuietOp(o)'
  BY <1>1, <1>3 DEF TaskInv, QuietOp, Stuck, Held, Late, bounds
<1>6. Quiet => QuietWorld'
  BY <1>1, <1>2, <1>4 DEF StuckInv, QuietWorld
<1> QED
  BY <1>1, <1>2, <1>4, <1>5, <1>6, StuckStep

LEMMA DropStuck ==
    ASSUME IInv, StuckInv, NEW o \in Ops,
           \/ Disown(o)
           \/ DropWrapper(o, "unwrap", "cleaned")
           \/ DropWrapper(o, "dropWrapper", "cancelled")
           \/ DropWrapper(o, "backOutWrapper", "fail")
    PROVE  StuckInv'
<1>1. PICK here \in {"disown", "unwrap", "dropWrapper", "backOutWrapper"},
           onward \in {"unwrap", "cleaned", "cancelled", "fail"}, w \in {"none", "bare"} :
          /\ FileStep(o, here, onward) /\ wrapper' = [wrapper EXCEPT ![o] = w]
          /\ UNCHANGED <<root, payload, destroyed>>
          /\ onward = "cancelled" => here = "dropWrapper"
          /\ onward = "fail" => here = "backOutWrapper"
  BY DEF Disown, DropWrapper
<1>2. /\ onward \in PCs /\ here \in Held /\ w \in {"none", "bare", "owned"}
      /\ onward \notin {"begin", "lock", "finish", "dropOwner", "dropWrapper"}
  BY DEF PCs, Held, Early, Late
<1>3. pc[o] = here /\ pc'[o] = onward /\ row' = row
  BY <1>1, <1>2, GotoStep DEF FileStep, At, store
<1>4. onward = "cancelled" => row[o].cancel
  BY <1>1, <1>3 DEF StuckInv, TaskInv
<1>5. onward = "fail" => ~PastIntent(o)'
  BY <1>1, <1>3 DEF IInv, OpInv, RowInv, PastIntent, AfterIntent, Early
<1>6. QuietOp(o)'
  BY <1>3, <1>5 DEF QuietOp, Stuck
<1> QED
  BY <1>1, <1>2, <1>4, <1>6, StuckWrapper

LEMMA DropOwnerStuck ==
    ASSUME IInv, StuckInv, NEW o \in Ops,
           DropOwner(o, "dropOwner", "dropWrapper") \/ DropOwner(o, "backOut", "backOutWrapper")
    PROVE  StuckInv'
<1>1. PICK here \in {"dropOwner", "backOut"}, onward \in {"dropWrapper", "backOutWrapper"} :
          DropOwner(o, here, onward) /\ (onward = "dropWrapper" => here = "dropOwner")
  OBVIOUS
<1>2. CASE FileStep(o, here, "fail") /\ UNCHANGED files
  BY <1>2, EarlyFails DEF Early
<1>3. CASE /\ wrapper' = [wrapper EXCEPT ![o] = "bare"] /\ FileStep(o, here, onward)
           /\ UNCHANGED <<root, payload, destroyed>>
  <2>1. /\ onward \in PCs /\ here \in Held
        /\ onward \notin {"begin", "lock", "finish", "dropOwner", "cancelled"}
    BY DEF PCs, Held, Early
  <2>2. pc[o] = here /\ pc'[o] = onward
    BY <1>3, <2>1, GotoStep DEF FileStep, At
  <2>3. onward = "dropWrapper" => row[o].cancel
    BY <1>1, <2>2 DEF StuckInv, TaskInv
  <2>4. QuietOp(o)'
    BY <2>2 DEF QuietOp, Stuck
  <2> QED
    BY <1>3, <2>1, <2>3, <2>4, StuckWrapper
<1> QED
  BY <1>1, <1>2, <1>3 DEF DropOwner

\* A task that ends, given that its Operation is over or stuck for a reason.
LEMMA EndStuck ==
    ASSUME IInv, StuckInv, NEW o \in Ops, EndTask(o),
           UNCHANGED <<planRev, project, deletedEvent, files, daemon, bounds>>,
           \A a \in Ops \ {o} : row'[a] = row[a],
           row[o].state = "absent" => row'[o].state = "absent",
           row'[o].state = "cancelling" => row'[o].cancel,
           ~Live(o)' \/ (Quiet /\ ~row'[o].cancel => PastIntent(o)' /\ crashes > 0 /\ Lost(o))
    PROVE  StuckInv'
<1>1. pc'[o] = "idle" /\ "idle" \in PCs /\ Goto(o, "idle")
      /\ UNCHANGED <<root, wrapper, payload, destroyed>>
      /\ (lock' = lock \/ lock = o)
  BY EndTaskStep DEF EndTask, PCs, files
<1>2. TaskInv(o)'
  BY <1>1 DEF StuckInv, TaskInv, Held, Early, Late
<1>3. Quiet => QuietWorld'
  BY <1>1, WorldKept DEF StuckInv
<1>4. Lost(o) => Lost(o)'
  BY <1>1 DEF Lost
<1>5. Quiet => row'[o].cancel \/ QuietOp(o)'
  BY <1>1, <1>4 DEF QuietOp, Stuck, bounds
<1> QED
  BY <1>1, <1>2, <1>3, <1>5, StuckStep

LEMMA FinishStuck == ASSUME IInv, StuckInv, NEW o \in Ops, Finish(o) PROVE StuckInv'
<1>0. pc[o] = "finish" /\ "finish" \in Held /\ TaskInv(o) /\ OpInv(o)
  BY DEF Finish, At, StuckInv, IInv, Held
<1>1. CASE row[o].state = "running" /\ row[o].phase = "cleanup_complete"
  <2>1. SetState(o, "succeeded") /\ EndTask(o)
        /\ UNCHANGED <<planRev, project, deletedEvent, files, daemon, bounds>>
    BY <1>1 DEF Finish
  <2>2. row'[o].state = "succeeded" /\ \A a \in Ops \ {o} : row'[a] = row[a]
    BY <2>1, StateStep DEF States, Terminal
  <2>3. ~Live(o)'
    BY <2>2 DEF Live, Terminal
  <2> QED
    BY <1>1, <2>1, <2>2, <2>3, EndStuck
<1>2. CASE ~(row[o].state = "running" /\ row[o].phase = "cleanup_complete")
  <2>1. FileStep(o, "finish", "fail") /\ UNCHANGED files
    BY <1>2 DEF Finish, FileStep, At, store
  <2>2. row[o].cancel
    BY <1>0, <1>2 DEF OpInv, RowInv, TaskInv
  <2> QED
    BY <1>0, <2>1, <2>2, StuckMove DEF PCs
<1> QED
  BY <1>1, <1>2

LEMMA FinishCancelledStuck ==
    ASSUME IInv, StuckInv, NEW o \in Ops, FinishCancelled(o) PROVE StuckInv'
<1>0. pc[o] = "cancelled" /\ "cancelled" \in Early /\ OpInv(o)
  BY DEF FinishCancelled, At, IInv, Early
<1>1. row[o].state \in {"running", "cancelling", "recovering"} /\ ~PastIntent(o)
  BY <1>0 DEF OpInv, RowInv, PastIntent, AfterIntent
<1>2. SetState(o, "cancelled") /\ EndTask(o)
      /\ UNCHANGED <<planRev, project, deletedEvent, files, daemon, bounds>>
  BY <1>1 DEF FinishCancelled
<1>3. row'[o].state = "cancelled" /\ \A a \in Ops \ {o} : row'[a] = row[a]
  BY <1>2, StateStep DEF States, Terminal
<1>4. ~Live(o)'
  BY <1>3 DEF Live, Terminal
<1> QED
  BY <1>1, <1>2, <1>3, <1>4, EndStuck

LEMMA FailStuck == ASSUME IInv, StuckInv, NEW o \in Ops, Fail(o) PROVE StuckInv'
<1>0. /\ pc[o] = "fail" /\ EndTask(o)
      /\ UNCHANGED <<planRev, project, deletedEvent, files, daemon, bounds>>
  BY DEF Fail, At
<1>1. CASE ~Live(o)
  <2>1. row' = row
    BY <1>1 DEF Fail
  <2>2. row[o].state = "cancelling" => row[o].cancel
    BY DEF StuckInv, TaskInv
  <2> QED
    BY <1>0, <1>1, <2>1, <2>2, EndStuck DEF Live
<1>2. CASE Live(o) /\ PastIntent(o)
  <2>1. row' = [row EXCEPT ![o] = [state  |-> "recovering", phase  |-> "recovery_required",
                                   cancel |-> row[o].cancel]]
    BY <1>2 DEF Fail
  <2>2. /\ row'[o].state = "recovering" /\ row'[o].phase = "recovery_required"
        /\ row'[o].cancel = row[o].cancel
        /\ \A a \in Ops \ {o} : row'[a] = row[a]
    BY <2>1 DEF IInv, TypeOK
  <2>3. Quiet /\ ~row'[o].cancel => PastIntent(o)' /\ crashes > 0 /\ Lost(o)
    BY <1>0, <1>2, <2>2 DEF StuckInv, QuietOp, PastIntent, AfterIntent
  <2> QED
    BY <1>0, <1>2, <2>2, <2>3, EndStuck DEF Live
<1>3. CASE Live(o) /\ ~PastIntent(o)
  <2>1. SetState(o, "failed")
    BY <1>3 DEF Fail, SetState
  <2>2. row'[o].state = "failed" /\ \A a \in Ops \ {o} : row'[a] = row[a]
    BY <2>1, StateStep DEF States, Terminal
  <2>3. ~Live(o)'
    BY <2>2 DEF Live, Terminal
  <2> QED
    BY <1>0, <1>3, <2>2, <2>3, EndStuck DEF Live
<1> QED
  BY <1>1, <1>2, <1>3

\* After a mishap that is a reason by itself only the tasks have to be in order.
LEMMA NoisyStuck ==
    ASSUME StuckInv, ~Quiet', daemon' = daemon, crashes' = crashes, \A a \in Ops : TaskInv(a)'
    PROVE  StuckInv'
BY DEF StuckInv

LEMMA FaultStuck == ASSUME IInv, StuckInv, NEW o \in Ops, Fault(o) PROVE StuckInv'
<1>1. PICK onward \in {"idle", "fail"} : Goto(o, onward)
  BY DEF Fault, EndTask
<1>2. pc'[o] = onward /\ \A a \in Ops \ {o} : pc'[a] = pc[a]
  BY <1>1, GotoStep DEF PCs
<1>3. /\ UNCHANGED <<row, planRev, daemon, crashes>>
      /\ faults' = faults + 1 /\ faults \in Nat
      /\ (lock' = lock \/ lock = o)
  BY DEF Fault, EndTask, IInv, TypeOK, store
<1>4. ~Quiet'
  BY <1>3 DEF Quiet
<1>5. TaskInv(o)'
  BY <1>2, <1>3 DEF StuckInv, TaskInv, Held, Early, Late
<1>6. ASSUME NEW a \in Ops \ {o} PROVE TaskInv(a)'
  BY <1>2, <1>3, <1>6 DEF StuckInv, TaskInv
<1> QED
  BY <1>3, <1>4, <1>5, <1>6, NoisyStuck

LEMMA WorkerStuck == ASSUME IInv, StuckInv, NEW o \in Ops, WorkerStep(o) PROVE StuckInv'
BY BeginStuck, AcquireStuck, MakeStuck, OwnStuck, RefuseStuck, LookStuck, CheckStuck,
   CheckpointsStuck, RenameStuck, MovedStuck, ValidateStuck, CommitStuck, RemoveStuck,
   RemoveLastStuck, DropStuck, DropOwnerStuck, FinishStuck, FinishCancelledStuck, FailStuck
   DEF WorkerStep, CheckpointStep

LEMMA PlanStuck == ASSUME IInv, StuckInv, NEW o \in Ops, Plan(o) PROVE StuckInv'
<1>1. /\ planRev[o] = 0 /\ project # 0 /\ planRev'[o] = project
      /\ \A a \in Ops \ {o} : planRev'[a] = planRev[a]
      /\ UNCHANGED <<row, project, deletedEvent, root, wrapper, payload, destroyed, daemon, pc,
                     lock, bounds>>
  BY DEF Plan, IInv, TypeOK, files
<1>2. ASSUME NEW a \in Ops PROVE TaskInv(a)'
  <2>1. row[a].state # "absent" => planRev'[a] # 0
    BY <1>1 DEF StuckInv, TaskInv
  <2> QED
    BY <1>1, <2>1 DEF StuckInv, TaskInv, bounds
<1>3. Quiet => QuietWorld'
  BY <1>1 DEF StuckInv, QuietWorld
<1>4. ASSUME Quiet, NEW a \in Ops PROVE row'[a].cancel \/ QuietOp(a)'
  BY <1>1, <1>4 DEF StuckInv, QuietOp, Stuck, Lost, Live, PastIntent, bounds
<1> QED
  BY <1>1, <1>2, <1>3, <1>4 DEF StuckInv, Quiet, bounds

LEMMA ApplyStuck == ASSUME IInv, StuckInv, NEW o \in Ops, Apply(o) PROVE StuckInv'
<1>1. /\ SetState(o, "queued") /\ Goto(o, "begin") /\ "begin" \in PCs
      /\ planRev[o] # 0 /\ row[o].phase = "accepted"
      /\ UNCHANGED <<planRev, project, deletedEvent, root, wrapper, payload, destroyed, daemon,
                     lock, bounds>>
  BY DEF Apply, PCs, IInv, OpInv, RowInv, files
<1>2. /\ row'[o].state = "queued" /\ row'[o].phase = "accepted"
      /\ \A a \in Ops \ {o} : row'[a] = row[a]
  BY <1>1, StateStep DEF States
<1>3. pc'[o] = "begin"
  BY <1>1, GotoStep
<1>4. TaskInv(o)' /\ QuietOp(o)'
  BY <1>1, <1>2, <1>3 DEF TaskInv, QuietOp, Stuck, Held, Early, Late
<1>5. Quiet => QuietWorld'
  BY <1>1, WorldKept DEF StuckInv
<1> QED
  BY <1>1, <1>2, <1>4, <1>5, StuckStep

LEMMA CancelStuck == ASSUME IInv, StuckInv, NEW o \in Ops, Cancel(o) PROVE StuckInv'
<1>1. /\ row'[o].cancel /\ row'[o].phase = row[o].phase /\ row[o].state # "absent"
      /\ \A a \in Ops \ {o} : row'[a] = row[a]
      /\ UNCHANGED <<planRev, project, deletedEvent, root, wrapper, payload, destroyed, daemon,
                     pc, lock, bounds>>
  BY DEF Cancel, Live, IInv, TypeOK, files
<1>2. pc' = [pc EXCEPT ![o] = pc[o]] /\ pc[o] \in PCs
  BY <1>1 DEF IInv, TypeOK
<1>3. TaskInv(o)'
  BY <1>1 DEF StuckInv, TaskInv, bounds
<1>4. Quiet => QuietWorld'
  BY <1>1, WorldKept DEF StuckInv
<1> QED
  BY <1>1, <1>2, <1>3, <1>4, StuckStep DEF Goto

LEMMA OthersStuck == ASSUME IInv, StuckInv, Touch \/ Outside PROVE StuckInv'
<1>1. UNCHANGED <<row, planRev, daemon, pc, lock, crashes>> /\ ~Quiet'
  BY DEF Touch, Outside, IInv, TypeOK, Quiet, store
<1>2. \A a \in Ops : TaskInv(a)'
  BY <1>1 DEF StuckInv, TaskInv
<1> QED
  BY <1>1, <1>2, NoisyStuck

LEMMA CrashStuck == ASSUME IInv, StuckInv, Crash PROVE StuckInv'
<1>1. /\ UNCHANGED <<row, planRev, project, deletedEvent, root, wrapper, payload, destroyed,
                     faults, touches, outside>>
      /\ crashes' > 0 /\ daemon' = "down" /\ \A a \in Ops : pc'[a] = "idle"
  BY DEF Crash, IInv, TypeOK, store, files
<1>2. \A a \in Ops : TaskInv(a)'
  BY <1>1 DEF StuckInv, TaskInv, Held, Early, Late
<1>3. Quiet => QuietWorld'
  BY <1>1, WorldKept DEF StuckInv
<1>4. \A a \in Ops : QuietOp(a)'
  BY <1>1 DEF QuietOp, Stuck
<1> QED
  BY <1>1, <1>2, <1>3, <1>4 DEF StuckInv, Quiet

LEMMA StartStuck == ASSUME IInv, StuckInv, Start PROVE StuckInv'
<1>1. /\ UNCHANGED <<planRev, project, deletedEvent, root, wrapper, payload, destroyed, bounds>>
      /\ crashes > 0
      /\ \A a \in Ops :
            /\ row'[a].phase = row[a].phase /\ row'[a].cancel = row[a].cancel
            /\ row'[a].state = IF row[a].state = "running" THEN "recovering" ELSE row[a].state
            /\ pc'[a] = IF Recovered(a) THEN "begin" ELSE "idle"
  BY DEF Start, StuckInv, IInv, TypeOK, files
<1>2. \A a \in Ops : TaskInv(a)'
  BY <1>1 DEF StuckInv, TaskInv, Recovered, Held, Early, Late, bounds
<1>3. Quiet => QuietWorld'
  BY <1>1, WorldKept DEF StuckInv
<1>4. ASSUME NEW a \in Ops, ~row'[a].cancel PROVE QuietOp(a)'
  <2>1. row[a].state # "cancelling" /\ row[a].state \in States
    BY <1>1, <1>4 DEF StuckInv, TaskInv, IInv, TypeOK
  <2>2. ~Stuck(a)'
    BY <1>1, <2>1 DEF Stuck, Live, Recovered, States
  <2> QED
    BY <1>1, <2>2 DEF QuietOp
<1> QED
  BY <1>1, <1>2, <1>3, <1>4 DEF StuckInv, Quiet, bounds

LEMMA InitStuck == Init => StuckInv
<1>1. SUFFICES ASSUME Init PROVE StuckInv
  OBVIOUS
<1>2. \A a \in Ops : TaskInv(a) /\ QuietOp(a)
  BY <1>1 DEF Init, TaskInv, QuietOp, Stuck, Live, Held, Early, Late
<1>3. QuietWorld
  BY <1>1 DEF Init, QuietWorld
<1> QED
  BY <1>1, <1>2, <1>3 DEF Init, StuckInv

LEMMA NextStuck == ASSUME IInv, StuckInv, [Next]_vars PROVE StuckInv'
<1>1. CASE UNCHANGED vars
  BY <1>1 DEF vars, store, files, bounds, StuckInv, TaskInv, Quiet, QuietWorld, QuietOp, Stuck,
              Lost, Live, PastIntent
<1>2. CASE Next
  BY <1>2, WorkerStuck, FaultStuck, PlanStuck, ApplyStuck, CancelStuck, OthersStuck, CrashStuck,
     StartStuck DEF Next
<1> QED
  BY <1>1, <1>2

\* A deletion that a running daemon has given up is past its intent, and a death
\* left it something that no start can take up; unless a step failed, the deletion
\* was cancelled, or somebody else moved the row or the directory.
THEOREM StuckHasAReason == Spec => []StuckForAReason
<1>1. IInv /\ StuckInv => StuckForAReason
  <2>1. SUFFICES ASSUME IInv, StuckInv, NEW o \in Ops, Stuck(o), Quiet, ~row[o].cancel
                 PROVE  \/ crashes > 0 /\ PastIntent(o) /\ (destroyed # {} \/ wrapper[o] # "owned")
                        \/ \E p \in Ops \ {o} : payload[p] = "project"
    <3>1. ASSUME IInv, ~Quiet
          PROVE  faults > 0 \/ touches > 0 \/ outside > 0
      BY <3>1 DEF IInv, TypeOK, Quiet
    <3> QED
      BY <3>1 DEF StuckForAReason
  <2> QED
    BY <2>1 DEF StuckInv, QuietOp, Lost
<1>2. Init => IInv /\ StuckInv
  BY InitInv, InitStuck
<1>3. IInv /\ StuckInv /\ [Next]_vars => StuckInv'
  BY NextStuck
<1> QED
  BY <1>1, <1>2, <1>3, Invariance, PTL DEF Spec
=============================================================================
