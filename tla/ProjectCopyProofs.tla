--------------------------- MODULE ProjectCopyProofs ---------------------------
(***************************************************************************)
(* Theorems about ProjectCopy for every set of copies and any number of    *)
(* deaths, failing steps, saves in the source and changes of the target.   *)
(*                                                                         *)
(* The inductive invariant IInv has, for each copy, what its row says of   *)
(* the place of its worker (RowInv), when its registration is committed    *)
(* (RegInv), when it has no staging directory (ShellInv), and what is      *)
(* staged (SnapInv).  A copy is a snapshot because of Kept.  When the last *)
(* file is staged, either the first is still as staged, and the source is  *)
(* what is staged, or it was saved as something else; if it is never saved *)
(* back, the second reading finds the difference.                          *)
(***************************************************************************)
EXTENDS ProjectCopy, TLAPS

\* Places of a worker before and after the intent is journalled.
Early == {"make", "own", "inventoried", "look1", "toStage", "stage1", "stage2", "staged",
          "look2", "verify", "verify1", "verify2", "intent", "discard", "drop", "cancelled"}
Late  == {"publish", "published", "validate", "commitIntent", "commit", "cleanup",
          "unshell", "finish"}

\* Phases before the staging is complete, and places where it is not.
Unstaged  == {"accepted", "inventory_ready", "staging"}
Staging   == {"make", "own", "inventoried", "toStage", "stage1", "stage2", "staged"}

RowInv(o) ==
    /\ pc[o] \in Early \cup Late \cup {"lock"} => row[o].state \in {"running", "cancelling"}
    /\ pc[o] = "lock" => seen[o] = row[o].phase
    /\ pc[o] \in Early => row[o].phase \in Unstaged \cup {"staging_complete"}
    /\ pc[o] \in Staging => row[o].phase \in Unstaged /\ seen[o] # "staging_complete"
    /\ pc[o] = "look1" => (seen[o] = "staging_complete" <=> row[o].phase = "staging_complete")
    /\ pc[o] \in {"look2", "verify", "verify1", "verify2", "intent"}
          => row[o].phase = "staging_complete"
    /\ pc[o] \in Late => row[o].phase \in AfterIntent
    /\ row[o].state \in {"absent", "queued"} => row[o].phase = "accepted"
    /\ row[o].state \in {"failed", "cancelled"} => row[o].phase \notin AfterIntent

RegInv(o) ==
    /\ o \in registered => row[o].phase \in AfterIntent
    /\ \/ pc[o] \in {"cleanup", "unshell", "finish"}
       \/ row[o].phase = "state_committed" \/ seen[o] = "state_committed"
       \/ row[o].state = "succeeded"
       => o \in registered

ShellInv(o) ==
    \/ row[o].state \in {"absent", "queued", "cancelled", "succeeded"}
    \/ pc[o] \in {"cancelled", "finish"}
    => shell[o] = "none"

\* The source was what is staged at one moment, or the first file was saved back.
Whole(o) == moment[o] = payload[o] \/ o \in back

\* If neither, it is not as staged now.
Kept(o) == Whole(o) \/ source[1] # payload[o][1]

SnapInv(o) ==
    /\ pc[o] = "staged" \/ row[o].phase = "staging_complete"
          => Kept(o) /\ listing[o] = payload[o]
    /\ pc[o] \in {"verify2", "intent"} => Whole(o)
    /\ row[o].phase \in AfterIntent => Whole(o) \/ payload[o] = Nothing

OpInv(o) == RowInv(o) /\ RegInv(o) /\ ShellInv(o) /\ SnapInv(o)

TargetInv ==
    target.by \in Ops =>
        /\ target.what = moment[target.by] \/ target.by \in back
        /\ row[target.by].phase \in AfterIntent /\ payload[target.by] = Nothing

IInv == TypeOK /\ TargetInv /\ \A o \in Ops : OpInv(o)

\* What a step of o's worker leaves to the others.
OnlyItsOwn(o) ==
    /\ \A a \in Ops \ {o} :
          /\ row'[a] = row[a] /\ pc'[a] = pc[a] /\ seen'[a] = seen[a] /\ shell'[a] = shell[a]
          /\ payload'[a] = payload[a] /\ listing'[a] = listing[a]
          /\ moment'[a] = moment[a] /\ (a \in back' <=> a \in back)
          /\ a \in registered' <=> a \in registered
    /\ UNCHANGED source

-----------------------------------------------------------------------------
(* Helpers *)

LEMMA OwnStep ==
    ASSUME IInv, NEW o \in Ops, TypeOK', OpInv(o)', TargetInv', OnlyItsOwn(o)
    PROVE  IInv'
<1>1. ASSUME NEW a \in Ops \ {o} PROVE OpInv(a)'
  <2> USE <1>1 DEF OnlyItsOwn
  <2>1. RowInv(a)' /\ RegInv(a)' /\ ShellInv(a)'
    BY DEF IInv, OpInv, RowInv, RegInv, ShellInv
  <2>2. (Kept(a) => Kept(a)') /\ (Whole(a) => Whole(a)')
    BY DEF Kept, Whole
  <2>3. SnapInv(a)'
    BY <2>2 DEF IInv, OpInv, SnapInv
  <2> QED
    BY <2>1, <2>3 DEF OpInv
<1> QED
  BY <1>1 DEF IInv

RowType == [state : States, phase : Phases, cancel : BOOLEAN, known : BOOLEAN]

LEMMA RowStep ==
    ASSUME IInv, NEW o \in Ops, NEW s \in States, NEW p \in Phases, NEW c \in BOOLEAN,
           NEW k \in BOOLEAN, SetRow(o, s, p, c, k)
    PROVE  /\ row' \in [Ops -> RowType]
           /\ row'[o].state = s /\ row'[o].phase = p
           /\ \A a \in Ops \ {o} : row'[a] = row[a]
BY DEF IInv, TypeOK, SetRow, RowType

LEMMA RowIsTyped ==
    ASSUME IInv, NEW o \in Ops
    PROVE  /\ row[o].state \in States /\ row[o].phase \in Phases
           /\ row[o].cancel \in BOOLEAN /\ row[o].known \in BOOLEAN
BY DEF IInv, TypeOK

LEMMA StateStep ==
    ASSUME IInv, NEW o \in Ops, NEW s \in States, SetState(o, s)
    PROVE  /\ row' \in [Ops -> RowType]
           /\ row'[o].state = s /\ row'[o].phase = row[o].phase
           /\ \A a \in Ops \ {o} : row'[a] = row[a]
BY RowStep, RowIsTyped DEF SetState

LEMMA PhaseStep ==
    ASSUME IInv, NEW o \in Ops, NEW p \in Phases, SetPhase(o, p)
    PROVE  /\ row' \in [Ops -> RowType]
           /\ row'[o].state = row[o].state /\ row'[o].phase = p
           /\ \A a \in Ops \ {o} : row'[a] = row[a]
BY RowStep, RowIsTyped DEF SetPhase

\* The rows that finish and fail leave past the intent.
LEMMA SucceededRow ==
    ASSUME IInv, NEW o \in Ops,
           SetRow(o, "succeeded", "cleanup_complete", row[o].cancel, row[o].known)
    PROVE  /\ row' \in [Ops -> RowType]
           /\ row'[o].state = "succeeded" /\ row'[o].phase = "cleanup_complete"
           /\ \A a \in Ops \ {o} : row'[a] = row[a]
<1>1. "succeeded" \in States /\ "cleanup_complete" \in Phases
  BY DEF States, Terminal, Phases, AfterIntent
<1> QED
  BY <1>1, RowStep, RowIsTyped

LEMMA RecoveringRow ==
    ASSUME IInv, NEW o \in Ops,
           SetRow(o, "recovering", "recovery_required", row[o].cancel, row[o].known)
    PROVE  /\ row' \in [Ops -> RowType]
           /\ row'[o].state = "recovering" /\ row'[o].phase = "recovery_required"
           /\ \A a \in Ops \ {o} : row'[a] = row[a]
<1>1. "recovering" \in States /\ "recovery_required" \in Phases
  BY DEF States, Phases, AfterIntent
<1> QED
  BY <1>1, RowStep, RowIsTyped

LEMMA GotoStep ==
    ASSUME IInv, NEW o \in Ops, NEW where \in PCs, Goto(o, where)
    PROVE  /\ pc' \in [Ops -> PCs] /\ pc'[o] = where
           /\ \A a \in Ops \ {o} : pc'[a] = pc[a]
BY DEF IInv, TypeOK, Goto

LEMMA EndTaskStep ==
    ASSUME IInv, NEW o \in Ops, EndTask(o)
    PROVE  /\ pc' \in [Ops -> PCs] /\ pc'[o] = "idle"
           /\ seen' \in [Ops -> Phases] /\ seen'[o] = "accepted"
           /\ lock' \in Ops \cup {None}
           /\ \A a \in Ops \ {o} : pc'[a] = pc[a] /\ seen'[a] = seen[a]
<1>1. "idle" \in PCs /\ "accepted" \in Phases
  BY DEF PCs, Phases
<1> QED
  BY <1>1, GotoStep DEF IInv, TypeOK, EndTask

\* A step of the worker that fails or is refused leaves everything for fail.
LEMMA FailsInv ==
    ASSUME IInv, NEW o \in Ops, Goto(o, "fail"),
           UNCHANGED <<store, files, daemon, seen, lock>>,
           mishaps' \in Nat
    PROVE  IInv'
<1> USE DEF store, files, past
<1>1. /\ pc' \in [Ops -> PCs] /\ pc'[o] = "fail"
      /\ \A a \in Ops \ {o} : pc'[a] = pc[a]
  BY GotoStep DEF PCs
<1>2. TypeOK'
  BY <1>1 DEF IInv, TypeOK
<1>3. (Kept(o) => Kept(o)') /\ (Whole(o) => Whole(o)')
  BY DEF Kept, Whole
<1>4. OpInv(o)'
  BY <1>1, <1>3 DEF IInv, OpInv, RowInv, RegInv, ShellInv, SnapInv, Early, Late, Staging
<1>5. TargetInv' /\ OnlyItsOwn(o)
  BY <1>1 DEF IInv, TargetInv, OnlyItsOwn
<1> QED
  BY <1>2, <1>4, <1>5, OwnStep

-----------------------------------------------------------------------------
LEMMA InitInv == Init => IInv
<1>1. SUFFICES ASSUME Init PROVE IInv
  OBVIOUS
<1>2. Files = 1..2
  BY CopyAssumption
<1>3. TypeOK
  BY <1>1 DEF Init, TypeOK, States, Phases, PCs, Content, Partial, Nothing, Free
<1>4. \A o \in Ops : OpInv(o)
  BY <1>1 DEF Init, OpInv, RowInv, RegInv, ShellInv, SnapInv, Kept, Whole, Early, Late, Staging,
     AfterIntent
<1>5. TargetInv
  BY <1>1, CopyAssumption DEF Init, TargetInv, Free
<1> QED
  BY <1>3, <1>4, <1>5 DEF IInv

LEMMA StutterInv == IInv /\ UNCHANGED vars => IInv'
BY DEF IInv, TypeOK, TargetInv, OpInv, RowInv, RegInv, ShellInv, SnapInv, Kept, Whole, vars, store,
       files, past

-----------------------------------------------------------------------------
(* Requests, the world outside and the daemon process *)

LEMMA ApplyInv == ASSUME IInv, NEW o \in Ops, Apply(o) PROVE IInv'
<1> USE DEF files, past
<1>1. /\ row' \in [Ops -> RowType]
      /\ row'[o].state = "queued" /\ row'[o].phase = row[o].phase
      /\ \A a \in Ops \ {o} : row'[a] = row[a]
  BY StateStep DEF Apply, States
<1>2. /\ pc' \in [Ops -> PCs] /\ pc'[o] = "begin"
      /\ \A a \in Ops \ {o} : pc'[a] = pc[a]
  BY GotoStep DEF Apply, PCs
<1>3. TypeOK'
  BY <1>1, <1>2 DEF IInv, TypeOK, Apply, RowType
<1>4. (Kept(o) => Kept(o)') /\ (Whole(o) => Whole(o)')
  BY DEF Kept, Whole, Apply
<1>5. OpInv(o)'
  BY <1>1, <1>2, <1>4
     DEF IInv, OpInv, RowInv, RegInv, ShellInv, SnapInv, Apply, Early, Late, Staging, AfterIntent
<1>6. TargetInv' /\ OnlyItsOwn(o)
  BY <1>1, <1>2 DEF IInv, TargetInv, OnlyItsOwn, Apply
<1> QED
  BY <1>3, <1>5, <1>6, OwnStep

LEMMA CancelInv == ASSUME IInv, NEW o \in Ops, Cancel(o) PROVE IInv'
<1> USE DEF files, past
<1> DEFINE s == IF row[o].state = "queued" THEN "cancelled" ELSE "cancelling"
<1>1. /\ row' \in [Ops -> RowType]
      /\ row'[o].state = s /\ row'[o].phase = row[o].phase
      /\ \A a \in Ops \ {o} : row'[a] = row[a]
  <2>1. s \in States /\ SetRow(o, s, row[o].phase, TRUE, row[o].known)
    BY DEF Cancel, States, Terminal
  <2> HIDE DEF s
  <2> QED
    BY <2>1 DEF SetRow, IInv, TypeOK, RowType
<1>2. row[o].phase \notin AfterIntent /\ OpInv(o) /\ Live(o)
  BY DEF Cancel, PastIntent, IInv
<1>3. TypeOK'
  BY <1>1 DEF IInv, TypeOK, Cancel, RowType
<1>4. (Kept(o) => Kept(o)') /\ (Whole(o) => Whole(o)')
  BY DEF Kept, Whole, Cancel
<1>5. RowInv(o)' /\ RegInv(o)'
  BY <1>1, <1>2 DEF OpInv, RowInv, RegInv, Cancel, AfterIntent, Live
<1>6. ShellInv(o)' /\ SnapInv(o)'
  BY <1>1, <1>2, <1>4 DEF OpInv, ShellInv, SnapInv, Cancel
<1>7. TargetInv' /\ OnlyItsOwn(o)
  BY <1>1 DEF IInv, TargetInv, OnlyItsOwn, Cancel
<1> QED
  BY <1>3, <1>5, <1>6, <1>7, OwnStep DEF OpInv

LEMMA EditInv == ASSUME IInv, Edit PROVE IInv'
<1> USE DEF store
<1>1. source' \in Content /\ source'[1] # None
  BY CopyAssumption DEF Edit, Content
<1>2. /\ moment' \in [Ops -> Partial] /\ back' \subseteq Ops /\ back \subseteq back'
      /\ \A a \in Ops : /\ payload[a] = source' => moment'[a] = payload[a]
                        /\ payload[a] # source' => moment'[a] = moment[a]
                        /\ payload[a][1] # source[1] /\ payload[a][1] = source'[1] => a \in back'
  BY <1>1 DEF IInv, TypeOK, Edit, Content, Partial
<1>3. TypeOK'
  BY <1>1, <1>2 DEF IInv, TypeOK, Edit
<1>4. \A a \in Ops : (Kept(a) => Kept(a)') /\ (Whole(a) => Whole(a)')
  BY <1>2 DEF Kept, Whole, Edit
<1>5. \A a \in Ops : OpInv(a)'
  BY <1>4 DEF IInv, OpInv, RowInv, RegInv, ShellInv, SnapInv, Edit
<1>6. TargetInv'
  <2>1. Nothing # source'
    BY <1>1, CopyAssumption DEF Nothing
  <2> QED
    BY <1>2, <2>1 DEF IInv, TargetInv, Edit
<1> QED
  BY <1>3, <1>5, <1>6 DEF IInv

LEMMA MeddleInv == ASSUME IInv, Meddle PROVE IInv'
<1> USE DEF past
<1>1. /\ target' \in [by : Ops \cup {None, "other"}, what : Partial]
      /\ target'.by \notin Ops \/ UNCHANGED target
  <2>1. target \in [by : Ops \cup {None, "other"}, what : Partial]
    BY DEF IInv, TypeOK
  <2>2. /\ Free \in [by : Ops \cup {None, "other"}, what : Partial] /\ Free.by = None
        /\ [Free EXCEPT !.by = "other"] \in [by : Ops \cup {None, "other"}, what : Partial]
        /\ [Free EXCEPT !.by = "other"].by = "other"
    BY DEF Free, Nothing, Partial
  <2>3. target' \in {Free, [Free EXCEPT !.by = "other"], target}
    BY DEF Meddle
  <2> QED
    BY <2>1, <2>2, <2>3, CopyAssumption
<1>2. registry' \in Ops \cup {None, "client"}
  BY DEF IInv, TypeOK, Meddle
<1>3. TypeOK'
  BY <1>1, <1>2 DEF IInv, TypeOK, Meddle, Mishap
<1>4. \A a \in Ops : (Kept(a) => Kept(a)') /\ (Whole(a) => Whole(a)')
  BY DEF Kept, Whole, Meddle
<1>5. \A a \in Ops : OpInv(a)'
  BY <1>4 DEF IInv, OpInv, RowInv, RegInv, ShellInv, SnapInv, Meddle
<1>6. TargetInv'
  BY <1>1 DEF IInv, TargetInv, Meddle
<1> QED
  BY <1>3, <1>5, <1>6 DEF IInv

LEMMA CrashInv == ASSUME IInv, Crash PROVE IInv'
<1> USE DEF store, files, past
<1>1. TypeOK'
  BY DEF IInv, TypeOK, Crash, Mishap, PCs, Phases
<1>2. \A a \in Ops : pc'[a] = "idle" /\ seen'[a] = "accepted"
  BY DEF Crash
<1>3. \A a \in Ops : (Kept(a) => Kept(a)') /\ (Whole(a) => Whole(a)')
  BY DEF Kept, Whole, Crash
<1>4. \A a \in Ops : OpInv(a)'
  BY <1>2, <1>3 DEF IInv, OpInv, RowInv, RegInv, ShellInv, SnapInv, Crash, Early, Late, Staging
<1>5. TargetInv'
  BY DEF IInv, TargetInv, Crash
<1> QED
  BY <1>1, <1>4, <1>5 DEF IInv

LEMMA StartInv == ASSUME IInv, Start PROVE IInv'
<1> USE DEF files, past
<1>1. \A a \in Ops : /\ pc'[a] \in {"begin", "idle"}
                     /\ row'[a].phase = row[a].phase
                     /\ row'[a].state = IF row[a].state = "running" THEN "recovering"
                                        ELSE row[a].state
  <2> SUFFICES ASSUME NEW a \in Ops
               PROVE  /\ pc'[a] \in {"begin", "idle"} /\ row'[a].phase = row[a].phase
                      /\ row'[a].state = IF row[a].state = "running" THEN "recovering"
                                         ELSE row[a].state
    OBVIOUS
  <2>1. /\ pc'[a] \in {"begin", "idle"}
        /\ row'[a] = IF row[a].state = "running" THEN [row[a] EXCEPT !.state = "recovering"]
                     ELSE row[a]
    BY DEF Start
  <2>2. row[a] \in [state : States, phase : Phases, cancel : BOOLEAN, known : BOOLEAN]
    BY DEF IInv, TypeOK
  <2> QED
    BY <2>1, <2>2
<1>2. TypeOK'
  <2>1. row' \in [Ops -> [state : States, phase : Phases, cancel : BOOLEAN, known : BOOLEAN]]
    <3>1. ASSUME NEW a \in Ops
          PROVE  row'[a] \in [state : States, phase : Phases, cancel : BOOLEAN, known : BOOLEAN]
      <4>1. row[a] \in [state : States, phase : Phases, cancel : BOOLEAN, known : BOOLEAN]
        BY DEF IInv, TypeOK
      <4>2. row'[a] \in {row[a], [row[a] EXCEPT !.state = "recovering"]}
        BY DEF Start
      <4> QED
        BY <4>1, <4>2 DEF States
    <3> QED
      BY <3>1 DEF Start
  <2>2. pc' \in [Ops -> PCs]
    BY DEF Start, PCs
  <2> QED
    BY <2>1, <2>2 DEF IInv, TypeOK, Start
<1>3. \A a \in Ops : (Kept(a) => Kept(a)') /\ (Whole(a) => Whole(a)')
  BY DEF Kept, Whole, Start
<1>4. \A a \in Ops : OpInv(a)'
  BY <1>1, <1>3 DEF IInv, OpInv, RowInv, RegInv, ShellInv, SnapInv, Start, Early, Late, Staging
<1>5. TargetInv'
  BY <1>1 DEF IInv, TargetInv, Start
<1> QED
  BY <1>2, <1>4, <1>5 DEF IInv

-----------------------------------------------------------------------------
(* The worker *)

LEMMA BeginInv == ASSUME IInv, NEW o \in Ops, Begin(o) PROVE IInv'
<1> USE DEF files, past
<1>1. CASE row[o].state \in {"queued", "recovering", "running"}
  <2>1. /\ row' \in [Ops -> RowType]
        /\ row'[o].state = "running" /\ row'[o].phase = row[o].phase
        /\ \A a \in Ops \ {o} : row'[a] = row[a]
    BY <1>1, StateStep DEF Begin, States
  <2>2. /\ pc' \in [Ops -> PCs] /\ pc'[o] = "lock"
        /\ \A a \in Ops \ {o} : pc'[a] = pc[a]
    BY <1>1, GotoStep DEF Begin, PCs
  <2>3. /\ seen' \in [Ops -> Phases] /\ seen'[o] = row[o].phase
        /\ \A a \in Ops \ {o} : seen'[a] = seen[a]
    BY <1>1 DEF Begin, IInv, TypeOK
  <2>4. TypeOK'
    BY <2>1, <2>2, <2>3 DEF IInv, TypeOK, Begin, RowType
  <2>5. (Kept(o) => Kept(o)') /\ (Whole(o) => Whole(o)')
    BY DEF Kept, Whole, Begin
  <2>6. OpInv(o)'
    BY <1>1, <2>1, <2>2, <2>3, <2>5
       DEF IInv, OpInv, RowInv, RegInv, ShellInv, SnapInv, Begin, Early, Late, Staging
  <2>7. TargetInv' /\ OnlyItsOwn(o)
    BY <2>1, <2>2, <2>3 DEF IInv, TargetInv, OnlyItsOwn, Begin
  <2> QED
    BY <2>4, <2>6, <2>7, OwnStep
<1>2. CASE row[o].state \notin {"queued", "recovering", "running"}
  BY <1>2, FailsInv DEF Begin, IInv, TypeOK, store
<1> QED
  BY <1>1, <1>2

LEMMA AcquireInv == ASSUME IInv, NEW o \in Ops, Acquire(o) PROVE IInv'
<1> USE DEF store, files, past
<1>1. seen[o] = row[o].phase /\ row[o].phase \in Phases /\ pc[o] = "lock" /\ OpInv(o)
  BY DEF Acquire, At, IInv, TypeOK, OpInv, RowInv
<1>2. /\ Entry(seen[o]) \in {"make", "look1", "publish", "validate"}
      /\ Entry(seen[o]) = "make" => row[o].phase = "accepted"
      /\ Entry(seen[o]) = "look1" => row[o].phase \in Unstaged \cup {"staging_complete"}
      /\ Entry(seen[o]) \in {"publish", "validate"} => row[o].phase \in AfterIntent
  BY <1>1 DEF Entry, Phases, Unstaged, AfterIntent
<1>3. /\ pc' \in [Ops -> PCs] /\ pc'[o] = Entry(seen[o])
      /\ \A a \in Ops \ {o} : pc'[a] = pc[a]
  BY <1>2, GotoStep DEF Acquire, PCs
<1>4. TypeOK'
  BY <1>3 DEF IInv, TypeOK, Acquire
<1>5. (Kept(o) => Kept(o)') /\ (Whole(o) => Whole(o)')
  BY DEF Kept, Whole, Acquire
<1>6. RowInv(o)'
  BY <1>1, <1>2, <1>3 DEF OpInv, RowInv, Acquire, Early, Late, Staging, Unstaged
<1>7. RegInv(o)' /\ ShellInv(o)' /\ SnapInv(o)'
  BY <1>1, <1>2, <1>3, <1>5 DEF OpInv, RegInv, ShellInv, SnapInv, Acquire
<1>8. TargetInv' /\ OnlyItsOwn(o)
  BY <1>3 DEF IInv, TargetInv, OnlyItsOwn, Acquire
<1> QED
  BY <1>4, <1>6, <1>7, <1>8, OwnStep DEF OpInv

\* The types of the files that a step of a worker may change, and of their history.
FilesTyped ==
    /\ shell \in [Ops -> {"none", "bare", "owned"}]
    /\ payload \in [Ops -> Partial] /\ listing \in [Ops -> Partial]
    /\ target \in [by : Ops \cup {None, "other"}, what : Partial]
    /\ moment \in [Ops -> Partial] /\ back \subseteq Ops

\* A step on the files of o's copy, given what it means for the place it leads to.
LEMMA FileStepInv ==
    ASSUME IInv, NEW o \in Ops, NEW here \in Early \cup Late, NEW onward \in PCs,
           FileStep(o, here, onward), FilesTyped',
           \A a \in Ops \ {o} : /\ shell'[a] = shell[a] /\ payload'[a] = payload[a]
                                 /\ listing'[a] = listing[a] /\ moment'[a] = moment[a]
                                 /\ (a \in back' <=> a \in back),
           \/ onward = "fail"
           \/ here \in Early /\ onward \in Early \ {"look1"}
           \/ here \in Late /\ onward \in Late,
           onward \in Staging => row[o].phase \in Unstaged /\ seen[o] # "staging_complete",
           onward \in {"look2", "verify", "verify1", "verify2", "intent"}
              => row[o].phase = "staging_complete",
           onward \in {"cleanup", "unshell", "finish"} => o \in registered,
           onward \in {"cancelled", "finish"} => shell'[o] = "none",
           SnapInv(o)', TargetInv'
    PROVE  IInv'
<1> USE DEF store
<1>1. /\ pc' \in [Ops -> PCs] /\ pc'[o] = onward
      /\ \A a \in Ops \ {o} : pc'[a] = pc[a]
  BY GotoStep DEF FileStep
<1>2. TypeOK'
  BY <1>1 DEF IInv, TypeOK, FileStep, FilesTyped
<1>3. pc[o] = here /\ OpInv(o) /\ UNCHANGED <<row, registry, registered, source, seen>>
  BY DEF FileStep, At, IInv
<1>4. RowInv(o)'
  BY <1>1, <1>3 DEF OpInv, RowInv, Early, Late, Staging
<1>5. RegInv(o)'
  BY <1>1, <1>3 DEF OpInv, RegInv
<1>6. ShellInv(o)'
  BY <1>1, <1>3 DEF OpInv, RowInv, ShellInv, Early, Late
<1>7. OnlyItsOwn(o)
  BY <1>1, <1>3 DEF OnlyItsOwn
<1> QED
  BY <1>2, <1>4, <1>5, <1>6, <1>7, OwnStep DEF OpInv

\* What is staged and published stays as it is.
LEMMA StagedStays ==
    ASSUME IInv, NEW o \in Ops, NEW here, NEW onward \in PCs, FileStep(o, here, onward),
           UNCHANGED <<past, payload, listing, target>>,
           onward \notin {"stage2", "staged"},
           onward \in {"verify2", "intent"} => Whole(o),
           shell' \in [Ops -> {"none", "bare", "owned"}]
    PROVE  SnapInv(o)' /\ TargetInv' /\ FilesTyped'
<1> USE DEF store, past
<1>1. pc'[o] = onward
  BY GotoStep DEF FileStep
<1>2. (Kept(o) => Kept(o)') /\ (Whole(o) => Whole(o)')
  BY DEF Kept, Whole, FileStep
<1>3. SnapInv(o)'
  BY <1>1, <1>2 DEF IInv, OpInv, SnapInv, FileStep
<1>4. TargetInv'
  BY DEF IInv, TargetInv, FileStep
<1> QED
  BY <1>3, <1>4 DEF IInv, TypeOK, FilesTyped

\* A refusal on the file system.
LEMMA RefusedInv ==
    ASSUME IInv, NEW o \in Ops, NEW here, FileStep(o, here, "fail"), Untouched
    PROVE  IInv'
BY FailsInv DEF FileStep, Untouched, store, files, past, IInv, TypeOK

LEMMA MakeInv == ASSUME IInv, NEW o \in Ops, Make(o) PROVE IInv'
<1>1. CASE FileStep(o, "make", "fail") /\ Untouched
  BY <1>1, RefusedInv
<1>2. ASSUME NEW onward \in {"own", "inventoried"}, FileStep(o, "make", onward),
             shell' = [shell EXCEPT ![o] = "bare"] \/ UNCHANGED shell,
             UNCHANGED <<past, payload, listing, target>>
      PROVE  IInv'
  <2>1. /\ shell' \in [Ops -> {"none", "bare", "owned"}]
        /\ \A a \in Ops \ {o} : shell'[a] = shell[a]
    BY <1>2 DEF IInv, TypeOK
  <2>2. onward \in PCs /\ onward \in Early /\ onward \in Staging /\ "make" \in Early
        /\ onward \notin {"look1", "look2", "verify", "verify1", "verify2", "intent", "cleanup",
                         "unshell", "finish", "cancelled", "stage2", "staged", "fail"}
    BY DEF PCs, Early, Staging
  <2>3. row[o].phase \in Unstaged /\ seen[o] # "staging_complete"
    BY <1>2 DEF FileStep, At, IInv, OpInv, RowInv, Staging
  <2>4. SnapInv(o)' /\ TargetInv' /\ FilesTyped'
    BY <1>2, <2>1, <2>2, StagedStays
  <2> QED
    BY <1>2, <2>1, <2>2, <2>3, <2>4, FileStepInv DEF past
<1> QED
  BY <1>1, <1>2 DEF Make, Untouched

LEMMA OwnInv == ASSUME IInv, NEW o \in Ops, Own(o) PROVE IInv'
<1>1. /\ shell' \in [Ops -> {"none", "bare", "owned"}]
      /\ \A a \in Ops \ {o} : shell'[a] = shell[a]
  BY DEF IInv, TypeOK, Own
<1>2. row[o].phase \in Unstaged /\ seen[o] # "staging_complete"
  BY DEF Own, FileStep, At, IInv, OpInv, RowInv, Staging
<1>3. SnapInv(o)' /\ TargetInv' /\ FilesTyped'
  BY <1>1, StagedStays DEF Own, PCs
<1> QED
  BY <1>1, <1>2, <1>3, FileStepInv DEF Own, PCs, Early, Staging, past

LEMMA RefuseInv == ASSUME IInv, NEW o \in Ops, Refuse(o) PROVE IInv'
BY RefusedInv DEF Refuse

LEMMA LookInv ==
    ASSUME IInv, NEW o \in Ops,
           \/ Look(o, "look1", AfterLook(o)) \/ Look(o, "look2", "verify")
    PROVE  IInv'
<1>1. PICK here \in {"look1", "look2"}, onward \in {"discard", "look2", "toStage", "verify"} :
          /\ FileStep(o, here, onward) /\ Untouched
          /\ onward \in {"look2", "verify"} => row[o].phase = "staging_complete"
          /\ onward = "toStage" => row[o].phase \in Unstaged /\ seen[o] # "staging_complete"
  <2>1. CASE Look(o, "look1", AfterLook(o))
    <3>1. PICK onward \in {"discard", AfterLook(o)} : FileStep(o, "look1", onward) /\ Untouched
      BY <2>1 DEF Look
    <3>2. AfterLook(o) \in {"look2", "toStage"}
          /\ (AfterLook(o) = "look2" <=> seen[o] = "staging_complete")
      BY DEF AfterLook
    <3>3. /\ seen[o] = "staging_complete" <=> row[o].phase = "staging_complete"
          /\ row[o].phase \in Unstaged \cup {"staging_complete"}
      BY <3>1 DEF FileStep, At, IInv, OpInv, RowInv, Early
    <3> QED
      BY <3>1, <3>2, <3>3
  <2>2. CASE Look(o, "look2", "verify")
    <3>1. PICK onward \in {"discard", "verify"} : FileStep(o, "look2", onward) /\ Untouched
      BY <2>2 DEF Look
    <3>2. row[o].phase = "staging_complete"
      BY <3>1 DEF FileStep, At, IInv, OpInv, RowInv
    <3> QED
      BY <3>1, <3>2
  <2> QED
    BY <2>1, <2>2
<1>2. onward \in PCs /\ onward \in Early /\ here \in Early
      /\ onward \notin {"look1", "verify1", "verify2", "intent", "cleanup", "unshell", "finish",
                        "cancelled", "stage2", "staged", "fail"}
      /\ onward \notin Staging \ {"toStage"}
  BY DEF PCs, Early, Staging
<1>3. SnapInv(o)' /\ TargetInv' /\ FilesTyped'
  BY <1>1, <1>2, StagedStays DEF Untouched, IInv, TypeOK
<1> QED
  BY <1>1, <1>2, <1>3, FileStepInv DEF Untouched, past

LEMMA NothingIsPartial == Nothing \in Partial
BY DEF Nothing, Partial

LEMMA StageFirstInv == ASSUME IInv, NEW o \in Ops, StageFirst(o) PROVE IInv'
<1> DEFINE first == [Nothing EXCEPT ![1] = source[1]]
<1>1. first \in Partial
  BY CopyAssumption DEF IInv, TypeOK, Content, Nothing, Partial
<1>2. CASE ~Verified(o)
  BY <1>2, RefusedInv DEF StageFirst
<1>3. CASE Verified(o)
  <2> HIDE DEF first
  <2>1. /\ payload' = [payload EXCEPT ![o] = first] /\ FileStep(o, "stage1", "stage2")
        /\ moment' = [moment EXCEPT ![o] = Nothing] /\ back' = back \ {o}
        /\ UNCHANGED <<shell, listing, target>>
    BY <1>3 DEF StageFirst, first
  <2>2. /\ FilesTyped'
        /\ \A a \in Ops \ {o} : /\ payload'[a] = payload[a] /\ moment'[a] = moment[a]
                              /\ (a \in back' <=> a \in back)
    BY <1>1, <2>1, NothingIsPartial DEF IInv, TypeOK, FilesTyped
  <2>3. /\ pc'[o] = "stage2" /\ UNCHANGED row
        /\ row[o].phase \in Unstaged /\ seen[o] # "staging_complete"
    BY <2>1, GotoStep DEF FileStep, At, IInv, OpInv, RowInv, Staging, PCs, store
  <2>4. SnapInv(o)'
    BY <2>3 DEF SnapInv, Unstaged, AfterIntent
  <2>5. TargetInv'
    BY <2>1, <2>2, <2>3 DEF IInv, TargetInv, Unstaged, AfterIntent
  <2> QED
    BY <2>1, <2>2, <2>3, <2>4, <2>5, FileStepInv DEF PCs, Early, Staging
<1> QED
  BY <1>2, <1>3

LEMMA StageLastInv == ASSUME IInv, NEW o \in Ops, StageLast(o) PROVE IInv'
<1> DEFINE both == [payload[o] EXCEPT ![2] = source[2]]
           now == IF both = source THEN source ELSE Nothing
<1>0. source \in Content /\ source \in Partial /\ payload[o] \in Partial /\ Files = 1..2
  BY CopyAssumption DEF IInv, TypeOK, Content, Partial
<1>1. both \in Partial /\ both[1] = payload[o][1] /\ both[2] = source[2]
  BY <1>0 DEF Content, Partial
<1>2. both[1] = source[1] => both = source
  <2>1. ASSUME both[1] = source[1] PROVE \A f \in Files : both[f] = source[f]
    BY <1>0, <1>1, <2>1
  <2> HIDE DEF both
  <2> QED
    BY <1>0, <1>1, <2>1 DEF Content, Partial
<1>3. now \in Partial
  BY <1>0, NothingIsPartial
<1>4. /\ payload' = [payload EXCEPT ![o] = both] /\ listing' = [listing EXCEPT ![o] = payload'[o]]
      /\ FileStep(o, "stage2", "staged") /\ UNCHANGED <<back, shell, target>>
  BY DEF StageLast
<1> HIDE DEF both
<1>5. payload'[o] = both /\ listing'[o] = both
  BY <1>1, <1>4 DEF IInv, TypeOK
<1>6. moment' = [moment EXCEPT ![o] = now]
  BY <1>5 DEF StageLast
<1>7. moment'[o] = now
  BY <1>6 DEF IInv, TypeOK
<1>8. /\ FilesTyped'
      /\ \A a \in Ops \ {o} : /\ payload'[a] = payload[a] /\ listing'[a] = listing[a]
                            /\ moment'[a] = moment[a]
  <2> HIDE DEF now
  <2> QED
    BY <1>1, <1>3, <1>4, <1>5, <1>6 DEF IInv, TypeOK, FilesTyped
<1>9. /\ pc'[o] = "staged" /\ UNCHANGED <<row, source>>
      /\ row[o].phase \in Unstaged /\ seen[o] # "staging_complete"
  BY <1>4, GotoStep DEF FileStep, At, IInv, OpInv, RowInv, Staging, PCs, store
<1>10. Kept(o)'
  BY <1>2, <1>5, <1>7, <1>9 DEF Kept, Whole
<1> HIDE DEF now
<1>11. SnapInv(o)'
  BY <1>5, <1>9, <1>10 DEF SnapInv, Unstaged, AfterIntent
<1>12. TargetInv'
  BY <1>4, <1>8, <1>9 DEF IInv, TargetInv, Unstaged, AfterIntent
<1> QED
  BY <1>4, <1>8, <1>9, <1>11, <1>12, FileStepInv DEF PCs, Early, Staging

\* The second reading of the first file finds it as staged: it was never saved as
\* something else, or it was saved back.
LEMMA SecondReading ==
    ASSUME NEW o, Kept(o), listing[o] = payload[o], source[1] = listing[o][1]
    PROVE  Whole(o)
BY DEF Kept

\* verify_source in either order; what is staged is Whole once the first file was read.
LEMMA VerifyInv ==
    ASSUME IInv, NEW o \in Ops,
           \/ Verify(o, 1, "verify", "verify2") \/ Verify(o, 2, "verify2", "intent")
           \/ Verify(o, 2, "verify", "verify1") \/ Verify(o, 1, "verify1", "intent")
    PROVE  IInv'
<1>1. CASE \E here : FileStep(o, here, "fail") /\ Untouched
  BY <1>1, RefusedInv
<1>2. ASSUME NEW here \in {"verify", "verify1", "verify2"},
             NEW onward \in {"verify1", "verify2", "intent"},
             FileStep(o, here, onward), Untouched,
             onward = "verify1" \/ here = "verify2" \/ source[1] = listing[o][1]
      PROVE  IInv'
  <2>1. pc[o] = here /\ row[o].phase = "staging_complete"
    BY <1>2 DEF FileStep, At, IInv, OpInv, RowInv
  <2>2. onward \in {"verify2", "intent"} => Whole(o)
    BY <1>2, <2>1, SecondReading DEF IInv, OpInv, SnapInv
  <2>3. onward \in PCs /\ onward \in Early /\ here \in Early /\ onward \notin Staging
        /\ onward \notin {"look1", "cleanup", "unshell", "finish", "cancelled", "stage2", "staged"}
    BY DEF PCs, Early, Staging
  <2>4. SnapInv(o)' /\ TargetInv' /\ FilesTyped'
    BY <1>2, <2>2, <2>3, StagedStays DEF Untouched, IInv, TypeOK
  <2> QED
    BY <1>2, <2>1, <2>3, <2>4, FileStepInv DEF Untouched, past
<1>3. CASE Verify(o, 1, "verify", "verify2")
  BY <1>1, <1>2, <1>3 DEF Verify
<1>4. CASE Verify(o, 2, "verify2", "intent")
  BY <1>1, <1>2, <1>4 DEF Verify
<1>5. CASE Verify(o, 2, "verify", "verify1")
  BY <1>1, <1>2, <1>5 DEF Verify
<1>6. CASE Verify(o, 1, "verify1", "intent")
  BY <1>1, <1>2, <1>6 DEF Verify
<1> QED
  BY <1>3, <1>4, <1>5, <1>6

LEMMA MoveInInv ==
    ASSUME IInv, NEW o \in Ops, NEW here \in Late, NEW onward \in Late \ {"unshell", "finish"},
           onward = "cleanup" => o \in registered, MoveIn(o, here, onward)
    PROVE  IInv'
<1>1. pc[o] = here /\ row[o].phase \in AfterIntent /\ Whole(o)
  BY DEF MoveIn, FileStep, At, IInv, OpInv, RowInv, SnapInv
<1>2. /\ payload' \in [Ops -> Partial] /\ payload'[o] = Nothing
      /\ \A a \in Ops \ {o} : payload'[a] = payload[a]
  BY NothingIsPartial DEF MoveIn, IInv, TypeOK
<1>3. /\ target' \in [by : Ops \cup {None, "other"}, what : Partial]
      /\ target'.by = o /\ target'.what = payload[o]
  BY DEF MoveIn, IInv, TypeOK
<1>4. onward \in PCs /\ onward \in Late /\ here \in Early \cup Late /\ onward \notin Staging
      /\ onward \notin {"look2", "verify", "verify1", "verify2", "intent", "cancelled", "stage2",
                       "staged", "unshell", "finish"}
  BY DEF PCs, Early, Late, Staging
<1>5. pc'[o] = onward /\ UNCHANGED <<row, source, moment, back, shell, listing>>
  BY <1>4, GotoStep DEF MoveIn, FileStep, store, past
<1>6. FilesTyped'
  BY <1>2, <1>3, <1>5 DEF IInv, TypeOK, FilesTyped
<1>7. SnapInv(o)'
  BY <1>1, <1>2, <1>4, <1>5 DEF SnapInv, AfterIntent
<1>8. TargetInv'
  BY <1>1, <1>2, <1>3, <1>5 DEF IInv, TargetInv, Whole
<1> QED
  BY <1>2, <1>4, <1>5, <1>6, <1>7, <1>8, FileStepInv DEF MoveIn

LEMMA PublishInv == ASSUME IInv, NEW o \in Ops, Publish(o) PROVE IInv'
BY MoveInInv, RefusedInv DEF Publish, Late

LEMMA ValidateInv == ASSUME IInv, NEW o \in Ops, Validate(o) PROVE IInv'
<1>1. AfterValidate(o) \in {"cleanup", "commitIntent"}
      /\ (AfterValidate(o) = "cleanup" => o \in registered)
  BY DEF AfterValidate, IInv, OpInv, RegInv
<1>2. CASE MoveIn(o, "validate", AfterValidate(o))
  BY <1>1, <1>2, MoveInInv DEF Late
<1>3. CASE FileStep(o, "validate", AfterValidate(o)) /\ Untouched
  <2>1. SnapInv(o)' /\ TargetInv' /\ FilesTyped'
    BY <1>1, <1>3, StagedStays DEF Untouched, PCs, IInv, TypeOK
  <2>2. AfterValidate(o) \in PCs /\ AfterValidate(o) \in Late /\ "validate" \in Late
        /\ AfterValidate(o) \notin Staging
    BY <1>1 DEF PCs, Late, Staging
  <2> QED
    BY <1>1, <1>3, <2>1, <2>2, FileStepInv DEF Untouched, past
<1>4. CASE FileStep(o, "validate", "fail") /\ Untouched
  BY <1>4, RefusedInv
<1> QED
  BY <1>2, <1>3, <1>4 DEF Validate

LEMMA ClearInv ==
    ASSUME IInv, NEW o \in Ops,
           \/ Clear(o, "cleanup", "unshell") \/ Clear(o, "discard", "drop")
    PROVE  IInv'
<1>1. CASE \E here : FileStep(o, here, "fail") /\ Untouched
  BY <1>1, RefusedInv
<1>2. ASSUME NEW here \in {"cleanup", "discard"}, NEW onward \in {"unshell", "drop"},
             here = "cleanup" <=> onward = "unshell",
             FileStep(o, here, onward), UNCHANGED <<past, target>>,
             shell' = [shell EXCEPT ![o] = "bare"],
             payload' = [payload EXCEPT ![o] = Nothing],
             listing' = [listing EXCEPT ![o] = Nothing]
      PROVE  IInv'
  <2>1. /\ FilesTyped' /\ payload'[o] = Nothing /\ listing'[o] = Nothing
        /\ \A a \in Ops \ {o} : /\ shell'[a] = shell[a] /\ payload'[a] = payload[a]
                              /\ listing'[a] = listing[a]
    BY <1>2, NothingIsPartial DEF IInv, TypeOK, FilesTyped, past
  <2>2. onward \in PCs /\ onward \notin Staging /\ here \in Early \cup Late
        /\ ((here \in Early /\ onward \in Early) \/ (here \in Late /\ onward \in Late))
    BY <1>2 DEF PCs, Early, Late, Staging
  <2>3. /\ pc[o] = here /\ pc'[o] = onward /\ UNCHANGED <<row, source, moment, back>>
        /\ here = "cleanup" => o \in registered
    BY <1>2, <2>2, GotoStep DEF FileStep, At, IInv, OpInv, RegInv, store, past
  <2>4. source[1] # Nothing[1]
    BY CopyAssumption DEF IInv, TypeOK, Content, Nothing
  <2>5. SnapInv(o)'
    BY <1>2, <2>1, <2>3, <2>4 DEF SnapInv, Kept
  <2>6. TargetInv'
    BY <1>2, <2>1, <2>3 DEF IInv, TargetInv
  <2> QED
    BY <1>2, <2>1, <2>2, <2>3, <2>5, <2>6, FileStepInv
<1>3. CASE Clear(o, "cleanup", "unshell")
  BY <1>1, <1>2, <1>3 DEF Clear
<1>4. CASE Clear(o, "discard", "drop")
  BY <1>1, <1>2, <1>4 DEF Clear
<1> QED
  BY <1>3, <1>4

LEMMA UnshellInv ==
    ASSUME IInv, NEW o \in Ops,
           \/ Unshell(o, "unshell", "finish") \/ Unshell(o, "drop", "cancelled")
    PROVE  IInv'
<1>1. PICK here \in {"unshell", "drop"}, onward \in {"finish", "cancelled"} :
          /\ here = "unshell" <=> onward = "finish"
          /\ Unshell(o, here, onward)
  OBVIOUS
<1>2. /\ shell' \in [Ops -> {"none", "bare", "owned"}] /\ shell'[o] = "none"
      /\ \A a \in Ops \ {o} : shell'[a] = shell[a]
  BY <1>1 DEF Unshell, IInv, TypeOK
<1>3. onward \in PCs /\ onward \notin Staging /\ here \in Early \cup Late
      /\ ((here \in Early /\ onward \in Early) \/ (here \in Late /\ onward \in Late))
  BY <1>1 DEF PCs, Early, Late, Staging
<1>4. here = "unshell" => o \in registered
  BY <1>1 DEF Unshell, FileStep, At, IInv, OpInv, RegInv
<1>5. FileStep(o, here, onward) /\ UNCHANGED <<past, payload, listing, target>>
  BY <1>1 DEF Unshell
<1>6. SnapInv(o)' /\ TargetInv' /\ FilesTyped'
  BY <1>2, <1>3, <1>5, StagedStays
<1> QED
  BY <1>1, <1>2, <1>3, <1>4, <1>5, <1>6, FileStepInv DEF past

\* A checkpoint, given what its phase means for the place it leads to.
LEMMA CheckpointInv ==
    ASSUME IInv, NEW o \in Ops, NEW here \in Early \cup Late, NEW phase \in Phases,
           NEW onward \in PCs, Checkpoint(o, here, phase, onward),
           \/ here = "inventoried" /\ phase = "inventory_ready" /\ onward = "look1"
           \/ here = "toStage" /\ phase = "staging" /\ onward = "stage1"
           \/ here = "staged" /\ phase = "staging_complete" /\ onward = "look2"
           \/ here = "intent" /\ phase = "publish_intent" /\ onward = "publish"
           \/ /\ here \in Late /\ phase \in {"target_published", "project_registry_commit_intent"}
              /\ onward \in {"commitIntent", "commit"}
    PROVE  IInv'
<1> USE DEF files, past
<1>1. CASE row[o].state \in {"running", "cancelling"}
  <2>1. /\ row' \in [Ops -> RowType]
        /\ row'[o].state = row[o].state /\ row'[o].phase = phase
        /\ \A a \in Ops \ {o} : row'[a] = row[a]
    <3> DEFINE k == row[o].known \/ here \in {"published", "commitIntent"}
    <3>1. k \in BOOLEAN /\ SetRow(o, row[o].state, phase, row[o].cancel, k)
      BY <1>1 DEF Checkpoint
    <3> HIDE DEF k
    <3> QED
      BY <3>1, RowStep, RowIsTyped
  <2>2. /\ pc' \in [Ops -> PCs] /\ pc'[o] = onward
        /\ \A a \in Ops \ {o} : pc'[a] = pc[a]
    BY <1>1, GotoStep DEF Checkpoint
  <2>3. /\ pc[o] = here /\ OpInv(o)
        /\ UNCHANGED <<registry, registered, source, past, shell, payload, listing, target, daemon,
                       seen, lock, mishaps>>
    BY DEF Checkpoint, At, IInv
  <2>4. TypeOK'
    BY <2>1, <2>2, <2>3 DEF IInv, TypeOK, RowType
  <2>5. RowInv(o)'
    BY <1>1, <2>1, <2>2, <2>3 DEF OpInv, RowInv, Early, Late, Staging, Unstaged, AfterIntent
  <2>6. RegInv(o)'
    BY <2>1, <2>2, <2>3 DEF OpInv, RowInv, RegInv, Early, Late, Unstaged, AfterIntent
  <2>7. ShellInv(o)'
    BY <1>1, <2>1, <2>2, <2>3 DEF ShellInv
  <2>8. SnapInv(o)'
    <3>1. (Kept(o) => Kept(o)') /\ (Whole(o) => Whole(o)')
      BY <2>3 DEF Kept, Whole
    <3> QED
      BY <2>1, <2>2, <2>3, <3>1 DEF OpInv, RowInv, SnapInv, Early, Late, Unstaged, AfterIntent
  <2>9. TargetInv' /\ OnlyItsOwn(o)
    BY <2>1, <2>2, <2>3 DEF IInv, OpInv, RowInv, TargetInv, OnlyItsOwn, Early, Late, AfterIntent,
       Unstaged
  <2> QED
    BY <2>4, <2>5, <2>6, <2>7, <2>8, <2>9, OwnStep DEF OpInv
<1>2. CASE row[o].state \notin {"running", "cancelling"}
  BY <1>2, FailsInv DEF Checkpoint, IInv, TypeOK, store
<1> QED
  BY <1>1, <1>2

CheckpointStep(o) ==
    \/ Checkpoint(o, "inventoried", "inventory_ready", "look1")
    \/ Checkpoint(o, "toStage", "staging", "stage1")
    \/ Checkpoint(o, "staged", "staging_complete", "look2")
    \/ Checkpoint(o, "intent", "publish_intent", "publish")
    \/ Checkpoint(o, "published", "target_published", "commitIntent")
    \/ Checkpoint(o, "commitIntent", "project_registry_commit_intent", "commit")

LEMMA CheckpointsInv == ASSUME IInv, NEW o \in Ops, CheckpointStep(o) PROVE IInv'
<1> USE DEF Early, Late, PCs, Phases, AfterIntent
<1>1. CASE Checkpoint(o, "inventoried", "inventory_ready", "look1")
  BY <1>1, CheckpointInv
<1>2. CASE Checkpoint(o, "toStage", "staging", "stage1")
  BY <1>2, CheckpointInv
<1>3. CASE Checkpoint(o, "staged", "staging_complete", "look2")
  BY <1>3, CheckpointInv
<1>4. CASE Checkpoint(o, "intent", "publish_intent", "publish")
  BY <1>4, CheckpointInv
<1>5. CASE Checkpoint(o, "published", "target_published", "commitIntent")
  BY <1>5, CheckpointInv
<1>6. CASE Checkpoint(o, "commitIntent", "project_registry_commit_intent", "commit")
  BY <1>6, CheckpointInv
<1> QED
  BY <1>1, <1>2, <1>3, <1>4, <1>5, <1>6 DEF CheckpointStep

LEMMA CommitInv == ASSUME IInv, NEW o \in Ops, Commit(o) PROVE IInv'
<1> USE DEF files, past
<1>1. CASE row[o].state = "running" /\ registry = None
  <2>1. /\ row' \in [Ops -> RowType]
        /\ row'[o].state = row[o].state /\ row'[o].phase = "state_committed"
        /\ \A a \in Ops \ {o} : row'[a] = row[a]
    BY <1>1, PhaseStep DEF Commit, Phases, AfterIntent
  <2>2. /\ pc' \in [Ops -> PCs] /\ pc'[o] = "cleanup"
        /\ \A a \in Ops \ {o} : pc'[a] = pc[a]
    BY <1>1, GotoStep DEF Commit, PCs
  <2>3. /\ pc[o] = "commit" /\ OpInv(o) /\ registered' = registered \cup {o} /\ registry' = o
        /\ UNCHANGED <<source, past, shell, payload, listing, target, daemon, seen, lock, mishaps>>
    BY <1>1 DEF Commit, At, IInv
  <2>4. TypeOK'
    BY <2>1, <2>2, <2>3 DEF IInv, TypeOK, RowType
  <2>5. RowInv(o)' /\ RegInv(o)' /\ ShellInv(o)'
    BY <1>1, <2>1, <2>2, <2>3 DEF RowInv, RegInv, ShellInv, Early, Late, Staging, AfterIntent
  <2>6. SnapInv(o)'
    BY <2>1, <2>2, <2>3 DEF OpInv, RowInv, SnapInv, Whole, Late, AfterIntent
  <2>7. TargetInv' /\ OnlyItsOwn(o)
    BY <2>1, <2>2, <2>3 DEF IInv, TargetInv, OnlyItsOwn, AfterIntent
  <2> QED
    BY <2>4, <2>5, <2>6, <2>7, OwnStep DEF OpInv
<1>2. CASE ~(row[o].state = "running" /\ registry = None)
  BY <1>2, FailsInv DEF Commit, IInv, TypeOK
<1> QED
  BY <1>1, <1>2

\* The end of a task, given that the row it leaves is in order.
LEMMA EndInv ==
    ASSUME IInv, NEW o \in Ops, EndTask(o), row' \in [Ops -> RowType],
           \A a \in Ops \ {o} : row'[a] = row[a],
           \/ row'[o].phase = row[o].phase
           \/ /\ row[o].phase \in AfterIntent /\ row'[o].state \notin {"absent", "queued"}
              /\ row'[o].phase \in {"recovery_required", "cleanup_complete"},
           \/ row'[o].state \in {row[o].state, "recovering"}
           \/ row'[o].state = "succeeded" /\ o \in registered /\ shell[o] = "none"
           \/ row'[o].state = "failed" /\ row'[o].phase \notin AfterIntent
           \/ /\ row'[o].state = "cancelled" /\ row'[o].phase \notin AfterIntent
              /\ shell[o] = "none",
           row[o].phase \in AfterIntent => row'[o].state \notin {"failed", "cancelled"},
           UNCHANGED <<registry, registered, files, daemon>>,
           mishaps' \in Nat
    PROVE  IInv'
<1> USE DEF files, past
<1>1. TypeOK'
  BY EndTaskStep DEF IInv, TypeOK, RowType
<1>2. pc'[o] = "idle" /\ seen'[o] = "accepted" /\ OpInv(o)
  BY EndTaskStep DEF IInv
<1>3. RowInv(o)'
  BY <1>2 DEF OpInv, RowInv, Early, Late, Staging, AfterIntent
<1>4. RegInv(o)'
  BY <1>2 DEF OpInv, RegInv, AfterIntent
<1>5. ShellInv(o)'
  BY <1>2 DEF OpInv, ShellInv
<1>6. SnapInv(o)'
  <2>1. (Kept(o) => Kept(o)') /\ (Whole(o) => Whole(o)')
    BY DEF Kept, Whole
  <2> QED
    BY <1>2, <2>1 DEF OpInv, SnapInv, AfterIntent
<1>7. TargetInv' /\ OnlyItsOwn(o)
  BY EndTaskStep DEF IInv, TargetInv, OnlyItsOwn, AfterIntent
<1> QED
  BY <1>1, <1>3, <1>4, <1>5, <1>6, <1>7, OwnStep DEF OpInv

LEMMA FinishInv == ASSUME IInv, NEW o \in Ops, Finish(o) PROVE IInv'
<1>0. pc[o] = "finish" /\ OpInv(o)
  BY DEF Finish, At, IInv
<1>1. CASE row[o].state = "running"
  <2>1. SetRow(o, "succeeded", "cleanup_complete", row[o].cancel, row[o].known) /\ EndTask(o)
    BY <1>1 DEF Finish
  <2>2. /\ row' \in [Ops -> RowType]
        /\ row'[o].state = "succeeded" /\ row'[o].phase = "cleanup_complete"
        /\ \A a \in Ops \ {o} : row'[a] = row[a]
    BY <2>1, SucceededRow
  <2>3. row[o].phase \in AfterIntent /\ o \in registered /\ shell[o] = "none"
    BY <1>0 DEF OpInv, RowInv, RegInv, ShellInv, Late
  <2> QED
    BY <2>1, <2>2, <2>3, EndInv DEF Finish, IInv, TypeOK
<1>2. CASE row[o].state # "running"
  BY <1>2, FailsInv DEF Finish, IInv, TypeOK, store
<1> QED
  BY <1>1, <1>2

LEMMA FinishCancelledInv == ASSUME IInv, NEW o \in Ops, FinishCancelled(o) PROVE IInv'
<1> DEFINE Good == row[o].state \in {"running", "cancelling", "recovering"} /\ ~PastIntent(o)
<1>0. pc[o] = "cancelled" /\ OpInv(o)
  BY DEF FinishCancelled, At, IInv
<1>1. CASE Good
  <2>1. /\ row' \in [Ops -> RowType]
        /\ row'[o].state = "cancelled" /\ row'[o].phase = row[o].phase
        /\ \A a \in Ops \ {o} : row'[a] = row[a]
    BY <1>1, StateStep DEF FinishCancelled, States, Terminal
  <2>2. shell[o] = "none" /\ row[o].phase \notin AfterIntent
    BY <1>0, <1>1 DEF OpInv, ShellInv, PastIntent
  <2> QED
    BY <1>1, <2>1, <2>2, EndInv DEF FinishCancelled, IInv, TypeOK
<1>2. CASE ~Good
  BY <1>2, FailsInv DEF FinishCancelled, IInv, TypeOK, store
<1> QED
  BY <1>1, <1>2

LEMMA FailInv == ASSUME IInv, NEW o \in Ops, Fail(o) PROVE IInv'
<1>0. EndTask(o) /\ UNCHANGED <<registry, registered, files, daemon, mishaps>>
  BY DEF Fail
<1>1. CASE ~Live(o)
  BY <1>0, <1>1, EndInv DEF Fail, IInv, TypeOK, RowType, OpInv, RowInv
<1>2. CASE Live(o) /\ PastIntent(o)
  <2>1. SetRow(o, "recovering", "recovery_required", row[o].cancel, row[o].known)
    BY <1>2 DEF Fail
  <2>2. /\ row' \in [Ops -> RowType]
        /\ row'[o].state = "recovering" /\ row'[o].phase = "recovery_required"
        /\ \A a \in Ops \ {o} : row'[a] = row[a]
    BY <2>1, RecoveringRow
  <2> QED
    BY <1>0, <1>2, <2>2, EndInv DEF PastIntent, IInv, TypeOK
<1>3. CASE Live(o) /\ ~PastIntent(o)
  <2>1. SetState(o, "failed")
    BY <1>3 DEF Fail
  <2>2. /\ row' \in [Ops -> RowType]
        /\ row'[o].state = "failed" /\ row'[o].phase = row[o].phase
        /\ \A a \in Ops \ {o} : row'[a] = row[a]
    BY <2>1, StateStep DEF States, Terminal
  <2> QED
    BY <1>0, <1>3, <2>2, EndInv DEF PastIntent, IInv, TypeOK
<1> QED
  BY <1>1, <1>2, <1>3

LEMMA FaultInv == ASSUME IInv, NEW o \in Ops, Fault(o) PROVE IInv'
<1> USE DEF store
<1>1. CASE pc[o] = "fail"
  BY <1>1, EndInv DEF Fault, Mishap, IInv, TypeOK, RowType, OpInv, RowInv
<1>2. CASE pc[o] # "fail"
  BY <1>2, FailsInv DEF Fault, Mishap, IInv, TypeOK
<1> QED
  BY <1>1, <1>2

LEMMA WorkerInv == ASSUME IInv, NEW o \in Ops, WorkerStep(o) PROVE IInv'
BY CheckpointsInv, LookInv, ClearInv, UnshellInv, VerifyInv, BeginInv, AcquireInv, MakeInv, OwnInv,
   RefuseInv, StageFirstInv, StageLastInv, PublishInv, ValidateInv, CommitInv, FinishInv,
   FinishCancelledInv, FailInv DEF WorkerStep, CheckpointStep

-----------------------------------------------------------------------------
(* The theorems *)

\* IInv is inductive: it holds of every reachable state.
THEOREM Invariance == Spec => []IInv
<1>1. IInv /\ [Next]_vars => IInv'
  BY ApplyInv, CancelInv, WorkerInv, FaultInv, EditInv, MeddleInv, CrashInv, StartInv, StutterInv
     DEF Next
<1> QED
  BY <1>1, InitInv, PTL DEF Spec

\* The variables keep their types.
THEOREM TypeCorrect == Spec => []TypeOK
<1>1. IInv => TypeOK
  BY DEF IInv
<1> QED
  BY <1>1, Invariance, PTL

\* A published copy is a state the source was in, however the reads of stage and of
\* verify_source fall between the saves of the editor, unless the file staged first was
\* saved as something else and then back.
THEOREM SnapshotOrSavedBack == Spec => []MixedOnlyIfSavedBack
<1>1. IInv => MixedOnlyIfSavedBack
  BY DEF IInv, TargetInv, MixedOnlyIfSavedBack
<1> QED
  BY <1>1, Invariance, PTL

\* A published directory has a copy past its intent, not failed and not cancelled,
\* that accounts for it.
THEOREM Accounted == Spec => []TargetIsAccounted
<1>1. IInv => TargetIsAccounted
  BY DEF IInv, TargetInv, OpInv, RowInv, TargetIsAccounted, PastIntent
<1> QED
  BY <1>1, Invariance, PTL

\* What the Operation reports at its end is true of the registry and of the
\* staging directory.
THEOREM Truthful == Spec => []ReportsAreTrue
<1>1. IInv => ReportsAreTrue
  BY DEF IInv, OpInv, RowInv, RegInv, ShellInv, ReportsAreTrue
<1> QED
  BY <1>1, Invariance, PTL

-----------------------------------------------------------------------------
(* Refinement: a copy past its intent never turns back *)

Moves == {<<"none", "open">>, <<"open", "failed">>, <<"open", "cancelled">>,
          <<"open", "closed">>, <<"closed", "succeeded">>}

\* A step of the row of o alone, as ForwardOnly sees it.
StageStep(o) ==
    /\ \A a \in Ops \ {o} : row'[a] = row[a]
    /\ Stage(o)' = Stage(o) \/ <<Stage(o), Stage(o)'>> \in Moves

LEMMA StageStepIsForward ==
    ASSUME NEW o \in Ops, StageStep(o)
    PROVE  [Forward!Next]_stages
<1> USE DEF stages
<1>1. \A a \in Ops \ {o} : Stage(a)' = Stage(a)
  BY DEF StageStep, Stage, Live, PastIntent
<1>2. CASE Stage(o)' = Stage(o)
  <2>1. stages' = stages
    BY <1>1, <1>2
  <2> QED
    BY <2>1
<1>3. CASE <<Stage(o), Stage(o)'>> \in Moves
  <2>1. stages' = [stages EXCEPT ![o] = Stage(o)']
    BY <1>1
  <2>2. stages[o] = Stage(o)
    BY DEF stages
  <2>3. Forward!Next
    BY <1>3, <2>1, <2>2 DEF Moves, Forward!Next, Forward!Accept, Forward!GiveUp, Forward!Intend,
       Forward!Succeed, Forward!Move
  <2> QED
    BY <2>3
<1> QED
  BY <1>2, <1>3 DEF StageStep

LEMMA SameRowsSameStage ==
    ASSUME UNCHANGED row
    PROVE  [Forward!Next]_stages
<1>1. \A a \in Ops : Stage(a)' = Stage(a)
  BY DEF Stage, Live, PastIntent
<1>2. stages' = stages
  BY <1>1 DEF stages
<1> QED
  BY <1>2

\* The two kinds of row steps that are not a refusal.
LEMMA StateStage ==
    ASSUME IInv, NEW o \in Ops, NEW s \in States, SetState(o, s),
           \/ row[o].state = "absent" /\ s = "queued"
           \/ Live(o) /\ s \in States \ (Terminal \cup {"absent"})
           \/ Live(o) /\ ~PastIntent(o) /\ s \in {"failed", "cancelled"}
    PROVE  StageStep(o)
<1>1. /\ row'[o].state = s /\ row'[o].phase = row[o].phase
      /\ \A a \in Ops \ {o} : row'[a] = row[a]
  BY StateStep
<1>2. row[o].state = "absent" => ~PastIntent(o)
  BY DEF IInv, OpInv, RowInv, PastIntent, AfterIntent
<1> QED
  BY <1>1, <1>2 DEF StageStep, Stage, Live, PastIntent, Terminal, Moves, States

LEMMA CheckpointStage ==
    ASSUME IInv, NEW o \in Ops, NEW here \in Early \cup Late, NEW phase \in Phases,
           NEW onward, Checkpoint(o, here, phase, onward),
           here \in Late => phase \in AfterIntent
    PROVE  StageStep(o)
<1>1. CASE row[o].state \in {"running", "cancelling"}
  <2>1. /\ row'[o].state = row[o].state /\ row'[o].phase = phase
        /\ \A a \in Ops \ {o} : row'[a] = row[a]
    BY <1>1 DEF Checkpoint, SetRow, IInv, TypeOK
  <2>2. here \in Late => PastIntent(o)
    BY DEF Checkpoint, At, IInv, OpInv, RowInv, PastIntent
  <2>3. here \in Early => ~PastIntent(o)
    BY DEF Checkpoint, At, IInv, OpInv, RowInv, PastIntent, AfterIntent, Unstaged
  <2> QED
    BY <1>1, <2>1, <2>2, <2>3 DEF StageStep, Stage, Live, PastIntent, Terminal, Moves
<1>2. CASE row[o].state \notin {"running", "cancelling"}
  BY <1>2 DEF Checkpoint, StageStep, Stage, Live, PastIntent
<1> QED
  BY <1>1, <1>2

LEMMA CancelStage == ASSUME IInv, NEW o \in Ops, Cancel(o) PROVE StageStep(o)
<1>1. /\ row'[o].state = IF row[o].state = "queued" THEN "cancelled" ELSE "cancelling"
      /\ row'[o].phase = row[o].phase
      /\ \A a \in Ops \ {o} : row'[a] = row[a]
  BY DEF Cancel, SetRow, IInv, TypeOK
<1> QED
  BY <1>1 DEF Cancel, StageStep, Stage, Live, PastIntent, Terminal, Moves

LEMMA CommitStage == ASSUME IInv, NEW o \in Ops, Commit(o) PROVE StageStep(o)
<1>1. CASE row' = row
  BY <1>1 DEF StageStep, Stage, Live, PastIntent
<1>2. CASE row' # row
  <2>1. row[o].state = "running" /\ SetPhase(o, "state_committed")
    BY <1>2 DEF Commit, store
  <2>2. /\ row'[o].state = row[o].state /\ row'[o].phase = "state_committed"
        /\ \A a \in Ops \ {o} : row'[a] = row[a]
    BY <2>1, PhaseStep DEF Phases, AfterIntent
  <2>3. PastIntent(o)
    BY DEF Commit, At, IInv, OpInv, RowInv, Late, PastIntent
  <2> QED
    BY <2>1, <2>2, <2>3 DEF StageStep, Stage, Live, PastIntent, AfterIntent, Terminal
<1> QED
  BY <1>1, <1>2

LEMMA FinishStage == ASSUME IInv, NEW o \in Ops, Finish(o) PROVE StageStep(o)
<1>1. CASE row[o].state = "running"
  <2>1. SetRow(o, "succeeded", "cleanup_complete", row[o].cancel, row[o].known)
    BY <1>1 DEF Finish
  <2>2. /\ row'[o].state = "succeeded" /\ \A a \in Ops \ {o} : row'[a] = row[a]
    BY <2>1, SucceededRow
  <2>3. PastIntent(o)
    BY DEF Finish, At, IInv, OpInv, RowInv, Late, PastIntent
  <2> QED
    BY <1>1, <2>2, <2>3 DEF StageStep, Stage, Live, Terminal, Moves
<1>2. CASE row[o].state # "running"
  BY <1>2 DEF Finish, StageStep, Stage, Live, PastIntent
<1> QED
  BY <1>1, <1>2

LEMMA FailStage == ASSUME IInv, NEW o \in Ops, Fail(o) PROVE StageStep(o)
<1>1. CASE ~Live(o)
  BY <1>1 DEF Fail, StageStep, Stage, Live, PastIntent
<1>2. CASE Live(o) /\ PastIntent(o)
  <2>1. SetRow(o, "recovering", "recovery_required", row[o].cancel, row[o].known)
    BY <1>2 DEF Fail
  <2>2. /\ row'[o].state = "recovering" /\ row'[o].phase = "recovery_required"
        /\ \A a \in Ops \ {o} : row'[a] = row[a]
    BY <2>1, RecoveringRow
  <2> QED
    BY <1>2, <2>2 DEF StageStep, Stage, Live, PastIntent, AfterIntent, Terminal
<1>3. CASE Live(o) /\ ~PastIntent(o)
  <2>1. SetState(o, "failed")
    BY <1>3 DEF Fail
  <2> QED
    BY <1>3, <2>1, StateStage DEF States, Terminal
<1> QED
  BY <1>1, <1>2, <1>3

\* The steps of a worker that leave its row alone.
LEMMA FileStage ==
    ASSUME NEW o \in Ops,
           \/ Acquire(o) \/ Make(o) \/ Own(o) \/ Refuse(o) \/ StageFirst(o) \/ StageLast(o)
           \/ Publish(o) \/ Validate(o)
    PROVE  UNCHANGED row
BY DEF Acquire, Make, Own, Refuse, StageFirst, StageLast, Publish, Validate, MoveIn, FileStep, store

LEMMA WorkerStage ==
    ASSUME IInv, NEW o \in Ops, WorkerStep(o)
    PROVE  [Forward!Next]_stages
<1>1. CASE Begin(o)
  <2>1. CASE UNCHANGED row
    BY <2>1, SameRowsSameStage
  <2>2. CASE row' # row
    BY <1>1, <2>2, StateStage, StageStepIsForward DEF Begin, Live, Terminal, States
  <2> QED
    BY <2>1, <2>2
<1>2. CASE CheckpointStep(o)
  BY <1>2, CheckpointStage, StageStepIsForward
     DEF CheckpointStep, Early, Late, Phases, AfterIntent
<1>3. CASE Commit(o)
  BY <1>3, CommitStage, StageStepIsForward
<1>4. CASE Finish(o)
  BY <1>4, FinishStage, StageStepIsForward
<1>5. CASE FinishCancelled(o)
  <2>1. CASE UNCHANGED row
    BY <2>1, SameRowsSameStage
  <2>2. CASE row' # row
    BY <1>5, <2>2, StateStage, StageStepIsForward DEF FinishCancelled, Live, Terminal, States
  <2> QED
    BY <2>1, <2>2
<1>6. CASE Fail(o)
  BY <1>6, FailStage, StageStepIsForward
<1>7. CASE \/ Look(o, "look1", AfterLook(o)) \/ Look(o, "look2", "verify")
           \/ Verify(o, 1, "verify", "verify2") \/ Verify(o, 2, "verify2", "intent")
           \/ Verify(o, 2, "verify", "verify1") \/ Verify(o, 1, "verify1", "intent")
           \/ Clear(o, "cleanup", "unshell") \/ Clear(o, "discard", "drop")
           \/ Unshell(o, "unshell", "finish") \/ Unshell(o, "drop", "cancelled")
  <2>1. UNCHANGED row
    BY <1>7 DEF Look, Verify, Clear, Unshell, FileStep, store
  <2> QED
    BY <2>1, SameRowsSameStage
<1> QED
  BY <1>1, <1>2, <1>3, <1>4, <1>5, <1>6, <1>7, FileStage, SameRowsSameStage
     DEF WorkerStep, CheckpointStep

LEMMA NextIsForward ==
    ASSUME IInv, [Next]_vars
    PROVE  [Forward!Next]_stages
<1>1. ASSUME NEW o \in Ops, Apply(o) PROVE [Forward!Next]_stages
  BY <1>1, StateStage, StageStepIsForward DEF Apply, States
<1>2. ASSUME NEW o \in Ops, Cancel(o) PROVE [Forward!Next]_stages
  BY <1>2, CancelStage, StageStepIsForward
<1>3. CASE Start
  <2>1. \A a \in Ops : /\ row'[a].phase = row[a].phase
                        /\ row'[a].state = IF row[a].state = "running" THEN "recovering"
                                           ELSE row[a].state
    BY <1>3 DEF Start, IInv, TypeOK
  <2>2. \A a \in Ops : Stage(a)' = Stage(a)
    BY <2>1 DEF Stage, Live, PastIntent, Terminal
  <2>3. stages' = stages
    BY <2>2 DEF stages
  <2> QED
    BY <2>3
<1>4. CASE Edit \/ Meddle \/ Crash \/ UNCHANGED vars \/ \E o \in Ops : Fault(o)
  BY <1>4, SameRowsSameStage DEF Edit, Meddle, Crash, Fault, vars, store
<1> QED
  BY <1>1, <1>2, <1>3, <1>4, WorkerStage DEF Next

\* Past its intent a copy is never cancelled and never fails, and it succeeds only
\* from there.
THEOREM NeverTurnsBackHolds == Spec => NeverTurnsBack
<1>1. Init => Forward!Init
  <2>1. Init => \A a \in Ops : Stage(a) = "none"
    BY DEF Init, Stage
  <2> QED
    BY <2>1 DEF Forward!Init, stages
<1>2. IInv /\ [Next]_vars => [Forward!Next]_stages
  BY NextIsForward
<1> QED
  BY <1>1, <1>2, Invariance, PTL DEF Spec, NeverTurnsBack, Forward!ForwardSpec
=============================================================================
