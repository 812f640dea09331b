-------------------------- MODULE UnityMigrationProofs --------------------------
(***************************************************************************)
(* Theorems about UnityMigration for every set of migrations, everything a *)
(* preparation may replace, and any number of cancels, deaths, failing     *)
(* steps and interferences.                                                *)
(*                                                                         *)
(* The inductive invariant IInv ties the place of a worker to the phase in *)
(* its journal, and the phase to what there can be of an editor and in the *)
(* private directory.  An editor is started once because the launch intent *)
(* is durable before it and no phase from there on leads back to spawn.    *)
(*                                                                         *)
(* The second one, ReasonInv, is about the project: as long as nobody else *)
(* can have changed it, where each thing of a preparation is follows from  *)
(* the marker, so that a preparation, resumed or not, always fits.         *)
(* The last part proves that journals only go forward, whoever resumes.    *)
(***************************************************************************)
EXTENDS UnityMigration, WellFoundedInduction, TLAPS

\* Places of a worker that holds the Project lock.
Held == PCs \ {"idle", "begin", "lock"}

\* Places between the preflight and the start of the editor, and all before it.
Opening == {"preflighted", "look1", "materialize", "intent", "prepare", "prepared", "look2",
            "launchIntent", "spawn"}

\* Phases after the files told the new version.
Reobserved == {"project_reobserved", "state_committed", "cleanup_complete"}

\* The phase the journal has where the worker stands.
PlaceInv(o) ==
    /\ pc[o] \in {"look0", "check", "preflighted"} => row[o].phase = "accepted"
    /\ pc[o] \in {"look1", "materialize", "intent"} => row[o].phase = "preflight_complete"
    /\ pc[o] \in {"prepare", "prepared"} => row[o].phase = "preparation_intent"
    /\ pc[o] \in {"look2", "launchIntent"} => row[o].phase = "preparation_complete"
    /\ pc[o] \in {"spawn", "started", "noLaunch"} => row[o].phase = "launch_intent"
    /\ pc[o] \in {"wait", "exited"} => row[o].phase = "unity_started"
    /\ pc[o] \in {"observe", "ready", "unchanged", "failSafe"} => row[o].phase \in Launched
    /\ pc[o] \in {"resume", "commit"} => row[o].phase = "project_reobserved"
    /\ pc[o] \in {"cleanup", "cleaned"} => row[o].phase = "state_committed"
    /\ pc[o] = "finish" => row[o].phase = "cleanup_complete"
    /\ pc[o] = "failEarly" => row[o].phase \in Early
    /\ pc[o] = "cancelled" => row[o].phase \in Early \cup Prepared
    /\ pc[o] = "cancelled" /\ profile => row[o].phase \in Early
    /\ pc[o] = "recover" => row[o].phase \notin Early
    /\ pc[o] = "lock" => row[o].phase # "recovery_required"

\* What the state of a row says about its worker.
RowInv(o) ==
    /\ row[o].state = "absent" =>
          /\ pc[o] = "idle" /\ row[o].phase = "accepted"
          /\ ~row[o].exited /\ ~row[o].safe
    /\ row[o].state = "queued" => row[o].phase = "accepted" /\ pc[o] \in {"idle", "begin"}
    /\ row[o].state \in Terminal => pc[o] \in {"idle", "begin"}
    /\ pc[o] \in Held \cup {"lock"} => row[o].state \in {"running", "cancelling"}
    /\ pc[o] \in Held => lock = o
    /\ row[o].state = "cancelled" => row[o].phase \in Early \cup Prepared
    /\ row[o].state = "cancelled" /\ profile => row[o].phase \in Early
    /\ row[o].state = "succeeded" => row[o].phase = "cleanup_complete"

\* The editor is started once, after the launch intent.
LaunchInv(o) ==
    /\ launches[o] \in {0, 1}
    /\ launches[o] = 0 <=> editor[o] = "none"
    /\ row[o].phase \in Early \cup Prepared \/ pc[o] = "spawn" => launches[o] = 0
    /\ upgraded[o] => launches[o] = 1
    /\ row[o].exited \/ pc[o] = "exited" => editor[o] = "exited"
    /\ row[o].phase \in Reobserved => editor[o] # "running"
    /\ pc[o] \in {"ready", "unchanged", "failSafe"} => editor[o] # "running"

\* What a migration that gives up after the launch knows.
SafeInv(o) ==
    ~profile /\ editor[o] # "running" /\ (upgraded[o] => mishaps.outside > 0)

\* The private directory, and why an end may be reported.
JobInv(o) ==
    /\ ~profile \/ row[o].phase \in Early => job[o].backup = {} /\ job[o].mark = 0
    /\ row[o].phase \in {"state_committed", "cleanup_complete"} => committed[o]
    /\ row[o].phase = "cleanup_complete" \/ pc[o] = "cleaned" => job[o] = NoJob
    /\ pc[o] \in {"unchanged", "failSafe"} => SafeInv(o)
    /\ row[o].state = "failed" => row[o].phase \in Early \/ SafeInv(o)

OpInv(o) == PlaceInv(o) /\ RowInv(o) /\ LaunchInv(o) /\ JobInv(o)

\* While no daemon died and no observation failed, whoever is past its preflight
\* is alone with the project.
CalmInv ==
    mishaps.crash = 0 /\ mishaps.blind = 0 =>
        /\ \A o \in Ops : pc[o] \in {"begin", "lock"} => row[o].phase = "accepted"
        /\ \A o \in Ops : pc[o] \in Opening => Editors = {}
        /\ \A o, p \in Editors : o = p

WorldInv ==
    /\ daemon = "down" => mishaps.crash > 0
    /\ disk # "target" => \A o \in Ops : upgraded[o] => mishaps.outside > 0
    /\ CalmInv

IInv == TypeOK /\ WorldInv /\ \A o \in Ops : OpInv(o)

\* What a step of o's worker leaves to the others.
OnlyItsOwn(o) ==
    /\ \A a \in Ops \ {o} :
          /\ row'[a] = row[a] /\ pc'[a] = pc[a] /\ job'[a] = job[a]
          /\ committed'[a] = committed[a]
          /\ launches'[a] = launches[a] /\ editor'[a] = editor[a]
          /\ upgraded'[a] = upgraded[a]
          /\ lock = a => lock' = a
    /\ profile' = profile
    /\ mishaps.outside > 0 => mishaps'.outside > 0

Row == [state : States, phase : Phases, cancel : BOOLEAN, exited : BOOLEAN, safe : BOOLEAN]

-----------------------------------------------------------------------------
(* Helpers *)

\* A set of numbers that is not empty has a least one.
LEMMA Least == ASSUME NEW S, S \subseteq Nat, S # {} PROVE \E m \in S : \A n \in S : m <= n
<1> DEFINE R == {ss \in Nat \X Nat : ss[1] < ss[2]}
<1>1. IsWellFoundedOn(R, Nat)
  BY NatLessThanWellFounded DEF OpToRel
<1>2. \A x, y \in Nat : x < y => <<x, y>> \in R
  OBVIOUS
<1> HIDE DEF R
<1>3. PICK m \in S : \A n \in S : ~(<<n, m>> \in R)
  BY <1>1, WFMin
<1>4. ASSUME NEW n \in S PROVE m <= n
  <2>1. n \in Nat /\ m \in Nat /\ ~(n < m)
    BY <1>2, <1>3
  <2> QED
    BY <2>1
<1> QED
  BY <1>4

LEMMA OwnStep ==
    ASSUME IInv, NEW o \in Ops, TypeOK', WorldInv', OpInv(o)', OnlyItsOwn(o)
    PROVE  IInv'
<1>1. ASSUME NEW a \in Ops \ {o} PROVE OpInv(a)'
  <2>1. PlaceInv(a)'
    BY <1>1 DEF IInv, OpInv, PlaceInv, OnlyItsOwn
  <2>2. RowInv(a)'
    BY <1>1 DEF IInv, OpInv, RowInv, OnlyItsOwn
  <2>3. LaunchInv(a)'
    BY <1>1 DEF IInv, OpInv, LaunchInv, OnlyItsOwn
  <2>4. JobInv(a)'
    BY <1>1 DEF IInv, OpInv, JobInv, SafeInv, OnlyItsOwn
  <2> QED
    BY <2>1, <2>2, <2>3, <2>4 DEF OpInv
<1> QED
  BY <1>1 DEF IInv

LEMMA MishapIs ==
    ASSUME TypeOK, NEW c \in Causes, Mishap(c)
    PROVE  /\ mishaps' \in [Causes -> Nat] /\ mishaps'[c] > 0
           /\ \A d \in Causes : mishaps[d] > 0 => mishaps'[d] > 0
           /\ \A d \in Causes \ {c} : mishaps'[d] = mishaps[d]
<1>1. mishaps' = [mishaps EXCEPT ![c] = mishaps[c] + 1] /\ mishaps \in [Causes -> Nat]
  BY DEF Mishap, TypeOK
<1>2. mishaps[c] \in Nat
  BY <1>1
<1> QED
  BY <1>1, <1>2

\* What the calm asks of a step after which there are as many editors as before.
LEMMA CalmSame ==
    ASSUME IInv, NEW o \in Ops, pc' \in [Ops -> PCs], editor' = editor,
           \A a \in Ops \ {o} : pc'[a] = pc[a] /\ row'[a] = row[a],
           mishaps.crash > 0 => mishaps'.crash > 0, mishaps.blind > 0 => mishaps'.blind > 0,
           mishaps \in [Causes -> Nat], mishaps' \in [Causes -> Nat],
           pc'[o] \in {"begin", "lock"} =>
               \/ mishaps'.crash > 0
               \/ row'[o].phase = "accepted"
               \/ pc[o] \in {"begin", "lock"} /\ row'[o].phase = row[o].phase,
           pc'[o] \in Opening => \/ mishaps'.crash > 0 \/ mishaps'.blind > 0
                                 \/ pc[o] \in Opening \/ Editors = {}
    PROVE  CalmInv'
<1>1. SUFFICES ASSUME mishaps'.crash = 0, mishaps'.blind = 0
               PROVE  /\ \A a \in Ops : pc'[a] \in {"begin", "lock"} => row'[a].phase = "accepted"
                      /\ \A a \in Ops : pc'[a] \in Opening => Editors' = {}
                      /\ \A a, p \in Editors' : a = p
  BY DEF CalmInv
<1>2. mishaps.crash = 0 /\ mishaps.blind = 0
  <2>1. /\ mishaps["crash"] \in Nat /\ mishaps["blind"] \in Nat
        /\ mishaps'["crash"] \in Nat /\ mishaps'["blind"] \in Nat
    BY DEF Causes
  <2> QED
    BY <1>1, <2>1
<1>3. /\ \A a \in Ops : pc[a] \in {"begin", "lock"} => row[a].phase = "accepted"
      /\ \A a \in Ops : pc[a] \in Opening => Editors = {}
      /\ \A a, p \in Editors : a = p
  BY <1>2 DEF IInv, WorldInv, CalmInv
<1>4. Editors' = Editors
  BY DEF Editors
<1> QED
  BY <1>1, <1>3, <1>4

LEMMA OnwardIs ==
    ASSUME IInv, NEW o \in Ops, NEW there \in PCs, Onward(o, there)
    PROVE  /\ pc' \in [Ops -> PCs] /\ todo' \in [Ops -> SUBSET Things]
           /\ lock' \in Ops \cup {None}
           /\ pc'[o] = there /\ \A a \in Ops \ {o} : pc'[a] = pc[a]
           /\ \A a \in Ops \ {o} : lock = a => lock' = a
           /\ there # "idle" => lock' = lock
<1>1. pc' = [pc EXCEPT ![o] = there]
  BY DEF Onward, EndTask, Goto
<1>2. pc' \in [Ops -> PCs] /\ pc'[o] = there /\ \A a \in Ops \ {o} : pc'[a] = pc[a]
  BY <1>1 DEF IInv, TypeOK
<1>3. /\ todo' \in [Ops -> SUBSET Things] /\ lock' \in Ops \cup {None}
      /\ \A a \in Ops \ {o} : lock = a => lock' = a
      /\ there # "idle" => lock' = lock
  BY DEF Onward, EndTask, IInv, TypeOK
<1> QED
  BY <1>2, <1>3

\* A step of o's worker that starts no editor keeps the invariant if it keeps it
\* for o.
LEMMA WorkerKeeps ==
    ASSUME IInv, NEW o \in Ops, NEW there \in PCs \ {"begin"}, Onward(o, there),
           UNCHANGED <<profile, plan, disk, outside, daemon>>,
           row' \in [Ops -> Row], project' \in [rev : Nat, version : Versions],
           committed' \in [Ops -> BOOLEAN], files' \in [Things -> Content],
           job' \in [Ops -> Jobs], late' \in BOOLEAN, mishaps' \in [Causes -> Nat],
           \A c \in Causes : mishaps[c] > 0 => mishaps'[c] > 0,
           \A a \in Ops \ {o} : /\ row'[a] = row[a] /\ job'[a] = job[a]
                                /\ committed'[a] = committed[a],
           there = "lock" => pc[o] = "begin" /\ row'[o].phase = row[o].phase,
           there \in Opening => \/ mishaps'.blind > 0 \/ mishaps'.crash > 0
                                \/ pc[o] \in Opening \/ Editors = {},
           OpInv(o)'
    PROVE  IInv'
<1>1. TypeOK'
  BY OnwardIs DEF IInv, TypeOK, outside, Row
<1>2. CalmInv'
  <2>1. /\ "crash" \in Causes /\ "blind" \in Causes /\ mishaps \in [Causes -> Nat]
    BY DEF Causes, IInv, TypeOK
  <2> QED
    BY <2>1, OnwardIs, CalmSame DEF outside
<1>3. WorldInv'
  <2>1. "crash" \in Causes /\ "outside" \in Causes
    BY DEF Causes
  <2> QED
    BY <1>2, <2>1 DEF IInv, WorldInv, outside
<1>4. OnlyItsOwn(o)
  <2>1. "outside" \in Causes
    BY DEF Causes
  <2> QED
    BY <2>1, OnwardIs DEF OnlyItsOwn, outside
<1> QED
  BY <1>1, <1>3, <1>4, OwnStep

\* A step that only moves the worker.
LEMMA MoveIs ==
    ASSUME IInv, NEW o \in Ops, NEW here, NEW there \in PCs \ {"begin", "lock"},
           Move(o, here, there), mishaps' \in [Causes -> Nat],
           \A c \in Causes : mishaps[c] > 0 => mishaps'[c] > 0,
           there \in Opening => \/ mishaps'.blind > 0 \/ mishaps'.crash > 0
                                \/ pc[o] \in Opening \/ Editors = {}
    PROVE  /\ daemon = "up" /\ pc[o] = here /\ pc'[o] = there
           /\ UNCHANGED <<profile, row, plan, project, committed, disk, files, job>>
           /\ UNCHANGED <<editor, guest, launches, upgraded, late, daemon>>
           /\ there # "idle" => lock' = lock
           /\ OpInv(o)' => IInv'
<1>1. /\ daemon = "up" /\ pc[o] = here /\ pc'[o] = there /\ Onward(o, there)
      /\ UNCHANGED <<profile, row, plan, project, committed, disk, files, job>>
      /\ UNCHANGED <<editor, guest, launches, upgraded, late, daemon>>
      /\ there # "idle" => lock' = lock
  BY OnwardIs DEF Move, At, store, tree, outside
<1>2. ASSUME OpInv(o)' PROVE IInv'
  <2>1. /\ row' \in [Ops -> Row] /\ project' \in [rev : Nat, version : Versions]
        /\ committed' \in [Ops -> BOOLEAN] /\ files' \in [Things -> Content]
        /\ job' \in [Ops -> Jobs] /\ late' \in BOOLEAN
    BY <1>1 DEF IInv, TypeOK, Row
  <2> QED
    BY <1>1, <1>2, <2>1, WorkerKeeps DEF outside
<1> QED
  BY <1>1, <1>2

\* The same without a mishap.
LEMMA QuietMoveIs ==
    ASSUME IInv, NEW o \in Ops, NEW here, NEW there \in PCs \ {"begin", "lock"},
           Move(o, here, there), UNCHANGED mishaps,
           there \in Opening => pc[o] \in Opening \/ Editors = {}
    PROVE  /\ daemon = "up" /\ pc[o] = here /\ pc'[o] = there
           /\ UNCHANGED <<profile, row, plan, project, committed, disk, files, job>>
           /\ UNCHANGED <<editor, guest, launches, upgraded, late, daemon>>
           /\ there # "idle" => lock' = lock
           /\ OpInv(o)' => IInv'
<1>1. mishaps' \in [Causes -> Nat] /\ \A c \in Causes : mishaps[c] > 0 => mishaps'[c] > 0
  BY DEF IInv, TypeOK
<1> QED
  BY <1>1, MoveIs

\* What an observation does to the count of mishaps, and what it shows.
LEMMA SeesIs ==
    ASSUME IInv, NEW view \in {"none", "running", "unknown"}, Sees(view)
    PROVE  /\ mishaps' \in [Causes -> Nat]
           /\ \A c \in Causes : mishaps[c] > 0 => mishaps'[c] > 0
           /\ view = "none" => Editors = {} /\ ~guest
           /\ view = "unknown" => mishaps'.blind > 0
           /\ mishaps'.outside = mishaps.outside /\ mishaps'.crash = mishaps.crash
<1>1. "blind" \in Causes /\ "outside" \in Causes /\ "crash" \in Causes
  BY DEF Causes
<1>2. CASE view = "unknown" /\ Mishap("blind")
  BY <1>1, <1>2, MishapIs DEF IInv
<1>3. CASE view # "unknown" /\ UNCHANGED mishaps
  BY <1>3 DEF IInv, TypeOK, Sees, SomeEditor
<1> QED
  BY <1>2, <1>3 DEF Sees

-----------------------------------------------------------------------------
(* The worker *)

LEMMA BeginInv == ASSUME IInv, NEW o \in Ops, Begin(o) PROVE IInv'
<1>1. /\ pc[o] = "begin"
      /\ UNCHANGED <<profile, plan, project, committed, disk, files, job>>
      /\ UNCHANGED <<editor, guest, launches, upgraded, late, daemon, mishaps>>
  BY DEF Begin, At, tree, outside
<1>2. PICK there \in {"idle", "lock"} :
          /\ Onward(o, there)
          /\ \/ /\ row[o].state \in {"queued", "running", "recovering"}
                /\ row' = [row EXCEPT ![o].state = "running"]
                /\ there = "lock" => row[o].phase # "recovery_required"
             \/ there = "idle" /\ row' = row
                /\ row[o].state \notin {"queued", "running", "recovering"}
  BY DEF Begin, SetState, Onward
<1>3. /\ row' \in [Ops -> Row] /\ \A a \in Ops \ {o} : row'[a] = row[a]
      /\ row'[o].phase = row[o].phase /\ row'[o].exited = row[o].exited
      /\ row'[o].safe = row[o].safe
      /\ row'[o].state = "running" \/ (there = "idle" /\ row'[o].state = row[o].state)
  <2>1. row \in [Ops -> Row] /\ "running" \in States
    BY DEF IInv, TypeOK, Row, States
  <2> QED
    BY <1>2, <2>1 DEF Row
<1>4. there \in PCs \ {"begin"} /\ there \notin Opening \cup Held
  BY DEF PCs, Opening, Held
<1>5. pc'[o] = there
  BY <1>2, <1>4, OnwardIs
<1>6. OpInv(o)'
  <2>1. PlaceInv(o)'
    BY <1>2, <1>3, <1>5 DEF PlaceInv
  <2>2. RowInv(o)'
    BY <1>1, <1>2, <1>3, <1>4, <1>5 DEF IInv, OpInv, RowInv, Terminal
  <2>3. LaunchInv(o)'
    BY <1>1, <1>3, <1>5 DEF IInv, OpInv, LaunchInv
  <2>4. JobInv(o)'
    BY <1>1, <1>3, <1>5 DEF IInv, OpInv, JobInv, SafeInv
  <2> QED
    BY <2>1, <2>2, <2>3, <2>4 DEF OpInv
<1>7. /\ project' \in [rev : Nat, version : Versions]
      /\ committed' \in [Ops -> BOOLEAN] /\ files' \in [Things -> Content]
      /\ job' \in [Ops -> Jobs] /\ late' \in BOOLEAN /\ mishaps' \in [Causes -> Nat]
      /\ \A c \in Causes : mishaps[c] > 0 => mishaps'[c] > 0
  BY <1>1 DEF IInv, TypeOK
<1> QED
  BY <1>1, <1>2, <1>3, <1>4, <1>6, <1>7, WorkerKeeps DEF outside

LEMMA EntryIs ==
    ASSUME NEW phase \in Phases, phase # "recovery_required"
    PROVE  /\ Entry(phase) \in {"look0", "look1", "prepare", "look2", "observe", "resume",
                                "cleanup", "finish"}
           /\ Entry(phase) = "look0" <=> phase = "accepted"
           /\ Entry(phase) = "look1" <=> phase = "preflight_complete"
           /\ Entry(phase) = "prepare" <=> phase = "preparation_intent"
           /\ Entry(phase) = "look2" <=> phase = "preparation_complete"
           /\ Entry(phase) = "observe" <=> phase \in Launched
           /\ Entry(phase) = "resume" <=> phase = "project_reobserved"
           /\ Entry(phase) = "cleanup" <=> phase = "state_committed"
           /\ Entry(phase) = "finish" <=> phase = "cleanup_complete"
BY DEF Entry, Phases, Early, Prepared, Launched

LEMMA AcquireInv == ASSUME IInv, NEW o \in Ops, Acquire(o) PROVE IInv'
<1> DEFINE there == Entry(row[o].phase)
<1>1. /\ pc[o] = "lock" /\ lock = None /\ lock' = o
      /\ pc' = [pc EXCEPT ![o] = there]
      /\ todo' = [todo EXCEPT ![o] = Pending(job[o])]
      /\ UNCHANGED <<profile, row, plan, project, committed, disk, files, job>>
      /\ UNCHANGED <<editor, guest, launches, upgraded, late, daemon, mishaps>>
  BY DEF Acquire, At, Goto, store, tree, outside
<1>2. row[o].phase \in Phases /\ row[o].phase # "recovery_required"
  BY <1>1 DEF IInv, TypeOK, OpInv, PlaceInv
<1>3. there \in {"look0", "look1", "prepare", "look2", "observe", "resume", "cleanup", "finish"}
  BY <1>2, EntryIs
<1>4. pc'[o] = there /\ \A a \in Ops \ {o} : pc'[a] = pc[a]
  BY <1>1 DEF IInv, TypeOK
<1>5. Pending(job[o]) \in SUBSET Things
  BY DEF Pending, IInv, TypeOK, Jobs
<1>6. TypeOK'
  BY <1>1, <1>3, <1>5 DEF IInv, TypeOK, PCs
<1>7. OpInv(o)'
  <2>1. PlaceInv(o)'
    BY <1>1, <1>2, <1>3, <1>4, EntryIs DEF PlaceInv
  <2>2. RowInv(o)'
    BY <1>1, <1>3, <1>4 DEF IInv, OpInv, RowInv, Terminal
  <2>3. LaunchInv(o)'
    BY <1>1, <1>3, <1>4 DEF IInv, OpInv, LaunchInv
  <2>4. JobInv(o)'
    BY <1>1, <1>3, <1>4 DEF IInv, OpInv, JobInv, SafeInv
  <2> QED
    BY <2>1, <2>2, <2>3, <2>4 DEF OpInv
<1>8. CalmInv'
  <2>1. pc'[o] \in Opening => mishaps.crash > 0 \/ mishaps.blind > 0
    <3>1. pc'[o] \in Opening => row[o].phase # "accepted"
      BY <1>2, <1>4, EntryIs DEF Opening
    <3>2. mishaps["crash"] \in Nat /\ mishaps["blind"] \in Nat
      BY DEF IInv, TypeOK, Causes
    <3> QED
      BY <1>1, <3>1, <3>2 DEF IInv, WorldInv, CalmInv
  <2> QED
    BY <1>1, <1>3, <1>4, <1>6, <2>1, CalmSame DEF IInv, TypeOK
<1>9. WorldInv' /\ OnlyItsOwn(o)
  BY <1>1, <1>4, <1>8, MigrationAssumption DEF IInv, WorldInv, OnlyItsOwn
<1> QED
  BY <1>6, <1>7, <1>9, OwnStep

\* What a worker has to show where it goes.
Arrival(o, there) ==
    /\ there = "spawn" => launches[o] = 0
    /\ there = "exited" => editor[o] = "exited"
    /\ there \in {"ready", "unchanged", "failSafe"} => editor[o] # "running"
    /\ there \in {"unchanged", "failSafe"} => SafeInv(o)
    /\ there = "cleaned" => job[o] = NoJob

LEMMA Arrives ==
    ASSUME IInv, NEW o \in Ops, NEW here \in Held, NEW there \in Held \cup {"idle"},
           Move(o, here, there), mishaps' \in [Causes -> Nat],
           \A c \in Causes : mishaps[c] > 0 => mishaps'[c] > 0,
           there \in Opening => \/ mishaps'.blind > 0 \/ mishaps'.crash > 0
                                \/ pc[o] \in Opening \/ Editors = {},
           pc'[o] = there /\ row' = row /\ profile' = profile => PlaceInv(o)',
           pc[o] = here => Arrival(o, there)
    PROVE  IInv'
<1>1. there \in PCs \ {"begin", "lock"}
  BY DEF Held, PCs
<1>2. /\ daemon = "up" /\ pc[o] = here /\ pc'[o] = there
      /\ UNCHANGED <<profile, row, plan, project, committed, disk, files, job>>
      /\ UNCHANGED <<editor, guest, launches, upgraded, late, daemon>>
      /\ there # "idle" => lock' = lock
      /\ OpInv(o)' => IInv'
  BY <1>1, MoveIs
<1>3. here \notin {"idle", "begin", "lock"}
  BY DEF Held
<1>4. RowInv(o)'
  BY <1>2, <1>3 DEF IInv, OpInv, RowInv, Held
<1>5. LaunchInv(o)'
  BY <1>2 DEF IInv, OpInv, LaunchInv, Arrival
<1>6. mishaps.outside > 0 => mishaps'.outside > 0
  BY DEF Causes
<1>7. JobInv(o)'
  BY <1>2, <1>6 DEF IInv, OpInv, JobInv, Arrival, SafeInv
<1> QED
  BY <1>2, <1>4, <1>5, <1>7 DEF OpInv

\* The same without a mishap.
LEMMA QuietlyArrives ==
    ASSUME IInv, NEW o \in Ops, NEW here \in Held, NEW there \in Held \cup {"idle"},
           Move(o, here, there), UNCHANGED mishaps,
           there \in Opening => pc[o] \in Opening \/ Editors = {},
           pc'[o] = there /\ row' = row /\ profile' = profile => PlaceInv(o)',
           pc[o] = here => Arrival(o, there)
    PROVE  IInv'
<1>1. mishaps' \in [Causes -> Nat] /\ \A c \in Causes : mishaps[c] > 0 => mishaps'[c] > 0
  BY DEF IInv, TypeOK
<1> QED
  BY <1>1, Arrives

LEMMA LookInv ==
    ASSUME IInv, NEW o \in Ops, NEW here, NEW there,
           \/ here = "look0" /\ there = "check"
           \/ here = "look1" /\ there = "materialize"
           \/ here = "look2" /\ there = "launchIntent" /\ ~profile,
           Look(o, here, there)
    PROVE  IInv'
<1> DEFINE where == IF row[o].cancel THEN "cancelled" ELSE there
<1>1. Move(o, here, where) /\ UNCHANGED mishaps /\ pc[o] = here
  BY DEF Look, Move, At
<1>2. here \in Held /\ where \in Held
  BY DEF Held, PCs
<1>3. where \in Opening => pc[o] \in Opening
  BY <1>1 DEF Opening
<1>4. pc'[o] = where /\ row' = row /\ profile' = profile => PlaceInv(o)'
  BY <1>1 DEF IInv, OpInv, PlaceInv, Early, Prepared
<1>5. Arrival(o, where)
  BY DEF Arrival
<1> QED
  BY <1>1, <1>2, <1>3, <1>4, <1>5, QuietlyArrives

LEMMA Look2Inv == ASSUME IInv, NEW o \in Ops, Look2(o) PROVE IInv'
<1>1. CASE profile
  <2>1. Move(o, "look2", "launchIntent") /\ UNCHANGED mishaps /\ pc[o] = "look2"
    BY <1>1 DEF Look2, Move, At
  <2>2. "look2" \in Held /\ "launchIntent" \in Held /\ "look2" \in Opening
    BY DEF Held, PCs, Opening
  <2>3. pc'[o] = "launchIntent" /\ row' = row /\ profile' = profile => PlaceInv(o)'
    BY <2>1 DEF IInv, OpInv, PlaceInv
  <2>4. Arrival(o, "launchIntent")
    BY DEF Arrival
  <2> QED
    BY <2>1, <2>2, <2>3, <2>4, QuietlyArrives
<1>2. CASE ~profile
  BY <1>2, LookInv DEF Look2
<1> QED
  BY <1>1, <1>2

LEMMA CheckInv == ASSUME IInv, NEW o \in Ops, Check(o) PROVE IInv'
<1>1. "check" \in Held /\ "preflighted" \in Held /\ "failEarly" \in Held
  BY DEF Held, PCs
<1>2. pc[o] = "check"
  BY DEF Check, Move, At
<1>3. /\ pc'[o] \in {"preflighted", "failEarly"} /\ row' = row /\ profile' = profile
         => PlaceInv(o)'
      /\ Arrival(o, "preflighted") /\ Arrival(o, "failEarly")
  BY <1>2 DEF IInv, OpInv, PlaceInv, Arrival, Early
<1>4. ASSUME NEW view \in {"none", "running", "unknown"}, Sees(view),
             Move(o, "check", IF view # "running" /\ AsPlanned(o)
                              THEN "preflighted" ELSE "failEarly")
      PROVE  IInv'
  <2>1. /\ mishaps' \in [Causes -> Nat]
        /\ \A c \in Causes : mishaps[c] > 0 => mishaps'[c] > 0
        /\ view = "none" => Editors = {}
        /\ view = "unknown" => mishaps'.blind > 0
    BY <1>4, SeesIs
  <2>2. CASE view # "running" /\ AsPlanned(o)
    <3>1. Move(o, "check", "preflighted")
      BY <1>4, <2>2
    <3>2. mishaps'.blind > 0 \/ Editors = {}
      BY <2>1, <2>2
    <3> QED
      BY <1>1, <1>3, <2>1, <3>1, <3>2, Arrives
  <2>3. CASE ~(view # "running" /\ AsPlanned(o))
    <3>1. Move(o, "check", "failEarly")
      BY <1>4, <2>3
    <3>2. "failEarly" \notin Opening
      BY DEF Opening
    <3> QED
      BY <1>1, <1>3, <2>1, <3>1, <3>2, Arrives
  <2> QED
    BY <2>2, <2>3
<1>5. CASE Move(o, "check", "failEarly") /\ UNCHANGED mishaps
  <2>1. "failEarly" \notin Opening
    BY DEF Opening
  <2> QED
    BY <1>1, <1>3, <1>5, <2>1, QuietlyArrives
<1> QED
  BY <1>4, <1>5 DEF Check

\* Every use of Checkpoint: where the worker is, what it records, where it goes.
Recorded(o) ==
    {<<"preflighted", "preflight_complete", "look1">>,
     <<"intent", "preparation_intent", "prepare">>,
     <<"prepared", "preparation_complete", "look2">>,
     <<"launchIntent", "launch_intent", "spawn">>,
     <<"started", "unity_started", "wait">>,
     <<"exited", "unity_exited", "observe">>,
     <<"noLaunch", "launch_intent", "observe">>,
     <<"ready", "project_reobserved", "commit">>,
     <<"unchanged", row[o].phase, "failSafe">>,
     <<"cleaned", "cleanup_complete", "finish">>,
     <<"recover", "recovery_required", "idle">>}

LEMMA CheckpointIs ==
    ASSUME IInv, NEW o \in Ops, NEW here, NEW phase, NEW there,
           <<here, phase, there>> \in Recorded(o), Checkpoint(o, here, phase, there)
    PROVE  /\ pc[o] = here /\ Onward(o, there)
           /\ here \in Held /\ there \in PCs \ {"begin", "lock"} /\ pc'[o] = there
           /\ UNCHANGED <<profile, plan, project, committed, disk, files, job>>
           /\ UNCHANGED <<editor, guest, launches, upgraded, late, daemon, mishaps>>
           /\ row' \in [Ops -> Row] /\ \A a \in Ops \ {o} : row'[a] = row[a]
           /\ row[o].state \in {"running", "cancelling"} /\ row'[o].state = row[o].state
           /\ row'[o].phase = phase /\ row'[o].cancel = row[o].cancel
           /\ row'[o].exited <=> (row[o].exited \/ here = "exited")
           /\ row'[o].safe <=> (row[o].safe \/ here = "unchanged")
<1>1. /\ pc[o] = here
      /\ UNCHANGED <<profile, plan, project, committed, disk, files, job>>
      /\ UNCHANGED <<editor, guest, launches, upgraded, late, daemon, mishaps>>
  BY DEF Checkpoint, At, tree, outside
<1>2. row \in [Ops -> Row] /\ row[o].phase \in Phases
  BY DEF IInv, TypeOK, Row
<1>3. phase \in Phases
  BY <1>2 DEF Recorded, Phases, Early, Prepared, Launched
<1>4. here \in Held /\ there \in PCs \ {"begin", "lock"}
  BY DEF Recorded, Held, PCs
<1>5. row[o].state \in {"running", "cancelling"}
  BY <1>1, <1>4 DEF IInv, OpInv, RowInv
<1>6. Onward(o, there) /\ row' = [row EXCEPT ![o].phase = phase,
                                             ![o].exited = @ \/ here = "exited",
                                             ![o].safe = @ \/ here = "unchanged"]
  BY <1>5 DEF Checkpoint
<1> DEFINE r   == row[o]
           new == [r EXCEPT !.phase = phase, !.exited = r.exited \/ here = "exited",
                            !.safe = r.safe \/ here = "unchanged"]
<1>7. r \in Row /\ row' = [row EXCEPT ![o] = new]
  BY <1>2, <1>6
<1>8. /\ new \in Row /\ new.phase = phase /\ new.state = r.state /\ new.cancel = r.cancel
      /\ new.exited <=> (r.exited \/ here = "exited")
      /\ new.safe <=> (r.safe \/ here = "unchanged")
  BY <1>3, <1>7 DEF Row
<1>9. /\ row' \in [Ops -> Row] /\ \A a \in Ops \ {o} : row'[a] = row[a]
      /\ row'[o] = new
  <2> HIDE DEF new
  <2> QED
    BY <1>2, <1>7, <1>8
<1>10. pc'[o] = there
  BY <1>4, <1>6, OnwardIs
<1> HIDE DEF new
<1> QED
  BY <1>1, <1>4, <1>5, <1>6, <1>8, <1>9, <1>10

LEMMA CheckpointInv ==
    ASSUME IInv, NEW o \in Ops, NEW here, NEW phase, NEW there,
           <<here, phase, there>> \in Recorded(o), Checkpoint(o, here, phase, there)
    PROVE  IInv'
<1>1. /\ pc[o] = here /\ Onward(o, there)
      /\ here \in Held /\ there \in PCs \ {"begin", "lock"} /\ pc'[o] = there
      /\ UNCHANGED <<profile, plan, project, committed, disk, files, job>>
      /\ UNCHANGED <<editor, guest, launches, upgraded, late, daemon, mishaps>>
      /\ row' \in [Ops -> Row] /\ \A a \in Ops \ {o} : row'[a] = row[a]
      /\ row[o].state \in {"running", "cancelling"} /\ row'[o].state = row[o].state
      /\ row'[o].phase = phase
      /\ row'[o].exited <=> (row[o].exited \/ here = "exited")
  BY CheckpointIs
<1>2. there # "idle" => lock' = lock
  BY <1>1, OnwardIs
<1>3. lock = o
  BY <1>1 DEF IInv, OpInv, RowInv
<1>4. PlaceInv(o)'
  BY <1>1 DEF IInv, OpInv, PlaceInv, Recorded, Launched, Early, Prepared
<1>5. RowInv(o)'
  BY <1>1, <1>2, <1>3 DEF RowInv, Terminal, Held
<1>6. LaunchInv(o)'
  BY <1>1 DEF IInv, OpInv, PlaceInv, LaunchInv, Recorded, Launched, Early, Prepared, Reobserved
<1>7. JobInv(o)'
  <2>1. row'[o].state # "failed"
    BY <1>1
  <2> QED
    BY <1>1, <2>1 DEF IInv, OpInv, PlaceInv, JobInv, SafeInv, Recorded, Launched, Early, Prepared
<1>8. there \in Opening => pc[o] \in Opening
  BY <1>1 DEF Recorded, Opening
<1>9. /\ project' \in [rev : Nat, version : Versions]
      /\ committed' \in [Ops -> BOOLEAN] /\ files' \in [Things -> Content]
      /\ job' \in [Ops -> Jobs] /\ late' \in BOOLEAN /\ mishaps' \in [Causes -> Nat]
      /\ \A c \in Causes : mishaps[c] > 0 => mishaps'[c] > 0
  BY <1>1 DEF IInv, TypeOK
<1> QED
  BY <1>1, <1>4, <1>5, <1>6, <1>7, <1>8, <1>9, WorkerKeeps DEF OpInv, outside

-----------------------------------------------------------------------------
(* The preparation *)

LEMMA NoJobIs == NoJob \in Jobs /\ NoJob.backup = {} /\ NoJob.mark = 0
<1>1. [t \in Things |-> "none"] \in [Things -> Content]
  BY DEF Content
<1> QED
  BY <1>1 DEF NoJob, Jobs

\* The private directory as materialize leaves it.
Materialized(muts) ==
    [NoJob EXCEPT !.artifact = TRUE, !.muts = muts, !.before = files,
        !.staged = {t \in muts : Kind[t] \notin {"remove", "legacy"}}]

LEMMA MaterializeInv == ASSUME IInv, NEW o \in Ops, Materialize(o) PROVE IInv'
<1>1. "materialize" \in Held /\ "failEarly" \in Held /\ pc[o] = "materialize"
  BY DEF Held, PCs, Materialize, Move, At
<1>2. CASE Move(o, "materialize", "failEarly") /\ UNCHANGED mishaps
  <2>1. pc'[o] = "failEarly" /\ row' = row /\ profile' = profile => PlaceInv(o)'
    BY <1>1 DEF IInv, OpInv, PlaceInv, Early
  <2>2. "failEarly" \notin Opening /\ Arrival(o, "failEarly")
    BY DEF Opening, Arrival
  <2> QED
    BY <1>1, <1>2, <2>1, <2>2, QuietlyArrives
<1>3. CASE ~Move(o, "materialize", "failEarly")
  <2>1. PICK muts \in SUBSET Things : job' = [job EXCEPT ![o] = Materialized(muts)]
    <3> DEFINE m == IF ~profile THEN {}
                    ELSE {t \in Things : Package(t) =>
                             \A u \in Things : Kind[u] = "vpm" => files[u] = "old"}
    <3>1. m \in SUBSET Things
      OBVIOUS
    <3>2. job' = [job EXCEPT ![o] = Materialized(m)]
      BY <1>3 DEF Materialize, Materialized
    <3> HIDE DEF m
    <3> QED
      BY <3>1, <3>2
  <2>2. /\ Onward(o, "intent") /\ pc[o] = "materialize"
        /\ UNCHANGED <<profile, row, plan, project, committed, disk, files>>
        /\ UNCHANGED <<editor, guest, launches, upgraded, late, daemon, mishaps>>
    BY <1>3 DEF Materialize, At, store, outside
  <2> DEFINE j == Materialized(muts)
  <2>3. j \in Jobs /\ j.backup = {} /\ j.mark = 0
    <3> DEFINE staged == {t \in muts : Kind[t] \notin {"remove", "legacy"}}
    <3>1. files \in [Things -> Content] /\ staged \in SUBSET Things
      BY DEF IInv, TypeOK
    <3>2. j = [NoJob EXCEPT !.artifact = TRUE, !.muts = muts, !.before = files,
                            !.staged = staged]
      BY DEF Materialized
    <3> HIDE DEF staged, j
    <3> QED
      BY <3>1, <3>2, NoJobIs DEF Jobs
  <2>4. /\ job' \in [Ops -> Jobs] /\ \A a \in Ops \ {o} : job'[a] = job[a]
        /\ job'[o].backup = {} /\ job'[o].mark = 0
    <3>1. job' = [job EXCEPT ![o] = j]
      BY <2>1
    <3> HIDE DEF j
    <3> QED
      BY <2>3, <3>1 DEF IInv, TypeOK
  <2>5. "intent" \in PCs \ {"begin"} /\ "intent" # "lock" /\ "materialize" \in Opening
    BY DEF PCs, Opening
  <2>6. pc'[o] = "intent" /\ lock' = lock
    BY <2>2, <2>5, OnwardIs
  <2>7. row[o].phase = "preflight_complete"
    BY <1>1 DEF IInv, OpInv, PlaceInv
  <2>8. OpInv(o)'
    <3>1. PlaceInv(o)'
      BY <2>2, <2>6, <2>7 DEF PlaceInv
    <3>2. RowInv(o)'
      BY <1>1, <2>2, <2>6 DEF IInv, OpInv, RowInv, Held, PCs
    <3>3. LaunchInv(o)'
      BY <2>2, <2>6 DEF IInv, OpInv, LaunchInv
    <3>4. JobInv(o)'
      BY <2>2, <2>4, <2>6, <2>7 DEF IInv, OpInv, JobInv, SafeInv
    <3> QED
      BY <3>1, <3>2, <3>3, <3>4 DEF OpInv
  <2>9. /\ row' \in [Ops -> Row] /\ project' \in [rev : Nat, version : Versions]
        /\ committed' \in [Ops -> BOOLEAN] /\ files' \in [Things -> Content]
        /\ late' \in BOOLEAN /\ mishaps' \in [Causes -> Nat]
        /\ \A c \in Causes : mishaps[c] > 0 => mishaps'[c] > 0
    BY <2>2 DEF IInv, TypeOK, Row
  <2> QED
    BY <2>2, <2>4, <2>5, <2>8, <2>9, WorkerKeeps DEF outside
<1> QED
  BY <1>2, <1>3 DEF Materialize

\* A step of the preparation changes files and the private directory only.
LEMMA PreparationKeeps ==
    ASSUME IInv, NEW o \in Ops, Preparing(o), UNCHANGED <<pc, lock>>,
           NEW j \in Jobs, job' = [job EXCEPT ![o] = j],
           files' \in [Things -> Content], todo' \in [Ops -> SUBSET Things]
    PROVE  IInv'
<1>1. /\ pc[o] = "prepare" /\ profile /\ pc' = pc /\ lock' = lock
      /\ UNCHANGED <<profile, row, plan, project, committed, disk>>
      /\ UNCHANGED <<editor, guest, launches, upgraded, late, daemon, mishaps>>
  BY DEF Preparing, At, store, outside
<1>2. job' \in [Ops -> Jobs] /\ \A a \in Ops \ {o} : job'[a] = job[a]
  BY DEF IInv, TypeOK
<1>3. TypeOK'
  BY <1>1, <1>2 DEF IInv, TypeOK
<1>4. row[o].phase = "preparation_intent"
  BY <1>1 DEF IInv, OpInv, PlaceInv
<1>5. OpInv(o)'
  <2>1. PlaceInv(o)' /\ RowInv(o)' /\ LaunchInv(o)'
    BY <1>1 DEF IInv, OpInv, PlaceInv, RowInv, LaunchInv
  <2>2. JobInv(o)'
    BY <1>1, <1>4 DEF IInv, OpInv, JobInv, Early, SafeInv
  <2> QED
    BY <2>1, <2>2 DEF OpInv
<1>6. WorldInv'
  BY <1>1 DEF IInv, WorldInv, CalmInv, Editors
<1>7. OnlyItsOwn(o)
  BY <1>1, <1>2 DEF OnlyItsOwn
<1> QED
  BY <1>3, <1>5, <1>6, <1>7, OwnStep

LEMMA FirstIs ==
    ASSUME TypeOK, NEW o \in Ops, todo[o] # {}
    PROVE  First(o) \in todo[o] /\ First(o) \in Things
<1>1. todo[o] \subseteq Things /\ todo[o] \subseteq Nat
  BY MigrationAssumption DEF TypeOK
<1>2. \E t \in todo[o] : \A u \in todo[o] : t <= u
  BY <1>1, Least
<1> QED
  BY <1>1, <1>2 DEF First

LEMMA PutAsideInv == ASSUME IInv, NEW o \in Ops, PutAside(o) PROVE IInv'
<1> DEFINE j == [job[o] EXCEPT !.backup = job[o].backup \cup {First(o)}]
<1>1. /\ Preparing(o) /\ todo[o] # {} /\ job' = [job EXCEPT ![o] = j]
      /\ files' = [files EXCEPT ![First(o)] = "none"] /\ UNCHANGED <<pc, todo, lock>>
  BY DEF PutAside, SetJob
<1>2. First(o) \in Things
  BY <1>1, FirstIs DEF IInv
<1>3. j \in Jobs
  <2>1. job[o] \in Jobs
    BY DEF IInv, TypeOK
  <2> QED
    BY <1>2, <2>1 DEF Jobs
<1>4. files' \in [Things -> Content] /\ todo' \in [Ops -> SUBSET Things]
  BY <1>1 DEF IInv, TypeOK, Content
<1> HIDE DEF j
<1> QED
  BY <1>1, <1>3, <1>4, PreparationKeeps

LEMMA PutInInv == ASSUME IInv, NEW o \in Ops, PutIn(o) PROVE IInv'
<1> DEFINE j == [job[o] EXCEPT !.staged = job[o].staged \ {First(o)}]
<1>1. /\ Preparing(o) /\ job' = [job EXCEPT ![o] = j] /\ UNCHANGED <<pc, lock>>
      /\ files' = [files EXCEPT ![First(o)] = "new"]
      /\ todo' = [todo EXCEPT ![o] = todo[o] \ {First(o)}]
  BY DEF PutIn, SetJob
<1>2. j \in Jobs
  <2>1. job[o] \in Jobs
    BY DEF IInv, TypeOK
  <2> QED
    BY <2>1 DEF Jobs
<1>3. files' \in [Things -> Content] /\ todo' \in [Ops -> SUBSET Things]
  BY <1>1 DEF IInv, TypeOK, Content
<1> HIDE DEF j
<1> QED
  BY <1>1, <1>2, <1>3, PreparationKeeps

LEMMA SkipInv == ASSUME IInv, NEW o \in Ops, Skip(o) PROVE IInv'
<1>1. /\ Preparing(o) /\ UNCHANGED <<files, job, pc, lock>>
      /\ todo' = [todo EXCEPT ![o] = todo[o] \ {First(o)}]
  BY DEF Skip
<1>2. /\ job[o] \in Jobs /\ job' = [job EXCEPT ![o] = job[o]]
      /\ files' \in [Things -> Content] /\ todo' \in [Ops -> SUBSET Things]
  BY <1>1 DEF IInv, TypeOK
<1> QED
  BY <1>1, <1>2, PreparationKeeps

LEMMA WriteMarkInv == ASSUME IInv, NEW o \in Ops, WriteMark(o) PROVE IInv'
<1> DEFINE j == [job[o] EXCEPT !.mark = job[o].mark + 1]
<1>1. /\ Preparing(o) /\ job' = [job EXCEPT ![o] = j] /\ UNCHANGED <<files, pc, lock>>
      /\ job[o].mark < 5 /\ todo' = [todo EXCEPT ![o] = Pending(j)]
  BY DEF WriteMark, SetJob
<1>2. j \in Jobs
  <2>1. job[o] \in Jobs
    BY DEF IInv, TypeOK
  <2>2. job[o].mark + 1 \in 0..5
    BY <1>1, <2>1 DEF Jobs
  <2> QED
    BY <2>1, <2>2 DEF Jobs
<1> HIDE DEF j
<1>3. Pending(j) \subseteq Things
  BY <1>2 DEF Pending, Jobs
<1>4. files' \in [Things -> Content] /\ todo' \in [Ops -> SUBSET Things]
  BY <1>1, <1>3 DEF IInv, TypeOK
<1> QED
  BY <1>1, <1>2, <1>4, PreparationKeeps

LEMMA CompleteInv == ASSUME IInv, NEW o \in Ops, Complete(o) PROVE IInv'
<1>1. /\ "prepare" \in Held /\ "prepared" \in Held /\ pc[o] = "prepare" /\ "prepare" \in Opening
      /\ Move(o, "prepare", "prepared") /\ UNCHANGED mishaps
  BY DEF Held, PCs, Complete, Move, At, Opening
<1>2. pc'[o] = "prepared" /\ row' = row /\ profile' = profile => PlaceInv(o)'
  BY <1>1 DEF IInv, OpInv, PlaceInv
<1>3. Arrival(o, "prepared")
  BY DEF Arrival
<1> QED
  BY <1>1, <1>2, <1>3, QuietlyArrives

LEMMA MisfitInv == ASSUME IInv, NEW o \in Ops, Misfit(o) PROVE IInv'
<1>1. /\ "prepare" \in Held /\ "recover" \in Held /\ pc[o] = "prepare" /\ "recover" \notin Opening
      /\ Move(o, "prepare", "recover") /\ UNCHANGED mishaps
  BY DEF Held, PCs, Misfit, Move, At, Opening
<1>2. pc'[o] = "recover" /\ row' = row /\ profile' = profile => PlaceInv(o)'
  BY <1>1 DEF IInv, OpInv, PlaceInv, Early
<1>3. Arrival(o, "recover")
  BY DEF Arrival
<1> QED
  BY <1>1, <1>2, <1>3, QuietlyArrives

-----------------------------------------------------------------------------
(* The editor, and the end of the worker *)

\* Spawn succeeds: nobody else is between its preflight and its launch, because
\* o has the Project lock.
LEMMA OpensInv ==
    ASSUME IInv, NEW o \in Ops, At(o, "spawn"), Onward(o, "started"),
           editor' = [editor EXCEPT ![o] = "running"],
           launches' = [launches EXCEPT ![o] = @ + 1],
           UNCHANGED <<store, tree, guest, upgraded, late, daemon, mishaps>>
    PROVE  IInv'
<1>1. /\ pc[o] = "spawn"
      /\ UNCHANGED <<profile, row, plan, project, committed, disk, files, job>>
      /\ UNCHANGED <<guest, upgraded, late, daemon, mishaps>>
  BY DEF At, store, tree
<1>2. "started" \in PCs /\ "started" \notin Opening /\ "spawn" \in Held \cap Opening
  BY DEF PCs, Opening, Held
<1>3. /\ pc' \in [Ops -> PCs] /\ todo' \in [Ops -> SUBSET Things]
      /\ pc'[o] = "started" /\ lock' = lock
      /\ \A a \in Ops \ {o} : pc'[a] = pc[a]
  BY <1>2, OnwardIs
<1>4. launches[o] = 0 /\ row[o].phase = "launch_intent"
  BY <1>1 DEF IInv, OpInv, LaunchInv, PlaceInv
<1>5. /\ editor' \in [Ops -> {"none", "running", "exited"}] /\ editor'[o] = "running"
      /\ launches' \in [Ops -> Nat] /\ launches'[o] = 1
      /\ \A a \in Ops \ {o} : editor'[a] = editor[a] /\ launches'[a] = launches[a]
  BY <1>4 DEF IInv, TypeOK
<1>6. TypeOK'
  BY <1>1, <1>3, <1>5 DEF IInv, TypeOK
<1>7. lock = o /\ \A a \in Ops \ {o} : pc'[a] \notin Opening
  <2>1. lock = o
    BY <1>1, <1>2 DEF IInv, OpInv, RowInv
  <2>2. Opening \subseteq Held
    BY DEF Opening, Held, PCs
  <2>3. ASSUME NEW a \in Ops \ {o} PROVE pc[a] \notin Held
    BY <2>1, <2>3 DEF IInv, OpInv, RowInv
  <2> QED
    BY <1>3, <2>1, <2>2, <2>3
<1>8. OpInv(o)'
  <2>1. PlaceInv(o)'
    BY <1>1, <1>3, <1>4 DEF PlaceInv
  <2>2. RowInv(o)'
    BY <1>1, <1>2, <1>3 DEF IInv, OpInv, RowInv
  <2>3. LaunchInv(o)'
    BY <1>1, <1>3, <1>4, <1>5 DEF IInv, OpInv, LaunchInv, Early, Prepared, Reobserved
  <2>4. JobInv(o)'
    <3>1. row[o].state # "failed"
      BY <1>1, <1>2 DEF IInv, OpInv, RowInv
    <3> QED
      BY <1>1, <1>3, <1>4, <3>1 DEF IInv, OpInv, JobInv
  <2> QED
    BY <2>1, <2>2, <2>3, <2>4 DEF OpInv
<1>9. WorldInv'
  <2>1. CASE mishaps.crash = 0 /\ mishaps.blind = 0
    <3>1. /\ Editors = {}
          /\ \A a \in Ops : pc[a] \in {"begin", "lock"} => row[a].phase = "accepted"
      BY <1>1, <1>2, <2>1 DEF IInv, WorldInv, CalmInv
    <3>2. Editors' = {o}
      BY <1>5, <3>1 DEF Editors
    <3>3. \A a \in Ops : pc'[a] \in {"begin", "lock"} => row'[a].phase = "accepted"
      BY <1>1, <1>3, <3>1
    <3>4. \A a \in Ops : pc'[a] \notin Opening
      BY <1>2, <1>3, <1>7
    <3> QED
      BY <1>1, <3>2, <3>3, <3>4 DEF IInv, WorldInv, CalmInv
  <2>2. CASE ~(mishaps.crash = 0 /\ mishaps.blind = 0)
    BY <1>1, <2>2 DEF IInv, WorldInv, CalmInv
  <2> QED
    BY <2>1, <2>2
<1>10. OnlyItsOwn(o)
  BY <1>1, <1>3, <1>5 DEF OnlyItsOwn
<1> QED
  BY <1>6, <1>8, <1>9, <1>10, OwnStep

LEMMA SpawnInv == ASSUME IInv, NEW o \in Ops, Spawn(o) PROVE IInv'
<1>1. CASE Move(o, "spawn", "noLaunch") /\ UNCHANGED mishaps
  <2>1. "spawn" \in Held /\ "noLaunch" \in Held /\ "noLaunch" \notin Opening /\ pc[o] = "spawn"
    BY <1>1 DEF Held, PCs, Move, At, Opening
  <2>2. pc'[o] = "noLaunch" /\ row' = row /\ profile' = profile => PlaceInv(o)'
    BY <2>1 DEF IInv, OpInv, PlaceInv
  <2>3. Arrival(o, "noLaunch")
    BY DEF Arrival
  <2> QED
    BY <1>1, <2>1, <2>2, <2>3, QuietlyArrives
<1> QED
  BY <1>1, OpensInv DEF Spawn

LEMMA WaitInv == ASSUME IInv, NEW o \in Ops, Wait(o) PROVE IInv'
<1>1. /\ Move(o, "wait", "exited") /\ UNCHANGED mishaps /\ pc[o] = "wait"
      /\ editor[o] = "exited"
      /\ "wait" \in Held /\ "exited" \in Held /\ "exited" \notin Opening
  BY DEF Wait, Held, PCs, Move, At, Opening
<1>2. pc'[o] = "exited" /\ row' = row /\ profile' = profile => PlaceInv(o)'
  BY <1>1 DEF IInv, OpInv, PlaceInv
<1>3. Arrival(o, "exited")
  BY <1>1 DEF Arrival
<1> QED
  BY <1>1, <1>2, <1>3, QuietlyArrives

\* With nobody seen, or its own end known, the editor of o is gone.
LEMMA ObserveInv == ASSUME IInv, NEW o \in Ops, Observe(o) PROVE IInv'
<1>1. PICK view \in {"none", "unknown"} :
          Sees(view) /\ Move(o, "observe", Disposition(o, view))
  BY DEF Observe
<1> DEFINE there == Disposition(o, view)
<1>2. /\ mishaps' \in [Causes -> Nat]
      /\ \A c \in Causes : mishaps[c] > 0 => mishaps'[c] > 0
      /\ view = "none" => Editors = {}
  BY <1>1, SeesIs
<1>3. pc[o] = "observe" /\ row[o].phase \in Launched
  BY <1>1 DEF Move, At, IInv, OpInv, PlaceInv
<1>4. there \in {"ready", "unchanged", "recover"}
  BY DEF Disposition
<1>5. "observe" \in Held /\ there \in Held /\ there \notin Opening
  BY <1>4 DEF Held, PCs, Opening
<1>6. pc'[o] = there /\ row' = row /\ profile' = profile => PlaceInv(o)'
  BY <1>3, <1>4 DEF PlaceInv, Launched, Early
<1>7. there # "recover" => editor[o] # "running"
  <2>1. CASE view = "none"
    BY <1>2, <2>1 DEF Editors
  <2>2. CASE view = "unknown" /\ there # "recover"
    <3>1. SUFFICES row[o].exited
      BY DEF IInv, OpInv, LaunchInv
    <3>2. (view = "unknown" /\ ~row[o].exited) => Disposition(o, view) = "recover"
      BY DEF Disposition
    <3> QED
      BY <2>2, <3>2
  <2> QED
    BY <1>1, <2>1, <2>2
<1>8. there = "unchanged" => disk # "target" /\ ~profile
  BY DEF Disposition
<1>9. there = "unchanged" => SafeInv(o)
  BY <1>7, <1>8 DEF SafeInv, IInv, WorldInv
<1>10. Arrival(o, there)
  BY <1>4, <1>7, <1>9 DEF Arrival
<1> QED
  BY <1>1, <1>2, <1>5, <1>6, <1>10, Arrives

LEMMA ResumeInv == ASSUME IInv, NEW o \in Ops, Resume(o) PROVE IInv'
<1>1. PICK view \in {"none", "running", "unknown"}, there \in {"commit", "recover"} :
          Sees(view) /\ Move(o, "resume", there)
  BY DEF Resume
<1>2. /\ mishaps' \in [Causes -> Nat]
      /\ \A c \in Causes : mishaps[c] > 0 => mishaps'[c] > 0
  BY <1>1, SeesIs
<1>3. pc[o] = "resume" /\ row[o].phase = "project_reobserved"
  BY <1>1 DEF Move, At, IInv, OpInv, PlaceInv
<1>4. "resume" \in Held /\ there \in Held /\ there \notin Opening
  BY <1>1 DEF Held, PCs, Opening
<1>5. pc'[o] = there /\ row' = row /\ profile' = profile => PlaceInv(o)'
  BY <1>1, <1>3 DEF PlaceInv, Early
<1>6. Arrival(o, there)
  BY <1>1 DEF Arrival
<1> QED
  BY <1>1, <1>2, <1>4, <1>5, <1>6, Arrives

\* An editor is seen running all through the window of the observation.
LEMMA TimeOutInv == ASSUME IInv, NEW o \in Ops, TimeOut(o) PROVE IInv'
<1>1. /\ pc[o] = "observe" /\ Onward(o, "recover") /\ late' \in BOOLEAN
      /\ UNCHANGED <<profile, row, plan, project, committed, disk, files, job>>
      /\ UNCHANGED <<editor, guest, launches, upgraded, daemon, mishaps>>
  BY DEF TimeOut, At, store, tree, outside
<1>2. /\ "recover" \in PCs \ {"begin"} /\ "recover" # "lock" /\ "recover" \notin Opening
      /\ "observe" \in Held
  BY DEF PCs, Opening, Held
<1>3. pc'[o] = "recover" /\ lock' = lock
  BY <1>1, <1>2, OnwardIs
<1>4. row[o].phase \in Launched
  BY <1>1 DEF IInv, OpInv, PlaceInv
<1>5. OpInv(o)'
  <2>1. PlaceInv(o)'
    BY <1>1, <1>3, <1>4 DEF PlaceInv, Launched, Early
  <2>2. RowInv(o)'
    BY <1>1, <1>2, <1>3 DEF IInv, OpInv, RowInv
  <2>3. LaunchInv(o)'
    BY <1>1, <1>3 DEF IInv, OpInv, LaunchInv
  <2>4. JobInv(o)'
    BY <1>1, <1>3 DEF IInv, OpInv, JobInv, SafeInv
  <2> QED
    BY <2>1, <2>2, <2>3, <2>4 DEF OpInv
<1>6. /\ row' \in [Ops -> Row] /\ project' \in [rev : Nat, version : Versions]
      /\ committed' \in [Ops -> BOOLEAN] /\ files' \in [Things -> Content]
      /\ job' \in [Ops -> Jobs] /\ mishaps' \in [Causes -> Nat]
      /\ \A c \in Causes : mishaps[c] > 0 => mishaps'[c] > 0
  BY <1>1 DEF IInv, TypeOK, Row
<1> QED
  BY <1>1, <1>2, <1>5, <1>6, WorkerKeeps DEF outside

\* A task that returns without a word leaves nothing to show.
LEMMA IdlesInv ==
    ASSUME IInv, NEW o \in Ops, EndTask(o),
           UNCHANGED <<store, tree, outside, late, daemon>>,
           mishaps' \in [Causes -> Nat], \A c \in Causes : mishaps[c] > 0 => mishaps'[c] > 0
    PROVE  IInv'
<1>1. /\ Onward(o, "idle") /\ "idle" \in PCs \ {"begin"} /\ "idle" # "lock"
      /\ "idle" \notin Opening /\ "idle" \notin Held
      /\ UNCHANGED <<profile, row, plan, project, committed, disk, files, job>>
      /\ UNCHANGED <<editor, guest, launches, upgraded, late, daemon>>
  BY DEF Onward, PCs, Opening, Held, store, tree, outside
<1>2. pc'[o] = "idle"
  BY <1>1, OnwardIs
<1>3. OpInv(o)'
  <2>1. PlaceInv(o)'
    BY <1>2 DEF PlaceInv
  <2>2. RowInv(o)'
    BY <1>1, <1>2 DEF IInv, OpInv, RowInv
  <2>3. LaunchInv(o)'
    BY <1>1, <1>2 DEF IInv, OpInv, LaunchInv
  <2>4. JobInv(o)'
    <3>1. mishaps.outside > 0 => mishaps'.outside > 0
      BY DEF Causes
    <3> QED
      BY <1>1, <1>2, <3>1 DEF IInv, OpInv, JobInv, SafeInv
  <2> QED
    BY <2>1, <2>2, <2>3, <2>4 DEF OpInv
<1>4. /\ row' \in [Ops -> Row] /\ project' \in [rev : Nat, version : Versions]
      /\ committed' \in [Ops -> BOOLEAN] /\ files' \in [Things -> Content]
      /\ job' \in [Ops -> Jobs] /\ late' \in BOOLEAN
  BY <1>1 DEF IInv, TypeOK, Row
<1> QED
  BY <1>1, <1>3, <1>4, WorkerKeeps DEF outside

LEMMA CommitInv == ASSUME IInv, NEW o \in Ops, Commit(o) PROVE IInv'
<1>1. /\ pc[o] = "commit" /\ mishaps \in [Causes -> Nat]
      /\ UNCHANGED <<profile, plan, disk, files, job>>
      /\ UNCHANGED <<editor, guest, launches, upgraded, late, daemon, mishaps>>
  BY DEF Commit, At, tree, outside, IInv, TypeOK
<1>2. CASE EndTask(o) /\ UNCHANGED <<row, project, committed>>
  BY <1>1, <1>2, IdlesInv DEF store, tree, outside
<1>3. CASE /\ row[o].state = "running" /\ row[o].phase = "project_reobserved"
           /\ project' = [rev |-> project.rev + 1, version |-> "target"]
           /\ committed' = [committed EXCEPT ![o] = TRUE]
           /\ row' = [row EXCEPT ![o].phase = "state_committed"]
           /\ Onward(o, "cleanup")
  <2>1. /\ row' \in [Ops -> Row] /\ \A a \in Ops \ {o} : row'[a] = row[a]
        /\ row'[o].phase = "state_committed" /\ row'[o].state = "running"
        /\ row'[o].exited = row[o].exited
    <3>1. row \in [Ops -> Row] /\ "state_committed" \in Phases
      BY DEF IInv, TypeOK, Row, Phases
    <3> QED
      BY <1>3, <3>1 DEF Row
  <2>2. /\ committed' \in [Ops -> BOOLEAN] /\ committed'[o]
        /\ \A a \in Ops \ {o} : committed'[a] = committed[a]
    BY <1>3 DEF IInv, TypeOK
  <2>3. project' \in [rev : Nat, version : Versions]
    BY <1>3 DEF IInv, TypeOK, Versions
  <2>4. /\ "cleanup" \in PCs \ {"begin"} /\ "cleanup" # "lock" /\ "cleanup" \notin Opening
        /\ "commit" \in Held
    BY DEF PCs, Opening, Held
  <2>5. pc'[o] = "cleanup" /\ lock' = lock
    BY <1>3, <2>4, OnwardIs
  <2>6. PlaceInv(o)'
    BY <2>1, <2>5 DEF PlaceInv
  <2>7. RowInv(o)'
    BY <1>1, <2>1, <2>4, <2>5 DEF IInv, OpInv, RowInv, Terminal
  <2>8. LaunchInv(o)'
    BY <1>1, <1>3, <2>1, <2>5 DEF IInv, OpInv, LaunchInv, Early, Prepared, Reobserved
  <2>9. JobInv(o)'
    BY <1>1, <2>1, <2>2, <2>5 DEF IInv, OpInv, JobInv, Early
  <2>10. /\ files' \in [Things -> Content] /\ job' \in [Ops -> Jobs] /\ late' \in BOOLEAN
         /\ mishaps' \in [Causes -> Nat] /\ \A c \in Causes : mishaps[c] > 0 => mishaps'[c] > 0
    BY <1>1 DEF IInv, TypeOK
  <2> QED
    BY <1>1, <1>3, <2>1, <2>2, <2>3, <2>4, <2>6, <2>7, <2>8, <2>9, <2>10, WorkerKeeps
        DEF OpInv, outside
<1> QED
  BY <1>2, <1>3 DEF Commit

LEMMA CleanupInv == ASSUME IInv, NEW o \in Ops, Cleanup(o) PROVE IInv'
<1>1. /\ pc[o] = "cleanup" /\ Onward(o, "cleaned") /\ job' = [job EXCEPT ![o] = NoJob]
      /\ UNCHANGED <<profile, row, plan, project, committed, disk, files>>
      /\ UNCHANGED <<editor, guest, launches, upgraded, late, daemon, mishaps>>
  BY DEF Cleanup, At, SetJob, store, outside
<1>2. /\ "cleaned" \in PCs \ {"begin"} /\ "cleaned" # "lock" /\ "cleaned" \notin Opening
      /\ "cleanup" \in Held
  BY DEF PCs, Opening, Held
<1>3. pc'[o] = "cleaned" /\ lock' = lock
  BY <1>1, <1>2, OnwardIs
<1>4. /\ job' \in [Ops -> Jobs] /\ job'[o] = NoJob
      /\ \A a \in Ops \ {o} : job'[a] = job[a]
  BY <1>1, NoJobIs DEF IInv, TypeOK
<1>5. row[o].phase = "state_committed"
  BY <1>1 DEF IInv, OpInv, PlaceInv
<1>6. OpInv(o)'
  <2>1. PlaceInv(o)'
    BY <1>1, <1>3, <1>5 DEF PlaceInv
  <2>2. RowInv(o)'
    BY <1>1, <1>2, <1>3 DEF IInv, OpInv, RowInv
  <2>3. LaunchInv(o)'
    BY <1>1, <1>3 DEF IInv, OpInv, LaunchInv
  <2>4. JobInv(o)'
    BY <1>1, <1>3, <1>4, <1>5, NoJobIs DEF IInv, OpInv, JobInv, SafeInv
  <2> QED
    BY <2>1, <2>2, <2>3, <2>4 DEF OpInv
<1>7. /\ row' \in [Ops -> Row] /\ project' \in [rev : Nat, version : Versions]
      /\ committed' \in [Ops -> BOOLEAN] /\ files' \in [Things -> Content]
      /\ late' \in BOOLEAN /\ mishaps' \in [Causes -> Nat]
      /\ \A c \in Causes : mishaps[c] > 0 => mishaps'[c] > 0
  BY <1>1 DEF IInv, TypeOK, Row
<1> QED
  BY <1>1, <1>2, <1>4, <1>6, <1>7, WorkerKeeps DEF outside

\* Every use of End: where the worker is, and what it reports when it is allowed to.
Reported(o) ==
    {<<"failEarly", "failed">>, <<"failSafe", "failed">>,
     <<"cancelled", "cancelled">>, <<"finish", "succeeded">>}

LEMMA EndInv ==
    ASSUME IInv, NEW o \in Ops, NEW here, NEW state, NEW allowed,
           <<here, state>> \in Reported(o), End(o, here, allowed, state)
    PROVE  IInv'
<1>1. /\ pc[o] = here /\ EndTask(o) /\ mishaps \in [Causes -> Nat]
      /\ UNCHANGED <<profile, plan, project, committed, disk, files, job>>
      /\ UNCHANGED <<editor, guest, launches, upgraded, late, daemon, mishaps>>
  BY DEF End, At, tree, outside, IInv, TypeOK
<1>2. CASE UNCHANGED row
  BY <1>1, <1>2, IdlesInv DEF store, tree, outside
<1>3. CASE row' = [row EXCEPT ![o].state = state]
  <2>1. /\ row' \in [Ops -> Row] /\ \A a \in Ops \ {o} : row'[a] = row[a]
        /\ row'[o].phase = row[o].phase /\ row'[o].state = state
        /\ row'[o].exited = row[o].exited
    <3>1. row \in [Ops -> Row] /\ state \in States
      BY DEF IInv, TypeOK, Row, Reported, States, Terminal
    <3> QED
      BY <1>3, <3>1 DEF Row
  <2>2. /\ Onward(o, "idle") /\ "idle" \in PCs \ {"begin"} /\ "idle" # "lock"
        /\ "idle" \notin Opening /\ "idle" \notin Held
    BY <1>1 DEF Onward, PCs, Opening, Held
  <2>3. pc'[o] = "idle"
    BY <2>2, OnwardIs
  <2>4. PlaceInv(o)'
    BY <2>3 DEF PlaceInv
  <2>5. RowInv(o)'
    <3>1. state \in Terminal
      BY DEF Reported, Terminal
    <3>2. /\ state = "cancelled" => /\ row[o].phase \in Early \cup Prepared
                                    /\ profile => row[o].phase \in Early
          /\ state = "succeeded" => row[o].phase = "cleanup_complete"
      BY <1>1 DEF Reported, IInv, OpInv, PlaceInv
    <3> QED
      BY <1>1, <2>1, <2>2, <2>3, <3>1, <3>2 DEF RowInv, Terminal
  <2>6. LaunchInv(o)'
    BY <1>1, <2>1, <2>3 DEF IInv, OpInv, LaunchInv
  <2>7. JobInv(o)'
    <3>1. state = "failed" => row[o].phase \in Early \/ SafeInv(o)
      BY <1>1 DEF Reported, IInv, OpInv, PlaceInv, JobInv
    <3> QED
      BY <1>1, <2>1, <2>3, <3>1 DEF IInv, OpInv, JobInv, SafeInv
  <2>8. /\ project' \in [rev : Nat, version : Versions]
        /\ committed' \in [Ops -> BOOLEAN] /\ files' \in [Things -> Content]
        /\ job' \in [Ops -> Jobs] /\ late' \in BOOLEAN
        /\ mishaps' \in [Causes -> Nat] /\ \A c \in Causes : mishaps[c] > 0 => mishaps'[c] > 0
    BY <1>1 DEF IInv, TypeOK
  <2> QED
    BY <1>1, <2>1, <2>2, <2>4, <2>5, <2>6, <2>7, <2>8, WorkerKeeps DEF OpInv, outside
<1> QED
  BY <1>2, <1>3 DEF End, SetState

LEMMA FaultInv == ASSUME IInv, NEW o \in Ops, Fault(o) PROVE IInv'
<1>1. /\ pc[o] \in PCs \ {"idle", "lock"} /\ daemon = "up" /\ Mishap("fault")
      /\ Onward(o, OnError(pc[o])) /\ "fault" \in Causes
      /\ UNCHANGED <<store, tree, outside, late, daemon>>
  BY DEF Fault, IInv, TypeOK, Causes
<1>2. mishaps' \in [Causes -> Nat] /\ \A c \in Causes : mishaps[c] > 0 => mishaps'[c] > 0
  BY <1>1, MishapIs DEF IInv
<1>3. CASE OnError(pc[o]) = "idle"
  BY <1>1, <1>2, <1>3, IdlesInv DEF Onward
<1>4. CASE OnError(pc[o]) # "idle"
  <2> DEFINE there == OnError(pc[o])
  <2>1. \/ pc[o] \in {"check", "materialize"} /\ there = "failEarly"
        \/ pc[o] = "spawn" /\ there = "noLaunch"
        \/ /\ pc[o] \in {"prepare", "wait", "observe", "resume", "cleanup"}
           /\ there = "recover"
    BY <1>4 DEF OnError
  <2>2. pc[o] \in Held /\ there \in Held /\ there \notin Opening
    BY <2>1 DEF Held, PCs, Opening
  <2>3. pc'[o] = there /\ row' = row /\ profile' = profile => PlaceInv(o)'
    <3> HIDE DEF there
    <3> QED
      BY <2>1 DEF IInv, OpInv, PlaceInv, Early, Launched
  <2>4. Arrival(o, there)
    BY <2>1 DEF Arrival
  <2>5. Move(o, pc[o], there)
    BY <1>1 DEF Move, At
  <2> QED
    BY <1>2, <2>2, <2>3, <2>4, <2>5, Arrives
<1> QED
  BY <1>3, <1>4

-----------------------------------------------------------------------------
(* Requests, other programs, the daemon process *)

LEMMA InitInv == Init => IInv
<1> SUFFICES ASSUME Init PROVE IInv
  OBVIOUS
<1>1. TypeOK
  <2>1. row \in [Ops -> [state : States, phase : Phases, cancel : BOOLEAN,
                         exited : BOOLEAN, safe : BOOLEAN]]
    BY DEF Init, States, Phases, Early
  <2>2. plan \in [Ops -> [rev : Nat, marker : Versions]]
        /\ project \in [rev : Nat, version : Versions] /\ disk \in Versions
    BY DEF Init, Versions
  <2>3. files \in [Things -> Content] /\ job \in [Ops -> Jobs]
    BY NoJobIs DEF Init, Content
  <2>4. pc \in [Ops -> PCs] /\ mishaps \in [Causes -> Nat]
    BY DEF Init, PCs
  <2> QED
    BY <2>1, <2>2, <2>3, <2>4 DEF TypeOK, Init
<1>2. WorldInv
  BY DEF Init, WorldInv, CalmInv, Editors, Opening
<1>3. ASSUME NEW o \in Ops PROVE OpInv(o)
  <2>1. /\ row[o].state = "absent" /\ row[o].phase = "accepted" /\ ~row[o].exited
        /\ ~row[o].safe
        /\ pc[o] = "idle" /\ job[o] = NoJob /\ editor[o] = "none" /\ launches[o] = 0
        /\ ~upgraded[o]
    BY DEF Init
  <2>2. PlaceInv(o)
    BY <2>1 DEF PlaceInv
  <2>3. RowInv(o)
    BY <2>1 DEF RowInv, Terminal, Held
  <2>4. LaunchInv(o)
    BY <2>1 DEF LaunchInv, Reobserved
  <2>5. JobInv(o)
    BY <2>1, NoJobIs DEF JobInv
  <2> QED
    BY <2>2, <2>3, <2>4, <2>5 DEF OpInv
<1> QED
  BY <1>1, <1>2, <1>3 DEF IInv

\* What the invariant is about, of all migrations at once.
Subject == <<profile, row, job, editor, launches, upgraded, committed, pc, lock, daemon>>

\* A step that leaves that alone keeps the invariant if the count of mishaps and
\* the marker allow it.
LEMMA SubjectKeeps ==
    ASSUME IInv, UNCHANGED Subject, TypeOK', \A c \in Causes : mishaps[c] > 0 => mishaps'[c] > 0,
           disk' = disk \/ disk' = "target" \/ mishaps'.outside > 0
    PROVE  IInv'
<1>1. /\ profile' = profile /\ row' = row /\ job' = job /\ editor' = editor /\ pc' = pc
      /\ launches' = launches /\ upgraded' = upgraded /\ committed' = committed
      /\ lock' = lock /\ daemon' = daemon
  BY DEF Subject
<1>2. /\ mishaps.outside > 0 => mishaps'.outside > 0
      /\ mishaps'.crash = 0 => mishaps.crash = 0
      /\ mishaps'.blind = 0 => mishaps.blind = 0
      /\ mishaps.crash > 0 => mishaps'.crash > 0
  <2>1. /\ mishaps["crash"] \in Nat /\ mishaps["blind"] \in Nat
        /\ "crash" \in Causes /\ "blind" \in Causes /\ "outside" \in Causes
    BY DEF IInv, TypeOK, Causes
  <2> QED
    BY <2>1
<1>3. ASSUME NEW o \in Ops PROVE OpInv(o)'
  <2>1. PlaceInv(o)' /\ RowInv(o)' /\ LaunchInv(o)'
    BY <1>1 DEF IInv, OpInv, PlaceInv, RowInv, LaunchInv
  <2>2. JobInv(o)'
    BY <1>1, <1>2 DEF IInv, OpInv, JobInv, SafeInv
  <2> QED
    BY <2>1, <2>2 DEF OpInv
<1>4. CalmInv'
  BY <1>1, <1>2 DEF IInv, WorldInv, CalmInv, Editors
<1>5. disk' # "target" => \A o \in Ops : upgraded[o] => mishaps'.outside > 0
  BY <1>2 DEF IInv, WorldInv
<1>6. WorldInv'
  BY <1>1, <1>2, <1>4, <1>5 DEF IInv, WorldInv
<1> QED
  BY <1>3, <1>6 DEF IInv

LEMMA StutterInv == ASSUME IInv, UNCHANGED vars PROVE IInv'
<1>1. TypeOK' /\ UNCHANGED Subject /\ disk' = disk
  BY DEF IInv, TypeOK, vars, store, tree, outside, process, Subject
<1>2. \A c \in Causes : mishaps[c] > 0 => mishaps'[c] > 0
  BY DEF vars
<1> QED
  BY <1>1, <1>2, SubjectKeeps

LEMMA PlanInv == ASSUME IInv, NEW o \in Ops, Plan(o) PROVE IInv'
<1>1. /\ plan' = [plan EXCEPT ![o] = [rev |-> project.rev, marker |-> disk]]
      /\ UNCHANGED <<profile, row, project, committed, disk, files, job>>
      /\ UNCHANGED <<editor, guest, launches, upgraded, late, daemon, pc, todo, lock, mishaps>>
  BY DEF Plan, tree, outside, process
<1>2. TypeOK'
  <2>1. [rev |-> project.rev, marker |-> disk] \in [rev : Nat, marker : Versions]
    BY DEF IInv, TypeOK
  <2>2. plan' \in [Ops -> [rev : Nat, marker : Versions]]
    BY <1>1, <2>1 DEF IInv, TypeOK
  <2> QED
    BY <1>1, <2>2 DEF IInv, TypeOK
<1>3. UNCHANGED Subject /\ \A c \in Causes : mishaps[c] > 0 => mishaps'[c] > 0
  BY <1>1 DEF Subject
<1> QED
  BY <1>1, <1>2, <1>3, SubjectKeeps

LEMMA TouchInv == ASSUME IInv, Touch PROVE IInv'
<1>1. /\ Mishap("touch") /\ "touch" \in Causes
      /\ UNCHANGED <<profile, row, plan, committed, disk, files, job>>
      /\ UNCHANGED <<editor, guest, launches, upgraded, late, daemon, pc, todo, lock>>
  BY DEF Touch, tree, outside, process, Causes
<1>2. mishaps' \in [Causes -> Nat] /\ \A c \in Causes : mishaps[c] > 0 => mishaps'[c] > 0
  BY <1>1, MishapIs DEF IInv
<1>3. project' \in [rev : Nat, version : Versions]
  BY DEF Touch, IInv, TypeOK
<1>4. TypeOK' /\ UNCHANGED Subject
  BY <1>1, <1>2, <1>3 DEF IInv, TypeOK, Subject
<1> QED
  BY <1>1, <1>2, <1>4, SubjectKeeps

LEMMA InterfereInv == ASSUME IInv, Interfere PROVE IInv'
<1>1. /\ Mishap("outside") /\ "outside" \in Causes
      /\ guest' \in BOOLEAN /\ disk' \in Versions
      /\ UNCHANGED <<profile, row, plan, project, committed, files, job>>
      /\ UNCHANGED <<editor, launches, upgraded, late, daemon, pc, todo, lock>>
  BY DEF Interfere, store, process, Causes, IInv, TypeOK
<1>2. /\ mishaps' \in [Causes -> Nat] /\ mishaps'["outside"] > 0
      /\ \A c \in Causes : mishaps[c] > 0 => mishaps'[c] > 0
  BY <1>1, MishapIs DEF IInv
<1>3. TypeOK' /\ UNCHANGED Subject
  BY <1>1, <1>2 DEF IInv, TypeOK, Subject
<1> QED
  BY <1>2, <1>3, SubjectKeeps

LEMMA GuestLeavesInv == ASSUME IInv, GuestLeaves PROVE IInv'
<1>1. TypeOK' /\ UNCHANGED Subject /\ disk' = disk
  BY DEF GuestLeaves, IInv, TypeOK, store, tree, process, Subject
<1>2. \A c \in Causes : mishaps[c] > 0 => mishaps'[c] > 0
  BY DEF GuestLeaves
<1> QED
  BY <1>1, <1>2, SubjectKeeps

LEMMA ApplyInv == ASSUME IInv, NEW o \in Ops, Apply(o) PROVE IInv'
<1>1. /\ row[o].state = "absent" /\ lock = None
      /\ row' = [row EXCEPT ![o].state = "queued"] /\ pc' = [pc EXCEPT ![o] = "begin"]
      /\ UNCHANGED <<profile, plan, project, committed, disk, files, job>>
      /\ UNCHANGED <<editor, guest, launches, upgraded, late, daemon, todo, lock>>
  BY DEF Apply, SetState, Goto, tree, outside
<1>2. /\ mishaps' \in [Causes -> Nat]
      /\ \A c \in Causes : mishaps[c] > 0 => mishaps'[c] > 0
      /\ mishaps'.outside = mishaps.outside
  <2>1. PICK view \in {"none", "unknown"} : Sees(view)
    BY DEF Apply
  <2> QED
    BY <2>1, SeesIs
<1>3. /\ row' \in [Ops -> Row] /\ \A a \in Ops \ {o} : row'[a] = row[a]
      /\ row'[o].state = "queued" /\ row'[o].phase = row[o].phase
      /\ row'[o].exited = row[o].exited
  <2>1. row \in [Ops -> Row] /\ "queued" \in States
    BY DEF IInv, TypeOK, Row, States
  <2> QED
    BY <1>1, <2>1 DEF Row
<1>4. /\ pc' \in [Ops -> PCs] /\ pc'[o] = "begin" /\ \A a \in Ops \ {o} : pc'[a] = pc[a]
      /\ "begin" \notin Opening \cup Held
  BY <1>1 DEF IInv, TypeOK, PCs, Opening, Held
<1>5. row[o].phase = "accepted"
  BY <1>1 DEF IInv, OpInv, RowInv
<1>6. TypeOK'
  BY <1>1, <1>2, <1>3, <1>4 DEF IInv, TypeOK, Row
<1>7. OpInv(o)'
  <2>1. PlaceInv(o)'
    BY <1>4 DEF PlaceInv
  <2>2. RowInv(o)'
    BY <1>3, <1>4, <1>5 DEF RowInv, Terminal
  <2>3. LaunchInv(o)'
    BY <1>1, <1>3, <1>4 DEF IInv, OpInv, LaunchInv
  <2>4. JobInv(o)'
    BY <1>1, <1>2, <1>3, <1>4 DEF IInv, OpInv, JobInv, SafeInv
  <2> QED
    BY <2>1, <2>2, <2>3, <2>4 DEF OpInv
<1>8. "crash" \in Causes /\ "blind" \in Causes /\ "outside" \in Causes
  BY DEF Causes
<1>9. CalmInv'
  <2>1. mishaps \in [Causes -> Nat] /\ editor' = editor
    BY <1>1 DEF IInv, TypeOK
  <2>2. mishaps.crash > 0 => mishaps'.crash > 0
    BY <1>2, <1>8
  <2>3. mishaps.blind > 0 => mishaps'.blind > 0
    BY <1>2, <1>8
  <2>4. row'[o].phase = "accepted" /\ pc'[o] \notin Opening
    BY <1>3, <1>4, <1>5
  <2> QED
    BY <1>2, <1>3, <1>4, <2>1, <2>2, <2>3, <2>4, CalmSame
<1>10. WorldInv' /\ OnlyItsOwn(o)
  BY <1>1, <1>2, <1>3, <1>4, <1>8, <1>9 DEF IInv, WorldInv, OnlyItsOwn
<1> QED
  BY <1>6, <1>7, <1>10, OwnStep

LEMMA CancelInv == ASSUME IInv, NEW o \in Ops, Cancel(o) PROVE IInv'
<1> DEFINE r   == row[o]
           new == [r EXCEPT !.state = IF r.state = "queued" THEN "cancelled" ELSE "cancelling",
                            !.cancel = TRUE]
<1>1. /\ Live(o) /\ Mishap("cancel") /\ "cancel" \in Causes
      /\ r \in Row /\ row' = [row EXCEPT ![o] = new]
      /\ UNCHANGED <<profile, plan, project, committed, disk, files, job>>
      /\ UNCHANGED <<editor, guest, launches, upgraded, late, daemon, pc, todo, lock>>
  BY DEF Cancel, tree, outside, process, Causes, IInv, TypeOK, Row
<1>2. /\ new \in Row /\ new.phase = r.phase /\ new.exited = r.exited /\ new.safe = r.safe
      /\ new.state = IF r.state = "queued" THEN "cancelled" ELSE "cancelling"
  BY <1>1 DEF Row, States, Terminal
<1>3. /\ row' \in [Ops -> Row] /\ \A a \in Ops \ {o} : row'[a] = row[a]
      /\ row'[o].phase = row[o].phase /\ row'[o].exited = row[o].exited
      /\ row'[o].state = IF row[o].state = "queued" THEN "cancelled" ELSE "cancelling"
  <2> HIDE DEF new
  <2> QED
    BY <1>1, <1>2 DEF IInv, TypeOK, Row
<1>4. /\ mishaps' \in [Causes -> Nat] /\ \A c \in Causes : mishaps[c] > 0 => mishaps'[c] > 0
      /\ mishaps'.outside = mishaps.outside
  <2>1. "outside" \in Causes \ {"cancel"}
    BY DEF Causes
  <2> QED
    BY <1>1, <2>1, MishapIs DEF IInv
<1>5. TypeOK'
  BY <1>1, <1>3, <1>4 DEF IInv, TypeOK, Row
<1>6. OpInv(o)'
  <2>1. PlaceInv(o)'
    BY <1>1, <1>3 DEF IInv, OpInv, PlaceInv
  <2>2. RowInv(o)'
    BY <1>1, <1>3 DEF IInv, OpInv, RowInv, Terminal, Early, Held
  <2>3. LaunchInv(o)'
    BY <1>1, <1>3 DEF IInv, OpInv, LaunchInv
  <2>4. JobInv(o)'
    BY <1>1, <1>3, <1>4 DEF IInv, OpInv, JobInv, SafeInv
  <2> QED
    BY <2>1, <2>2, <2>3, <2>4 DEF OpInv
<1>7. "crash" \in Causes /\ "blind" \in Causes /\ "outside" \in Causes
  BY DEF Causes
<1>8. CalmInv'
  BY <1>1, <1>3, <1>4, <1>5, <1>7, CalmSame DEF IInv, TypeOK
<1>9. WorldInv' /\ OnlyItsOwn(o)
  BY <1>1, <1>3, <1>4, <1>7, <1>8 DEF IInv, WorldInv, OnlyItsOwn
<1> QED
  BY <1>5, <1>6, <1>9, OwnStep

LEMMA UpgradeInv == ASSUME IInv, NEW o \in Ops, Upgrade(o) PROVE IInv'
<1>1. /\ editor[o] = "running" /\ disk' = "target"
      /\ upgraded' = [upgraded EXCEPT ![o] = TRUE]
      /\ UNCHANGED <<profile, row, plan, project, committed, files, job>>
      /\ UNCHANGED <<editor, guest, launches, late, daemon, pc, todo, lock, mishaps>>
  BY DEF Upgrade, store, process
<1>2. /\ upgraded' \in [Ops -> BOOLEAN] /\ \A a \in Ops \ {o} : upgraded'[a] = upgraded[a]
      /\ disk' \in Versions
  BY <1>1 DEF IInv, TypeOK, Versions
<1>3. TypeOK'
  BY <1>1, <1>2 DEF IInv, TypeOK
<1>4. launches[o] = 1
  BY <1>1 DEF IInv, OpInv, LaunchInv
<1>5. OpInv(o)'
  <2>1. PlaceInv(o)' /\ RowInv(o)'
    BY <1>1 DEF IInv, OpInv, PlaceInv, RowInv
  <2>2. LaunchInv(o)'
    BY <1>1, <1>4 DEF IInv, OpInv, LaunchInv
  <2>3. JobInv(o)'
    BY <1>1 DEF IInv, OpInv, JobInv, SafeInv
  <2> QED
    BY <2>1, <2>2, <2>3 DEF OpInv
<1>6. WorldInv'
  BY <1>1 DEF IInv, WorldInv, CalmInv, Editors
<1>7. OnlyItsOwn(o)
  BY <1>1, <1>2 DEF OnlyItsOwn
<1> QED
  BY <1>3, <1>5, <1>6, <1>7, OwnStep

LEMMA EditorExitsInv == ASSUME IInv, NEW o \in Ops, EditorExits(o) PROVE IInv'
<1>1. /\ editor[o] = "running" /\ editor' = [editor EXCEPT ![o] = "exited"]
      /\ UNCHANGED <<profile, row, plan, project, committed, disk, files, job>>
      /\ UNCHANGED <<guest, launches, upgraded, late, daemon, pc, todo, lock, mishaps>>
  BY DEF EditorExits, store, tree, process
<1>2. /\ editor' \in [Ops -> {"none", "running", "exited"}] /\ editor'[o] = "exited"
      /\ \A a \in Ops \ {o} : editor'[a] = editor[a]
  BY <1>1 DEF IInv, TypeOK
<1>3. TypeOK'
  BY <1>1, <1>2 DEF IInv, TypeOK
<1>4. OpInv(o)'
  <2>1. PlaceInv(o)' /\ RowInv(o)'
    BY <1>1 DEF IInv, OpInv, PlaceInv, RowInv
  <2>2. LaunchInv(o)'
    BY <1>1, <1>2 DEF IInv, OpInv, LaunchInv
  <2>3. JobInv(o)'
    BY <1>1, <1>2 DEF IInv, OpInv, JobInv, SafeInv
  <2> QED
    BY <2>1, <2>2, <2>3 DEF OpInv
<1>5. CalmInv'
  <2>1. Editors' \subseteq Editors
    BY <1>2 DEF Editors
  <2> QED
    BY <1>1, <2>1 DEF IInv, WorldInv, CalmInv
<1>6. WorldInv'
  BY <1>1, <1>5 DEF IInv, WorldInv
<1>7. OnlyItsOwn(o)
  BY <1>1, <1>2 DEF OnlyItsOwn
<1> QED
  BY <1>3, <1>4, <1>6, <1>7, OwnStep

\* The death of the daemon ends every task; a torn marker is one of a preparation.
LEMMA CrashInv == ASSUME IInv, Crash PROVE IInv'
<1>1. /\ Mishap("crash") /\ "crash" \in Causes /\ daemon' = "down"
      /\ pc' = [o \in Ops |-> "idle"] /\ todo' = [o \in Ops |-> {}] /\ lock' = None
      /\ UNCHANGED <<profile, row, plan, project, committed, disk, files>>
      /\ UNCHANGED <<editor, guest, launches, upgraded, late>>
  BY DEF Crash, store, outside, Causes
<1>2. /\ mishaps' \in [Causes -> Nat] /\ mishaps'["crash"] > 0
      /\ \A c \in Causes : mishaps[c] > 0 => mishaps'[c] > 0
  BY <1>1, MishapIs DEF IInv
<1>3. /\ job' \in [Ops -> Jobs]
      /\ \A o \in Ops : \/ job'[o] = job[o]
                        \/ profile /\ row[o].phase = "preparation_intent"
  <2>1. CASE UNCHANGED job
    BY <2>1 DEF IInv, TypeOK
  <2>2. CASE \E o \in Ops : /\ pc[o] = "prepare" /\ profile
                            /\ SetJob(o, [job[o] EXCEPT !.torn = TRUE])
    <3>1. PICK o \in Ops : /\ pc[o] = "prepare" /\ profile
                           /\ job' = [job EXCEPT ![o] = [job[o] EXCEPT !.torn = TRUE]]
      BY <2>2 DEF SetJob
    <3>2. row[o].phase = "preparation_intent"
      BY <3>1 DEF IInv, OpInv, PlaceInv
    <3>3. [job[o] EXCEPT !.torn = TRUE] \in Jobs
      <4>1. job[o] \in Jobs
        BY DEF IInv, TypeOK
      <4> QED
        BY <4>1 DEF Jobs
    <3> QED
      BY <3>1, <3>2, <3>3 DEF IInv, TypeOK
  <2> QED
    BY <2>1, <2>2 DEF Crash
<1>4. TypeOK'
  BY <1>1, <1>2, <1>3 DEF IInv, TypeOK, PCs
<1>5. ASSUME NEW o \in Ops PROVE OpInv(o)'
  <2>1. pc'[o] = "idle" /\ "idle" \notin Held
    BY <1>1 DEF Held
  <2>2. PlaceInv(o)'
    BY <2>1 DEF PlaceInv
  <2>3. RowInv(o)'
    BY <1>1, <2>1 DEF IInv, OpInv, RowInv
  <2>4. LaunchInv(o)'
    BY <1>1, <2>1 DEF IInv, OpInv, LaunchInv
  <2>5. JobInv(o)'
    <3>1. mishaps.outside > 0 => mishaps'.outside > 0
      BY <1>2 DEF Causes
    <3> QED
      BY <1>1, <1>3, <2>1, <3>1 DEF IInv, OpInv, JobInv, SafeInv, Early
  <2> QED
    BY <2>2, <2>3, <2>4, <2>5 DEF OpInv
<1>6. WorldInv'
  <2>1. /\ mishaps.outside > 0 => mishaps'.outside > 0
        /\ mishaps'.crash # 0
    BY <1>2 DEF Causes
  <2> QED
    BY <1>1, <1>2, <2>1 DEF IInv, WorldInv, CalmInv
<1> QED
  BY <1>4, <1>5, <1>6 DEF IInv

LEMMA StartInv == ASSUME IInv, Start PROVE IInv'
<1>1. /\ daemon = "down" /\ daemon' = "up"
      /\ row' = [o \in Ops |-> IF row[o].state = "running"
                               THEN [row[o] EXCEPT !.state = "recovering"] ELSE row[o]]
      /\ pc' = [o \in Ops |-> IF Recovered(o) THEN "begin" ELSE "idle"]
      /\ UNCHANGED <<profile, plan, project, committed, disk, files, job>>
      /\ UNCHANGED <<editor, guest, launches, upgraded, late, todo, lock, mishaps>>
  BY DEF Start, tree, outside
<1>2. ASSUME NEW o \in Ops
      PROVE  /\ row'[o] \in Row
             /\ row'[o].state = row[o].state
                \/ (row[o].state = "running" /\ row'[o].state = "recovering")
             /\ row'[o].phase = row[o].phase /\ row'[o].exited = row[o].exited
  <2>1. row[o] \in Row /\ "recovering" \in States
    BY DEF IInv, TypeOK, Row, States
  <2>2. CASE row[o].state = "running"
    <3>1. row'[o] = [row[o] EXCEPT !.state = "recovering"]
      BY <1>1, <2>2
    <3> QED
      BY <2>1, <2>2, <3>1 DEF Row
  <2>3. CASE row[o].state # "running"
    BY <1>1, <2>1, <2>3
  <2> QED
    BY <2>2, <2>3
<1>3. row' \in [Ops -> Row]
  <2>1. \E f : row' = [o \in Ops |-> f[o]]
    <3>1. row' = [o \in Ops |-> row'[o]]
      BY <1>1
    <3> QED
      BY <3>1
  <2> QED
    BY <1>2, <2>1
<1>4. TypeOK'
  BY <1>1, <1>3 DEF IInv, TypeOK, Row, PCs
<1>5. ASSUME NEW o \in Ops PROVE OpInv(o)'
  <2>1. /\ pc'[o] \in {"idle", "begin"} /\ pc'[o] \notin Held
        /\ pc'[o] = "begin" => row[o].state \in {"queued", "running", "recovering"}
    BY <1>1 DEF Held, Recovered
  <2>2. PlaceInv(o)'
    BY <2>1 DEF PlaceInv
  <2>3. RowInv(o)'
    BY <1>1, <1>2, <2>1 DEF IInv, OpInv, RowInv, Terminal
  <2>4. LaunchInv(o)'
    BY <1>1, <1>2, <2>1 DEF IInv, OpInv, LaunchInv
  <2>5. JobInv(o)'
    BY <1>1, <1>2, <2>1 DEF IInv, OpInv, JobInv, SafeInv
  <2> QED
    BY <2>2, <2>3, <2>4, <2>5 DEF OpInv
<1>6. WorldInv'
  <2>1. mishaps["crash"] \in Nat /\ "crash" \in Causes
    BY DEF IInv, TypeOK, Causes
  <2> QED
    BY <1>1, <2>1 DEF IInv, WorldInv, CalmInv
<1> QED
  BY <1>4, <1>5, <1>6 DEF IInv

-----------------------------------------------------------------------------
(* Every step, and what follows *)

LEMMA WorkerStepInv == ASSUME IInv, NEW o \in Ops, WorkerStep(o) PROVE IInv'
<1>1. CASE Begin(o) \/ Acquire(o)
  BY <1>1, BeginInv, AcquireInv
<1>2. CASE \/ Look(o, "look0", "check") \/ Check(o) \/ Look(o, "look1", "materialize")
           \/ Materialize(o) \/ Look2(o)
  BY <1>2, LookInv, CheckInv, MaterializeInv, Look2Inv
<1>3. CASE \/ PutAside(o) \/ PutIn(o) \/ Skip(o) \/ WriteMark(o) \/ Complete(o) \/ Misfit(o)
  BY <1>3, PutAsideInv, PutInInv, SkipInv, WriteMarkInv, CompleteInv, MisfitInv
<1>4. CASE \/ Spawn(o) \/ Wait(o) \/ Observe(o) \/ TimeOut(o) \/ Resume(o) \/ Commit(o)
           \/ Cleanup(o)
  BY <1>4, SpawnInv, WaitInv, ObserveInv, TimeOutInv, ResumeInv, CommitInv, CleanupInv
<1>5. ASSUME NEW here, NEW phase, NEW there, <<here, phase, there>> \in Recorded(o),
             Checkpoint(o, here, phase, there)
      PROVE  IInv'
  BY <1>5, CheckpointInv
<1>6. CASE \/ Checkpoint(o, "preflighted", "preflight_complete", "look1")
           \/ Checkpoint(o, "intent", "preparation_intent", "prepare")
           \/ Checkpoint(o, "prepared", "preparation_complete", "look2")
           \/ Checkpoint(o, "launchIntent", "launch_intent", "spawn")
           \/ Checkpoint(o, "started", "unity_started", "wait")
           \/ Checkpoint(o, "exited", "unity_exited", "observe")
           \/ Checkpoint(o, "noLaunch", "launch_intent", "observe")
           \/ Checkpoint(o, "ready", "project_reobserved", "commit")
           \/ Checkpoint(o, "unchanged", row[o].phase, "failSafe")
           \/ Checkpoint(o, "cleaned", "cleanup_complete", "finish")
           \/ Checkpoint(o, "recover", "recovery_required", "idle")
  BY <1>5, <1>6 DEF Recorded
<1>7. CASE \/ End(o, "failEarly", MayFail(o), "failed") \/ End(o, "failSafe", MayFail(o), "failed")
           \/ End(o, "cancelled", MayCancel(o), "cancelled")
           \/ End(o, "finish", MaySucceed(o), "succeeded")
  BY <1>7, EndInv DEF Reported
<1> QED
  BY <1>1, <1>2, <1>3, <1>4, <1>6, <1>7 DEF WorkerStep

LEMMA NextInv == ASSUME IInv, [Next]_vars PROVE IInv'
<1>1. ASSUME NEW o \in Ops, Plan(o) \/ Apply(o) \/ Cancel(o) PROVE IInv'
  BY <1>1, PlanInv, ApplyInv, CancelInv
<1>2. ASSUME NEW o \in Ops, WorkerStep(o) \/ Fault(o) PROVE IInv'
  BY <1>2, WorkerStepInv, FaultInv
<1>3. ASSUME NEW o \in Ops, Upgrade(o) \/ EditorExits(o) PROVE IInv'
  BY <1>3, UpgradeInv, EditorExitsInv
<1>4. CASE Touch \/ Interfere \/ GuestLeaves \/ Crash \/ Start
  BY <1>4, TouchInv, InterfereInv, GuestLeavesInv, CrashInv, StartInv
<1>5. CASE UNCHANGED vars
  BY <1>5, StutterInv
<1> QED
  BY <1>1, <1>2, <1>3, <1>4, <1>5 DEF Next

LEMMA Invariance == Spec => []IInv
<1>1. Init => IInv
  BY InitInv
<1>2. IInv /\ [Next]_vars => IInv'
  BY NextInv
<1> QED
  BY <1>1, <1>2, PTL DEF Spec

\* In every behaviour every variable stays in its type.
THEOREM TypeCorrect == Spec => []TypeOK
<1>1. IInv => TypeOK
  BY DEF IInv
<1> QED
  BY <1>1, Invariance, PTL

\* A migration starts its editor at most once (spawn comes after the durable launch
\* intent, and no restart from there on leads back to it), and two migrations have
\* the project open together only after a failed observation or a death of the daemon.
THEOREM OneLaunch == Spec => []OneEditor
<1>1. ASSUME IInv PROVE OneEditor
  <2>1. ASSUME NEW o \in Ops PROVE launches[o] <= 1
    <3>1. launches[o] \in {0, 1}
      BY <1>1 DEF IInv, OpInv, LaunchInv
    <3> QED
      BY <3>1
  <2>2. ASSUME NEW o \in Editors, NEW p \in Editors, o # p
        PROVE  mishaps.blind > 0 \/ mishaps.crash > 0
    <3>1. mishaps["crash"] \in Nat /\ mishaps["blind"] \in Nat
      BY <1>1 DEF IInv, TypeOK, Causes
    <3> QED
      BY <1>1, <2>2, <3>1 DEF IInv, WorldInv, CalmInv
  <2> QED
    BY <2>1, <2>2 DEF OneEditor
<1> QED
  BY <1>1, Invariance, PTL

\* What finish_terminal reported is true: a cancelled or failed migration moved no
\* file and left no editor and no converted project behind; a succeeded one was
\* told to the registry and left no private copy.
THEOREM Truthful == Spec => []ReportsAreTrue
<1>1. ASSUME IInv PROVE ReportsAreTrue
  <2>1. ASSUME NEW o \in Ops, row[o].state = "cancelled"
        PROVE  /\ job[o].backup = {} /\ job[o].mark = 0 /\ editor[o] # "running"
               /\ ~upgraded[o] /\ launches[o] = 0
    <3>1. /\ row[o].phase \in Early \cup Prepared
          /\ profile => row[o].phase \in Early
      BY <1>1, <2>1 DEF IInv, OpInv, RowInv
    <3>2. launches[o] = 0 /\ editor[o] # "running" /\ ~upgraded[o]
      BY <1>1, <3>1 DEF IInv, OpInv, LaunchInv
    <3>3. job[o].backup = {} /\ job[o].mark = 0
      BY <1>1, <3>1 DEF IInv, OpInv, JobInv
    <3> QED
      BY <3>2, <3>3
  <2>2. ASSUME NEW o \in Ops, row[o].state = "failed"
        PROVE  /\ job[o].backup = {} /\ job[o].mark = 0 /\ editor[o] # "running"
               /\ upgraded[o] => mishaps.outside > 0
    <3>1. CASE row[o].phase \in Early
      BY <1>1, <3>1 DEF IInv, OpInv, LaunchInv, JobInv
    <3>2. CASE SafeInv(o)
      BY <1>1, <3>2 DEF IInv, OpInv, JobInv, SafeInv
    <3> QED
      BY <1>1, <2>2, <3>1, <3>2 DEF IInv, OpInv, JobInv
  <2>3. ASSUME NEW o \in Ops, row[o].state = "succeeded"
        PROVE  committed[o] /\ job[o] = NoJob /\ editor[o] # "running"
    BY <1>1, <2>3 DEF IInv, OpInv, RowInv, JobInv, LaunchInv, Reobserved
  <2>4. ASSUME NEW o \in Ops
        PROVE  /\ row[o].state \in {"cancelled", "failed"} =>
                     /\ job[o].backup = {} /\ job[o].mark = 0
                     /\ editor[o] # "running"
                     /\ upgraded[o] => mishaps.outside > 0
               /\ row[o].state = "cancelled" => launches[o] = 0
               /\ row[o].state = "succeeded" =>
                     committed[o] /\ job[o] = NoJob /\ editor[o] # "running"
    BY <2>1, <2>2, <2>3
  <2> QED
    BY <2>4, Zenon DEF ReportsAreTrue
<1> QED
  BY <1>1, Invariance, PTL

-----------------------------------------------------------------------------
(* The reasons of a migration that is stuck *)

\* No step failed, no observation did, and nobody else meddled.
Quiet == mishaps.outside = 0 /\ mishaps.blind = 0 /\ mishaps.fault = 0

\* The project as it was at first, and as every complete preparation leaves it.
Original == \A t \in Things : files[t] = IF Kind[t] = "install" THEN "none" ELSE "old"
Renewed  == \A t \in Things : Kind[t] = "vpm" => files[t] = "new"

\* The marker of the project tells the new version when an editor wrote it.
DiskInv ==
    mishaps.outside = 0 =>
        /\ ~guest
        /\ disk = "source" \/ (disk = "target" /\ \E o \in Ops : upgraded[o])
        /\ disk = "source" => \A o \in Ops : plan[o].marker = "source"

\* Files move in a preparation only, and without a death all of them or none.
FilesInv ==
    /\ \A t \in Things : Kind[t] = "legacy" => files[t] \in {"old", "none"}
    /\ (profile => \A o \in Ops : job[o].mark = 0 /\ ~committed[o]) => Original
    /\ Quiet /\ mishaps.crash = 0 /\ (\A o \in Ops : pc[o] # "prepare") =>
          Original \/ Renewed

\* Where one thing of a preparation can be: not touched, moved out of the way
\* but not replaced, or as it is to be.
Moves(t)        == Kind[t] \notin {"remove", "legacy"}
Waiting(j, t)   == t \notin j.backup /\ files[t] = j.before[t] /\ (Moves(t) => t \in j.staged)
Away(j, t)      == /\ t \in j.backup /\ files[t] = "none" /\ (Moves(t) => t \in j.staged)
                   /\ Kind[t] # "install"
Placed(j, t)    == CASE Kind[t] = "install"     -> files[t] = "new" /\ t \notin j.staged
                     [] Kind[t] = "update"      -> files[t] = "new" /\ t \in j.backup
                     [] Kind[t] = "remove"      -> files[t] = "none" /\ t \in j.backup
                     [] Kind[t] \in {"vpm", "upm"} -> files[t] = "new"
                     [] Kind[t] = "legacy"      -> /\ files[t] = "none"
                                                   /\ t \in j.backup \/ j.before[t] = "none"

\* What materialize found and what it made of it.
FoundInv(j) ==
    /\ \A t \in Things : Manifest(t) => t \in j.muts /\ j.before[t] \in {"old", "new"}
    /\ \A t \in Things : Kind[t] = "legacy" => t \in j.muts /\ j.before[t] \in {"old", "none"}
    /\ \A t \in j.muts : Package(t) =>
          j.before[t] = IF Kind[t] = "install" THEN "none" ELSE "old"
    /\ \A t \in Things \ j.muts : files[t] = j.before[t]

ThingInv(o, t) ==
    LET j == job[o] IN
    /\ Stage(t) > j.mark => Waiting(j, t)
    /\ Stage(t) < j.mark => Placed(j, t)
    /\ Stage(t) = j.mark =>
          /\ Waiting(j, t) \/ Away(j, t) \/ Placed(j, t)
          /\ pc[o] = "prepare" /\ t \notin todo[o] => Placed(j, t)
          /\ pc[o] = "prepare" /\ t \in todo[o] /\ Kind[t] = "install" /\ mishaps.crash = 0 =>
                Waiting(j, t)

\* A preparation that nobody else can have disturbed.
Own(o) == /\ profile /\ Quiet /\ ~job[o].torn
          /\ mishaps.crash = 0 \/ ~Overtaken(o)
          /\ \/ pc[o] \in {"intent", "prepare", "prepared"}
             \/ mishaps.crash > 0 /\ row[o].phase = "preparation_intent"

PrepInv(o) ==
    Own(o) => /\ FoundInv(job[o]) /\ \A t \in job[o].muts : ThingInv(o, t)
              /\ disk = plan[o].marker

\* What the places and phases know besides.
ReadyInv(o) ==
    /\ \A t \in job[o].staged : Moves(t)
    /\ job[o].torn => mishaps.crash > 0
    /\ pc[o] = "prepare" => todo[o] \subseteq Pending(job[o])
    /\ pc[o] \in {"look0", "check", "preflighted", "look1", "materialize", "intent"} =>
          todo[o] = {}
    /\ pc[o] = "intent" => job[o].mark = 0
    /\ profile /\ (row[o].phase \in {"preparation_complete"} \cup Launched \/ pc[o] = "prepared") =>
          job[o].mark = 5 /\ ~job[o].torn
    /\ Quiet /\ mishaps.crash = 0 =>
          /\ pc[o] \in Opening => disk = plan[o].marker
          /\ pc[o] # "noLaunch" /\ (pc[o] = "observe" => launches[o] = 1)
          /\ profile /\ row[o].phase = "preparation_intent" => pc[o] \in {"prepare", "prepared"}
    /\ row[o].phase = "project_reobserved" \/ pc[o] = "ready" =>
          mishaps.outside > 0 \/ disk = "target"
    /\ pc[o] = "resume" => mishaps.crash > 0 \/ mishaps.blind > 0

Excused(o) ==
    \/ mishaps.fault > 0 \/ late \/ mishaps.outside > 0 \/ mishaps.blind > 0
    \/ job[o].torn \/ Unconverted(o)
    \/ mishaps.crash > 0 /\ (PublishedUnmarked(o) \/ Overtaken(o))

WordInv(o) ==
    /\ row[o].state = "cancelling" => row[o].cancel
    /\ pc[o] = "failSafe" => row[o].safe
    /\ row[o].state # "absent" => plan[o].rev # 0
    /\ committed[o] => row[o].phase \in {"state_committed", "cleanup_complete", "recovery_required"}
    /\ plan[o].rev <= project.rev \/ project.rev = 0
    /\ pc[o] = "recover" \/ row[o].phase = "recovery_required" => Excused(o)
    /\ daemon = "up" /\ mishaps.fault = 0 /\ Live(o) /\ ~row[o].cancel /\ pc[o] = "idle" =>
          \/ row[o].phase = "recovery_required"
          \/ row[o].phase = "project_reobserved" /\ project.rev # plan[o].rev

\* What everything rests on: the first invariant and the reasons.
ReasonInv == DiskInv /\ FilesInv /\ \A o \in Ops : PrepInv(o) /\ ReadyInv(o) /\ WordInv(o)

RInv == IInv /\ ReasonInv

\* o has altered the project or told the registry; or opened it.
Altered(o) == job[o].mark > 0 \/ committed[o]
Traced(o)  == Altered(o) \/ launches[o] > 0

\* What a's migration is not told of by a step of somebody else.
Undisturbed(a) ==
    /\ row'[a].phase = row[a].phase /\ pc'[a] = pc[a] /\ todo'[a] = todo[a] /\ job'[a] = job[a]
    /\ committed'[a] = committed[a] /\ plan'[a] = plan[a] /\ launches'[a] = launches[a]
    /\ editor'[a] \in {editor[a], "exited"}
    /\ upgraded'[a] = upgraded[a] \/ (editor[a] = "running" /\ launches[a] = 1)
    /\ profile' = profile /\ daemon' = daemon /\ (late => late')
    /\ mishaps'.crash = mishaps.crash
    /\ \A c \in Causes : mishaps[c] > 0 => mishaps'[c] > 0
    /\ \A p \in Ops \ {a} : Traced(p) => Traced(p)'

\* What a step of o's worker leaves to the others, besides OnlyItsOwn.
Elsewhere(o) ==
    /\ OnlyItsOwn(o)
    /\ \A a \in Ops \ {o} : todo'[a] = todo[a]
    /\ UNCHANGED <<plan, disk, guest, upgraded, daemon>>
    /\ late => late'
    /\ mishaps'.crash = mishaps.crash
    /\ \A c \in Causes : mishaps[c] > 0 => mishaps'[c] > 0
    /\ project'.rev = project.rev \/ (project.rev # 0 /\ project'.rev = project.rev + 1)
    /\ Altered(o) => Altered(o)'
    /\ launches[o] > 0 => launches'[o] > 0

LEMMA OnwardTodo ==
    ASSUME IInv, NEW o \in Ops, NEW there \in PCs, Onward(o, there)
    PROVE  /\ \A a \in Ops \ {o} : todo'[a] = todo[a]
           /\ there # "idle" => todo' = todo
           /\ there = "idle" => todo'[o] = {}
BY DEF Onward, EndTask, IInv, TypeOK

LEMMA MishapNat ==
    ASSUME TypeOK
    PROVE  /\ mishaps \in [Causes -> Nat]
           /\ mishaps.crash \in Nat /\ mishaps.blind \in Nat /\ mishaps.fault \in Nat
           /\ mishaps.outside \in Nat
           /\ "crash" \in Causes /\ "blind" \in Causes /\ "fault" \in Causes
           /\ "outside" \in Causes
BY DEF TypeOK, Causes

LEMMA QuietBefore ==
    ASSUME TypeOK, TypeOK', \A c \in Causes : mishaps[c] > 0 => mishaps'[c] > 0
    PROVE  /\ Quiet' => Quiet
           /\ mishaps'.crash = 0 => mishaps.crash = 0
           /\ mishaps'.outside = 0 => mishaps.outside = 0
<1>1. /\ mishaps.crash \in Nat /\ mishaps.blind \in Nat /\ mishaps.fault \in Nat
      /\ mishaps.outside \in Nat
      /\ "crash" \in Causes /\ "blind" \in Causes /\ "fault" \in Causes
      /\ "outside" \in Causes
  BY MishapNat
<1>2. /\ mishaps'.crash \in Nat /\ mishaps'.blind \in Nat /\ mishaps'.fault \in Nat
      /\ mishaps'.outside \in Nat
  BY DEF TypeOK, Causes
<1> QED
  BY <1>1, <1>2 DEF Quiet

LEMMA OvertakenStays ==
    ASSUME NEW o \in Ops, \A p \in Ops \ {o} : Traced(p) => Traced(p)'
    PROVE  Overtaken(o) => Overtaken(o)'
BY DEF Overtaken, Traced, Altered

\* A reason stays one.
LEMMA ExcuseStays ==
    ASSUME NEW o \in Ops, Excused(o), profile' = profile, job'[o] = job[o],
           upgraded'[o] = upgraded[o] \/ (editor[o] = "running" /\ launches[o] = 1),
           editor'[o] \in {editor[o], "exited"}, launches'[o] = launches[o],
           late => late', \A c \in Causes : mishaps[c] > 0 => mishaps'[c] > 0,
           \A p \in Ops \ {o} : Traced(p) => Traced(p)'
    PROVE  Excused(o)'
<1>1. /\ mishaps.fault > 0 => mishaps'.fault > 0
      /\ mishaps.outside > 0 => mishaps'.outside > 0
      /\ mishaps.blind > 0 => mishaps'.blind > 0
      /\ mishaps.crash > 0 => mishaps'.crash > 0
  BY DEF Causes
<1>2. Overtaken(o) => Overtaken(o)'
  BY OvertakenStays
<1>3. Unconverted(o) => Unconverted(o)'
  BY <1>1 DEF Unconverted
<1>4. PublishedUnmarked(o) => PublishedUnmarked(o)'
  BY DEF PublishedUnmarked
<1> QED
  BY <1>1, <1>2, <1>3, <1>4, Zenon DEF Excused

LEMMA UndisturbedPrep ==
    ASSUME RInv, IInv', NEW a \in Ops, Undisturbed(a), disk' = disk \/ mishaps'.outside > 0,
           Own(a) /\ Own(a)' => files' = files
    PROVE  PrepInv(a)' /\ ReadyInv(a)'
<1>1. /\ Quiet' => Quiet /\ disk' = disk
      /\ mishaps'.crash = 0 => mishaps.crash = 0
      /\ mishaps.crash > 0 => mishaps'.crash > 0
      /\ mishaps.outside > 0 => mishaps'.outside > 0
      /\ mishaps.blind > 0 => mishaps'.blind > 0
  <2>1. /\ Quiet' => Quiet
        /\ mishaps'.crash = 0 => mishaps.crash = 0
    BY QuietBefore DEF RInv, IInv, Undisturbed
  <2>2. mishaps'.outside \in Nat
    BY MishapNat DEF IInv, TypeOK, Causes
  <2>3. Quiet' => disk' = disk
    BY <2>2 DEF Quiet
  <2> QED
    BY <2>1, <2>3 DEF Undisturbed, Causes
<1>2. PrepInv(a)'
  <2> SUFFICES ASSUME Own(a)' PROVE /\ FoundInv(job[a])' /\ \A t \in job'[a].muts : ThingInv(a, t)'
                                    /\ disk' = plan'[a].marker
    BY DEF PrepInv
  <2>1. Own(a)
    BY <1>1, OvertakenStays DEF Own, Undisturbed
  <2>2. files' = files /\ disk' = disk
    BY <1>1, <2>1 DEF Own
  <2>3. /\ FoundInv(job[a]) /\ \A t \in job[a].muts : ThingInv(a, t)
        /\ disk = plan[a].marker
    BY <2>1 DEF RInv, ReasonInv, PrepInv
  <2>4. FoundInv(job[a])'
    BY <2>2, <2>3 DEF FoundInv, Undisturbed
  <2>5. ASSUME NEW t \in job[a].muts PROVE ThingInv(a, t)'
    <3>1. job'[a] = job[a] /\ pc'[a] = pc[a] /\ todo'[a] = todo[a] /\ mishaps'.crash = mishaps.crash
      BY DEF Undisturbed
    <3>2. /\ Waiting(job[a], t)' <=> Waiting(job[a], t)
          /\ Away(job[a], t)' <=> Away(job[a], t)
          /\ Placed(job[a], t)' <=> Placed(job[a], t)
      BY <2>2, <3>1 DEF Waiting, Away, Placed
    <3> QED
      BY <2>3, <2>5, <3>1, <3>2 DEF ThingInv
  <2> QED
    BY <2>2, <2>3, <2>4, <2>5 DEF Undisturbed
<1>3. ReadyInv(a)'
  <2>1. ReadyInv(a)
    BY DEF RInv, ReasonInv
  <2> QED
    BY <1>1, <2>1 DEF ReadyInv, Undisturbed
<1> QED
  BY <1>2, <1>3

LEMMA UndisturbedWord ==
    ASSUME RInv, IInv', NEW a \in Ops, Undisturbed(a), row'[a] = row[a],
           \/ project'.rev \in {project.rev, 0}
           \/ project.rev # 0 /\ project'.rev = project.rev + 1
    PROVE  WordInv(a)'
<1>1. WordInv(a)
  BY DEF RInv, ReasonInv
<1>2. Excused(a) => Excused(a)'
  BY ExcuseStays DEF Undisturbed
<1>3. plan[a].rev \in Nat /\ project.rev \in Nat /\ mishaps.fault \in Nat /\ mishaps'.fault \in Nat
  BY MishapNat DEF RInv, IInv, TypeOK, Causes
<1>4. /\ plan'[a].rev <= project'.rev \/ project'.rev = 0
      /\ plan[a].rev # 0 /\ project.rev # plan[a].rev => project'.rev # plan[a].rev
  BY <1>1, <1>3 DEF WordInv, Undisturbed
<1>5. mishaps'.fault = 0 => mishaps.fault = 0
  BY <1>3 DEF Undisturbed, Causes
<1>6. /\ row'[a].state = "cancelling" => row'[a].cancel
      /\ pc'[a] = "failSafe" => row'[a].safe
      /\ row'[a].state # "absent" => plan'[a].rev # 0
      /\ committed'[a] =>
            row'[a].phase \in {"state_committed", "cleanup_complete", "recovery_required"}
      /\ pc'[a] = "recover" \/ row'[a].phase = "recovery_required" => Excused(a)'
  BY <1>1, <1>2 DEF WordInv, Undisturbed
<1>7. ASSUME daemon' = "up", mishaps'.fault = 0, Live(a)', ~row'[a].cancel, pc'[a] = "idle"
      PROVE  \/ row'[a].phase = "recovery_required"
             \/ row'[a].phase = "project_reobserved" /\ project'.rev # plan'[a].rev
  <2>1. daemon = "up" /\ mishaps.fault = 0 /\ Live(a) /\ ~row[a].cancel /\ pc[a] = "idle"
    BY <1>5, <1>7 DEF Live, Undisturbed
  <2>2. plan[a].rev # 0
    BY <1>1, <2>1 DEF WordInv, Live
  <2> QED
    BY <1>1, <1>4, <2>1, <2>2 DEF WordInv, Undisturbed
<1> QED
  BY <1>4, <1>6, <1>7, Zenon DEF WordInv

\* Whether o is done over is its own affair.
LEMMA ElsewhereKeeps ==
    ASSUME RInv, IInv', NEW o \in Ops, Elsewhere(o),
           \/ files' = files
           \/ lock = o /\ job[o].mark > 0,
           NEW a \in Ops \ {o}
    PROVE  PrepInv(a)' /\ ReadyInv(a)' /\ WordInv(a)'
<1>1. \A p \in Ops \ {a} : Traced(p) => Traced(p)'
  BY DEF Elsewhere, OnlyItsOwn, Traced, Altered
<1>2. Undisturbed(a) /\ row'[a] = row[a] /\ disk' = disk
  BY <1>1 DEF Undisturbed, Elsewhere, OnlyItsOwn
<1>3. ASSUME Own(a), Own(a)' PROVE files' = files
  <2>1. CASE mishaps.crash > 0
    <3>1. ~Overtaken(a)' /\ mishaps'.crash # 0
      BY <1>2, <1>3, <2>1, MishapNat DEF Own, RInv, IInv, Undisturbed
    <3>2. ~Traced(o)
      BY <1>1, <3>1 DEF Overtaken, Traced, Altered
    <3> QED
      BY <3>2 DEF Traced, Altered
  <2>2. CASE mishaps.crash = 0
    <3>1. pc[a] \in {"intent", "prepare", "prepared"}
      BY <1>3, <2>2 DEF Own
    <3>2. lock = a
      BY <3>1 DEF RInv, IInv, OpInv, RowInv, Held, PCs
    <3> QED
      BY <3>2
  <2> QED
    BY <2>1, <2>2, MishapNat DEF RInv, IInv
<1>4. \/ project'.rev \in {project.rev, 0}
      \/ project.rev # 0 /\ project'.rev = project.rev + 1
  BY DEF Elsewhere
<1> QED
  BY <1>2, <1>3, <1>4, UndisturbedPrep, UndisturbedWord

\* A step of o's worker that moves no file keeps everything if it keeps it for o.
LEMMA ReasonStep ==
    ASSUME RInv, IInv', NEW o \in Ops, Elsewhere(o), files' = files,
           pc[o] = "prepare" /\ pc'[o] # "prepare" /\ Quiet' /\ mishaps.crash = 0 =>
               Original \/ Renewed,
           PrepInv(o)', ReadyInv(o)', WordInv(o)'
    PROVE  RInv'
<1>1. ASSUME NEW a \in Ops PROVE PrepInv(a)' /\ ReadyInv(a)' /\ WordInv(a)'
  BY ElsewhereKeeps
<1>2. Quiet' => Quiet /\ (mishaps'.outside = 0 => mishaps.outside = 0)
  BY QuietBefore DEF Elsewhere, RInv, IInv
<1>3. DiskInv'
  <2>1. /\ mishaps'.outside = 0 => mishaps.outside = 0
        /\ UNCHANGED <<plan, disk, guest, upgraded>>
    BY QuietBefore DEF Elsewhere, RInv, IInv
  <2> QED
    BY <2>1 DEF RInv, ReasonInv, DiskInv
<1>4. FilesInv'
  <2>1. FilesInv
    BY DEF RInv, ReasonInv
  <2>2. (Original' <=> Original) /\ (Renewed' <=> Renewed)
    BY DEF Original, Renewed
  <2>3. ASSUME profile' => \A a \in Ops : job'[a].mark = 0 /\ ~committed'[a] PROVE Original'
    <3>0. CASE ~profile
      BY <2>1, <2>2, <3>0 DEF FilesInv
    <3> SUFFICES ASSUME profile PROVE Original'
      BY <3>0
    <3>1. ASSUME NEW a \in Ops \ {o} PROVE job[a].mark = 0 /\ ~committed[a]
      BY <2>3, <3>1 DEF Elsewhere, OnlyItsOwn
    <3>2. job[o].mark = 0 /\ ~committed[o]
      <4>1. job[o].mark \in Nat /\ job'[o].mark \in Nat
        <5>1. job[o] \in Jobs /\ job'[o] \in Jobs
          BY DEF RInv, IInv, TypeOK
        <5> QED
          BY <5>1 DEF Jobs
      <4>2. ~Altered(o)'
        BY <2>3 DEF Altered, Elsewhere, OnlyItsOwn
      <4>3. ~Altered(o)
        BY <4>2 DEF Elsewhere
      <4> QED
        BY <4>1, <4>3 DEF Altered
    <3> QED
      BY <2>1, <2>2, <3>1, <3>2 DEF FilesInv
  <2>4. ASSUME Quiet', mishaps'.crash = 0, \A a \in Ops : pc'[a] # "prepare"
        PROVE  Original' \/ Renewed'
    <3>1. Quiet /\ mishaps.crash = 0
      BY <1>2, <2>4 DEF Elsewhere
    <3>2. CASE pc[o] = "prepare"
      BY <2>2, <2>4, <3>1, <3>2
    <3>3. CASE pc[o] # "prepare"
      <4>1. \A a \in Ops : pc[a] # "prepare"
        BY <2>4, <3>3 DEF Elsewhere, OnlyItsOwn
      <4> QED
        BY <2>1, <2>2, <3>1, <4>1 DEF FilesInv
    <3> QED
      BY <3>2, <3>3
  <2>5. \A t \in Things : Kind[t] = "legacy" => files'[t] \in {"old", "none"}
    BY <2>1 DEF FilesInv
  <2> QED
    BY <2>3, <2>4, <2>5 DEF FilesInv
<1> QED
  BY <1>1, <1>3, <1>4 DEF RInv, ReasonInv

\* Where a step that records nothing may take the worker, and with what.
Errand(o, here, there) ==
    /\ there \in Held \cup {"idle"}
    /\ there \notin {"intent", "prepare", "prepared", "observe", "resume", "failSafe"}
    /\ there \in Opening => (Quiet' /\ mishaps.crash = 0 => disk = plan[o].marker)
    /\ there = "noLaunch" => ~(Quiet' /\ mishaps.crash = 0)
    /\ there = "ready" => mishaps'.outside > 0 \/ disk = "target"
    /\ there = "recover" => Excused(o)'
    /\ there = "idle" => mishaps'.fault > 0
    /\ there \in {"look0", "check", "preflighted", "look1", "materialize"} =>
          here \in {"look0", "check", "preflighted", "look1", "materialize"}
    /\ here \in {"prepare", "prepared"} => ~(Quiet' /\ mishaps.crash = 0)

LEMMA MoveElsewhere ==
    ASSUME RInv, NEW o \in Ops, NEW here, NEW there \in PCs, Move(o, here, there),
           mishaps'.crash = mishaps.crash, \A c \in Causes : mishaps[c] > 0 => mishaps'[c] > 0
    PROVE  /\ pc[o] = here /\ pc'[o] = there /\ Elsewhere(o)
           /\ UNCHANGED <<profile, row, plan, project, committed, disk, files, job>>
           /\ UNCHANGED <<editor, guest, launches, upgraded, late, daemon>>
<1>1. /\ pc[o] = here /\ Onward(o, there)
      /\ UNCHANGED <<profile, row, plan, project, committed, disk, files, job>>
      /\ UNCHANGED <<editor, guest, launches, upgraded, late, daemon>>
  BY DEF Move, At, store, tree, outside
<1>2. /\ pc'[o] = there /\ \A a \in Ops \ {o} : pc'[a] = pc[a]
      /\ \A a \in Ops \ {o} : lock = a => lock' = a
      /\ \A a \in Ops \ {o} : todo'[a] = todo[a]
  BY <1>1, OnwardIs, OnwardTodo DEF RInv
<1>3. mishaps.outside > 0 => mishaps'.outside > 0
  BY DEF Causes
<1>4. OnlyItsOwn(o)
  BY <1>1, <1>2, <1>3 DEF OnlyItsOwn
<1> QED
  BY <1>1, <1>2, <1>4 DEF Elsewhere, Altered

\* A preparation that is nobody's any more, or waits for a restart.
LEMMA LeftAlone ==
    ASSUME RInv, IInv', NEW o \in Ops, Elsewhere(o), files' = files, job'[o] = job[o],
           row'[o].phase = "preparation_intent" => row[o].phase = "preparation_intent",
           pc'[o] \notin {"intent", "prepare", "prepared"}
    PROVE  PrepInv(o)'
<1>1. /\ plan' = plan /\ disk' = disk /\ profile' = profile /\ mishaps'.crash = mishaps.crash
      /\ Quiet' => Quiet
  BY QuietBefore DEF Elsewhere, OnlyItsOwn, RInv, IInv
<1>2. Overtaken(o)' <=> Overtaken(o)
  BY DEF Overtaken, Elsewhere, OnlyItsOwn
<1> SUFFICES ASSUME Own(o)' PROVE /\ FoundInv(job[o])' /\ \A t \in job'[o].muts : ThingInv(o, t)'
                                  /\ disk' = plan'[o].marker
  BY DEF PrepInv
<1>3. Own(o)
  BY <1>1, <1>2 DEF Own
<1>4. /\ FoundInv(job[o]) /\ \A t \in job[o].muts : ThingInv(o, t)
      /\ disk = plan[o].marker
  BY <1>3 DEF RInv, ReasonInv, PrepInv
<1>5. FoundInv(job[o])'
  BY <1>4 DEF FoundInv
<1>6. ASSUME NEW t \in job[o].muts PROVE ThingInv(o, t)'
  BY <1>4, <1>6 DEF ThingInv, Waiting, Away, Placed
<1> QED
  BY <1>1, <1>4, <1>5, <1>6

LEMMA ErrandKeeps ==
    ASSUME RInv, IInv', NEW o \in Ops, NEW here, NEW there, Move(o, here, there),
           mishaps'.crash = mishaps.crash, \A c \in Causes : mishaps[c] > 0 => mishaps'[c] > 0,
           Errand(o, here, there)
    PROVE  RInv'
<1>1. there \in PCs
  BY DEF Errand, Held, PCs
<1>2. /\ pc[o] = here /\ pc'[o] = there /\ Elsewhere(o)
      /\ UNCHANGED <<profile, row, plan, project, committed, disk, files, job>>
      /\ UNCHANGED <<editor, guest, launches, upgraded, late, daemon>>
  BY <1>1, MoveElsewhere
<1>3. there \notin {"intent", "prepare", "prepared"}
  BY DEF Errand
<1>4. PrepInv(o)'
  BY <1>2, <1>3, LeftAlone
<1>5. /\ Quiet' => Quiet
      /\ mishaps.outside > 0 => mishaps'.outside > 0
  BY QuietBefore DEF RInv, IInv, Causes
<1>6. ReadyInv(o)'
  <2>1. ReadyInv(o)
    BY DEF RInv, ReasonInv
  <2>2. there # "idle" => todo' = todo
    BY <1>1, OnwardTodo DEF Move, RInv
  <2> QED
    BY <1>2, <1>5, <2>1, <2>2 DEF ReadyInv, Errand
<1>7. WordInv(o)'
  <2>1. WordInv(o)
    BY DEF RInv, ReasonInv
  <2>2. Excused(o) => Excused(o)'
    <3>1. \A p \in Ops \ {o} : Traced(p) => Traced(p)'
      BY <1>2 DEF Elsewhere, OnlyItsOwn, Traced, Altered
    <3> QED
      BY <1>2, <3>1, ExcuseStays
  <2>3. mishaps'.fault > 0 => mishaps'.fault # 0
    BY MishapNat DEF IInv, TypeOK, Causes
  <2> QED
    BY <1>2, <2>1, <2>2, <2>3 DEF WordInv, Errand
<1>8. pc[o] = "prepare" /\ Quiet' /\ mishaps.crash = 0 => Original \/ Renewed
  BY <1>2 DEF Errand
<1> QED
  BY <1>2, <1>4, <1>6, <1>7, <1>8, ReasonStep

LEMMA LookReasons ==
    ASSUME RInv, IInv', NEW o \in Ops, NEW here, NEW there,
           \/ here = "look0" /\ there = "check"
           \/ here = "look1" /\ there = "materialize"
           \/ here = "look2" /\ there = "launchIntent",
           \E where \in {there, "cancelled"} : Move(o, here, where) /\ UNCHANGED mishaps
    PROVE  RInv'
<1>1. PICK where \in {there, "cancelled"} : Move(o, here, where) /\ UNCHANGED mishaps
  OBVIOUS
<1>2. pc[o] = here
  BY <1>1 DEF Move, At
<1>3. where \in Held
  BY DEF Held, PCs
<1>4. where \in Opening => (Quiet' /\ mishaps.crash = 0 => disk = plan[o].marker)
  BY <1>1, <1>2 DEF RInv, ReasonInv, ReadyInv, Quiet, Opening
<1>5. Errand(o, here, where)
  BY <1>3, <1>4 DEF Errand
<1> QED
  BY <1>1, <1>5, ErrandKeeps

LEMMA Look2Reasons == ASSUME RInv, IInv', NEW o \in Ops, Look2(o) PROVE RInv'
<1>1. \E where \in {"launchIntent", "cancelled"} : Move(o, "look2", where) /\ UNCHANGED mishaps
  BY DEF Look2, Look
<1> QED
  BY <1>1, LookReasons

LEMMA CheckReasons == ASSUME RInv, IInv', NEW o \in Ops, Check(o) PROVE RInv'
<1>1. "preflighted" \in Held /\ "failEarly" \in Held /\ "failEarly" \notin Opening
  BY DEF Held, PCs, Opening
<1>2. Errand(o, "check", "failEarly")
  BY <1>1 DEF Errand
<1>3. ASSUME NEW view \in {"none", "running", "unknown"}, Sees(view),
             Move(o, "check", IF view # "running" /\ AsPlanned(o)
                              THEN "preflighted" ELSE "failEarly")
      PROVE  RInv'
  <2>1. /\ mishaps'.crash = mishaps.crash
        /\ \A c \in Causes : mishaps[c] > 0 => mishaps'[c] > 0
    BY <1>3, SeesIs DEF RInv
  <2>2. CASE view # "running" /\ AsPlanned(o)
    <3>1. Errand(o, "check", "preflighted")
      BY <1>1, <2>2 DEF Errand, AsPlanned
    <3> QED
      BY <1>3, <2>1, <2>2, <3>1, ErrandKeeps
  <2>3. CASE ~(view # "running" /\ AsPlanned(o))
    <3>1. Move(o, "check", "failEarly")
      BY <1>3, <2>3
    <3> QED
      BY <1>2, <2>1, <3>1, ErrandKeeps
  <2> QED
    BY <2>2, <2>3
<1>4. CASE Move(o, "check", "failEarly") /\ UNCHANGED mishaps
  BY <1>2, <1>4, ErrandKeeps
<1> QED
  BY <1>3, <1>4 DEF Check

LEMMA WaitReasons == ASSUME RInv, IInv', NEW o \in Ops, Wait(o) PROVE RInv'
<1>1. Move(o, "wait", "exited") /\ UNCHANGED mishaps
  BY DEF Wait
<1>2. Errand(o, "wait", "exited")
  BY DEF Errand, Held, PCs, Opening
<1> QED
  BY <1>1, <1>2, ErrandKeeps

\* Nobody is seen, nothing failed: a prepared project was not converted.
LEMMA ObserveReasons == ASSUME RInv, IInv', NEW o \in Ops, Observe(o) PROVE RInv'
<1>1. PICK view \in {"none", "unknown"} :
          Sees(view) /\ Move(o, "observe", Disposition(o, view))
  BY DEF Observe
<1> DEFINE there == Disposition(o, view)
<1>2. /\ \A c \in Causes : mishaps[c] > 0 => mishaps'[c] > 0
      /\ mishaps'.outside = mishaps.outside /\ mishaps'.crash = mishaps.crash
      /\ view = "none" => Editors = {}
      /\ view = "unknown" => mishaps'.blind > 0
  BY <1>1, SeesIs DEF RInv
<1>3. /\ pc[o] = "observe" /\ row[o].phase \in Launched
      /\ UNCHANGED <<profile, job, upgraded, editor, launches>>
  BY <1>1 DEF Move, At, RInv, IInv, OpInv, PlaceInv, tree, store, outside
<1>4. there \in {"ready", "unchanged", "recover"}
  BY DEF Disposition
<1>5. there = "ready" => disk = "target"
  BY DEF Disposition
<1>6. ASSUME there = "recover" PROVE Excused(o)'
  <2>1. SUFFICES ASSUME mishaps'.fault = 0, mishaps'.outside = 0, mishaps'.blind = 0
                 PROVE  Excused(o)'
    <3>1. mishaps'.fault \in Nat /\ mishaps'.outside \in Nat /\ mishaps'.blind \in Nat
      BY MishapNat DEF IInv, TypeOK, Causes
    <3> QED
      BY <3>1 DEF Excused
  <2>2. Quiet
    BY <1>2, <2>1, QuietBefore DEF Quiet, RInv, IInv
  <2>3. view = "none" /\ Editors = {}
    BY <1>1, <1>2, <2>1
  <2>4. disk # "target"
    BY <1>6, <2>3 DEF Disposition
  <2>5. disk = "source" /\ plan[o].marker = "source"
    BY <2>2, <2>4 DEF Quiet, RInv, ReasonInv, DiskInv
  <2>6. profile
    BY <1>6, <2>3, <2>4, <2>5 DEF Disposition
  <2>7. job[o].mark = 5
    BY <1>3, <2>6 DEF RInv, ReasonInv, ReadyInv
  <2>8. ~upgraded[o]
    BY <2>2, <2>4 DEF RInv, IInv, WorldInv, Quiet
  <2>9. editor[o] = "exited" \/ (mishaps.crash > 0 /\ launches[o] = 0)
    <3>1. editor[o] \in {"none", "exited"}
      BY <2>3 DEF Editors, RInv, IInv, TypeOK
    <3>2. editor[o] = "none" => launches[o] = 0
      BY DEF RInv, IInv, OpInv, LaunchInv
    <3>3. launches[o] = 0 => mishaps.crash # 0
      BY <1>3, <2>2 DEF RInv, ReasonInv, ReadyInv
    <3> QED
      BY <3>1, <3>2, <3>3, MishapNat DEF RInv, IInv
  <2> QED
    BY <1>2, <1>3, <2>6, <2>7, <2>8, <2>9 DEF Excused, Unconverted
<1>7. Errand(o, "observe", there)
  BY <1>4, <1>5, <1>6 DEF Errand, Held, PCs, Opening
<1> QED
  BY <1>1, <1>2, <1>7, ErrandKeeps

LEMMA ResumeReasons == ASSUME RInv, IInv', NEW o \in Ops, Resume(o) PROVE RInv'
<1>1. PICK view \in {"none", "running", "unknown"} :
          /\ Sees(view)
          /\ Move(o, "resume", IF view # "running" /\ disk = "target"
                               THEN "commit" ELSE "recover")
  BY DEF Resume
<1> DEFINE there == IF view # "running" /\ disk = "target" THEN "commit" ELSE "recover"
<1>2. /\ \A c \in Causes : mishaps[c] > 0 => mishaps'[c] > 0
      /\ mishaps'.outside = mishaps.outside /\ mishaps'.crash = mishaps.crash
  BY <1>1, SeesIs DEF RInv
<1>3. /\ pc[o] = "resume" /\ row[o].phase = "project_reobserved"
      /\ UNCHANGED <<committed, job, launches>>
  BY <1>1 DEF Move, At, RInv, IInv, OpInv, PlaceInv, tree, store, outside
<1>4. mishaps.crash > 0 \/ mishaps.blind > 0
  BY <1>3 DEF RInv, ReasonInv, ReadyInv
<1>5. ASSUME there = "recover" PROVE Excused(o)'
  <2>1. CASE mishaps.outside > 0 \/ mishaps.blind > 0
    BY <1>2, <2>1 DEF Excused, Causes
  <2>2. CASE ~(mishaps.outside > 0 \/ mishaps.blind > 0)
    <3>1. mishaps.outside = 0 /\ mishaps.blind = 0 /\ disk = "target"
      BY <1>3, <2>2, MishapNat DEF RInv, IInv, ReasonInv, ReadyInv
    <3>2. SomeEditor /\ ~guest
      BY <1>1, <1>5, <3>1 DEF Sees, RInv, ReasonInv, DiskInv
    <3>3. PICK p \in Ops : editor[p] = "running"
      BY <3>2 DEF SomeEditor, Editors
    <3>4. p # o
      BY <1>3, <3>3 DEF RInv, IInv, OpInv, LaunchInv, Reobserved
    <3>5. launches[p] > 0
      BY <3>3 DEF RInv, IInv, OpInv, LaunchInv
    <3>6. Overtaken(o)'
      BY <1>3, <3>4, <3>5 DEF Overtaken
    <3> QED
      BY <1>2, <1>4, <2>2, <3>6 DEF Excused
  <2> QED
    BY <2>1, <2>2
<1>6. Errand(o, "resume", there)
  BY <1>5 DEF Errand, Held, PCs, Opening
<1> QED
  BY <1>1, <1>2, <1>6, ErrandKeeps

LEMMA FaultReasons == ASSUME RInv, IInv', NEW o \in Ops, Fault(o) PROVE RInv'
<1> DEFINE there == OnError(pc[o])
<1>1. /\ Move(o, pc[o], there) /\ Mishap("fault")
  BY DEF Fault, Move, At
<1>2. /\ mishaps'["fault"] > 0 /\ mishaps'["crash"] = mishaps["crash"]
      /\ \A c \in Causes : mishaps[c] > 0 => mishaps'[c] > 0
  BY <1>1, MishapIs DEF RInv, IInv, Causes
<1>3. there \in {"failEarly", "noLaunch", "recover", "idle"} /\ there \notin Opening
  BY DEF OnError, Opening
<1>4. ~Quiet' /\ Excused(o)'
  <2>1. mishaps'.fault # 0
    BY <1>2 DEF IInv, TypeOK, Causes
  <2> QED
    BY <1>2, <2>1 DEF Quiet, Excused
<1>5. Errand(o, pc[o], there)
  BY <1>2, <1>3, <1>4 DEF Errand, Held, PCs
<1> QED
  BY <1>1, <1>2, <1>5, ErrandKeeps

LEMMA StageIs ==
    ASSUME NEW t \in Things
    PROVE  /\ Kind[t] \in Kinds /\ Stage(t) \in 1..4
           /\ Package(t) <=> Kind[t] \in {"install", "update", "remove"}
           /\ Stage(t) = 2 <=> Kind[t] = "vpm"
           /\ Stage(t) = 3 <=> Kind[t] = "upm"
           /\ Stage(t) = 4 <=> Kind[t] = "legacy"
<1>1. Kind[t] \in Kinds
  BY MigrationAssumption
<1> QED
  BY <1>1 DEF Stage, Package, Kinds

LEMMA CheckpointReasons ==
    ASSUME RInv, IInv', NEW o \in Ops, NEW here, NEW phase, NEW there,
           <<here, phase, there>> \in Recorded(o), Checkpoint(o, here, phase, there)
    PROVE  RInv'
<1>1. /\ pc[o] = here /\ Onward(o, there)
      /\ here \in Held /\ there \in PCs \ {"begin", "lock"} /\ pc'[o] = there
      /\ UNCHANGED <<profile, plan, project, committed, disk, files, job>>
      /\ UNCHANGED <<editor, guest, launches, upgraded, late, daemon, mishaps>>
      /\ row' \in [Ops -> Row] /\ \A a \in Ops \ {o} : row'[a] = row[a]
      /\ row[o].state \in {"running", "cancelling"} /\ row'[o].state = row[o].state
      /\ row'[o].phase = phase /\ row'[o].cancel = row[o].cancel
      /\ row'[o].safe <=> (row[o].safe \/ here = "unchanged")
  BY CheckpointIs DEF RInv
<1>2. /\ \A a \in Ops \ {o} : pc'[a] = pc[a] /\ todo'[a] = todo[a]
      /\ \A a \in Ops \ {o} : lock = a => lock' = a
      /\ there # "idle" => todo' = todo
  BY <1>1, OnwardIs, OnwardTodo DEF RInv
<1>3. Elsewhere(o)
  BY <1>1, <1>2 DEF Elsewhere, OnlyItsOwn, Altered
<1>4. PlaceInv(o) /\ LaunchInv(o) /\ ReadyInv(o) /\ WordInv(o) /\ PrepInv(o)
  BY DEF RInv, IInv, OpInv, ReasonInv
<1>5. Quiet' <=> Quiet
  BY <1>1 DEF Quiet
<1>6. PrepInv(o)'
  <2>1. CASE here = "intent"
    <3> SUFFICES ASSUME Own(o)'
                 PROVE  /\ FoundInv(job[o])' /\ \A t \in job'[o].muts : ThingInv(o, t)'
                        /\ disk' = plan'[o].marker
      BY DEF PrepInv
    <3>1. Overtaken(o)' <=> Overtaken(o)
      BY <1>1 DEF Overtaken
    <3>2. Own(o) /\ job[o].mark = 0
      BY <1>1, <1>4, <1>5, <2>1, <3>1 DEF Own, ReadyInv
    <3>3. /\ FoundInv(job[o]) /\ \A t \in job[o].muts : ThingInv(o, t)
          /\ disk = plan[o].marker
      BY <1>4, <3>2 DEF PrepInv
    <3>4. FoundInv(job[o])'
      BY <1>1, <3>3 DEF FoundInv
    <3>5. ASSUME NEW t \in job[o].muts PROVE ThingInv(o, t)'
      <4>1. Stage(t) \in 1..4
        BY <3>5, StageIs DEF RInv, IInv, TypeOK, Jobs
      <4>2. Waiting(job[o], t)'
        BY <1>1, <3>2, <3>3, <3>5, <4>1 DEF ThingInv, Waiting
      <4> QED
        BY <1>1, <3>2, <4>1, <4>2 DEF ThingInv
    <3> QED
      BY <1>1, <3>3, <3>4, <3>5
  <2>2. CASE here # "intent"
    <3>1. there \notin {"intent", "prepare", "prepared"}
      BY <2>2 DEF Recorded
    <3>2. row'[o].phase = "preparation_intent" => row[o].phase = "preparation_intent"
      BY <1>1, <2>2 DEF Recorded
    <3> QED
      BY <1>1, <1>3, <3>1, <3>2, LeftAlone
  <2> QED
    BY <2>1, <2>2
<1>7. ReadyInv(o)'
  <2>1. there = "prepare" => todo'[o] = {}
    BY <1>1, <1>2, <1>4 DEF Recorded, ReadyInv
  <2>2. there = "look1" => todo'[o] = {}
    BY <1>1, <1>2, <1>4 DEF Recorded, ReadyInv
  <2>3. there \notin {"look0", "check", "preflighted", "materialize", "intent", "prepared",
                      "noLaunch", "ready", "resume"}
    BY DEF Recorded
  <2>4. profile /\ phase \in {"preparation_complete"} \cup Launched =>
            job[o].mark = 5 /\ ~job[o].torn
    BY <1>1, <1>4 DEF Recorded, ReadyInv, PlaceInv, Launched
  <2>5. ASSUME Quiet, mishaps.crash = 0
        PROVE  /\ there \in Opening => disk = plan[o].marker
               /\ there = "observe" => launches[o] = 1
    <3>1. there \in Opening => here \in Opening
      BY DEF Recorded, Opening
    <3>2. there = "observe" => here = "exited"
      BY <1>1, <1>4, <2>5 DEF Recorded, ReadyInv
    <3>3. here = "exited" => launches[o] = 1
      BY <1>1, <1>4 DEF LaunchInv
    <3> QED
      BY <1>1, <1>4, <2>5, <3>1, <3>2, <3>3 DEF ReadyInv
  <2>6. phase = "project_reobserved" => mishaps.outside > 0 \/ disk = "target"
    BY <1>1, <1>4 DEF Recorded, ReadyInv
  <2>7. phase = "preparation_intent" => there = "prepare"
    BY <1>1, <1>4 DEF Recorded, PlaceInv, Launched
  <2> QED
    BY <1>1, <1>4, <1>5, <2>1, <2>2, <2>3, <2>4, <2>5, <2>6, <2>7 DEF ReadyInv
<1>8. WordInv(o)'
  <2>1. Excused(o) => Excused(o)'
    <3>1. \A p \in Ops \ {o} : Traced(p) => Traced(p)'
      BY <1>1 DEF Traced, Altered
    <3> QED
      BY <1>1, <3>1, ExcuseStays
  <2>2. phase = "recovery_required" => Excused(o)
    BY <1>1, <1>4 DEF Recorded, WordInv
  <2>3. there # "recover" /\ (there = "idle" => phase = "recovery_required")
    BY DEF Recorded
  <2>4. there = "failSafe" => row'[o].safe
    BY <1>1 DEF Recorded
  <2>5. committed[o] => phase \in {"state_committed", "cleanup_complete", "recovery_required"}
    <3>1. committed[o] =>
              row[o].phase \in {"state_committed", "cleanup_complete", "recovery_required"}
      BY <1>4 DEF WordInv
    <3>2. here \in {"preflighted", "intent", "prepared", "launchIntent", "started", "exited",
                    "noLaunch", "ready"} =>
              row[o].phase \notin {"state_committed", "cleanup_complete", "recovery_required"}
      BY <1>1, <1>4 DEF PlaceInv, Launched
    <3> QED
      BY <3>1, <3>2 DEF Recorded
  <2> QED
    BY <1>1, <1>4, <2>1, <2>2, <2>3, <2>4, <2>5 DEF WordInv
<1>9. here # "prepare"
  BY DEF Recorded
<1> QED
  BY <1>1, <1>3, <1>6, <1>7, <1>8, <1>9, ReasonStep

LEMMA BeginReasons == ASSUME RInv, IInv', NEW o \in Ops, Begin(o) PROVE RInv'
<1>1. /\ pc[o] = "begin"
      /\ UNCHANGED <<profile, plan, project, committed, disk, files, job>>
      /\ UNCHANGED <<editor, guest, launches, upgraded, late, daemon, mishaps>>
  BY DEF Begin, At, tree, outside
<1>2. PICK there \in {"idle", "lock"} :
          /\ Onward(o, there)
          /\ \/ /\ row' = [row EXCEPT ![o].state = "running"]
                /\ there = "idle" => row[o].phase = "recovery_required"
             \/ there = "idle" /\ row' = row
                /\ row[o].state \notin {"queued", "running", "recovering"}
  BY DEF Begin, SetState, Onward
<1>3. /\ row[o] \in Row /\ row'[o] \in Row /\ \A a \in Ops \ {o} : row'[a] = row[a]
      /\ row'[o].phase = row[o].phase /\ row'[o].cancel = row[o].cancel
      /\ row'[o].safe = row[o].safe
      /\ row'[o].state = "running" \/ row'[o].state = row[o].state
  BY <1>2 DEF RInv, IInv, TypeOK, Row
<1>4. /\ pc'[o] = there /\ \A a \in Ops \ {o} : pc'[a] = pc[a] /\ todo'[a] = todo[a]
      /\ \A a \in Ops \ {o} : lock = a => lock' = a
  BY <1>2, OnwardIs, OnwardTodo DEF RInv, PCs
<1>5. Elsewhere(o)
  BY <1>1, <1>3, <1>4 DEF Elsewhere, OnlyItsOwn, Altered
<1>6. ReadyInv(o) /\ WordInv(o) /\ RowInv(o)
  BY DEF RInv, ReasonInv, IInv, OpInv
<1>7. PrepInv(o)'
  BY <1>1, <1>3, <1>4, <1>5, LeftAlone
<1>8. ReadyInv(o)'
  <2>1. profile /\ Quiet /\ mishaps.crash = 0 => row[o].phase # "preparation_intent"
    BY <1>1, <1>6 DEF ReadyInv
  <2> QED
    BY <1>1, <1>3, <1>4, <1>6, <2>1 DEF ReadyInv, Opening, Quiet
<1>9. WordInv(o)'
  <2>1. Excused(o) => Excused(o)'
    <3>1. \A p \in Ops \ {o} : Traced(p) => Traced(p)'
      BY <1>1 DEF Traced, Altered
    <3> QED
      BY <1>1, <3>1, ExcuseStays
  <2>2. row[o].state # "absent"
    BY <1>1, <1>6 DEF RowInv
  <2>3. there = "idle" =>
            \/ row[o].phase = "recovery_required"
            \/ row[o].state \in Terminal \cup {"absent"} \/ row[o].cancel
    <3>1. row[o].state \in States
      BY <1>3 DEF Row
    <3> QED
      BY <1>2, <1>6, <3>1 DEF WordInv, States
  <2>4. there = "idle" =>
            \/ row'[o].phase = "recovery_required" \/ ~Live(o)' \/ row'[o].cancel
    BY <1>2, <1>3, <2>3 DEF Live
  <2> QED
    BY <1>1, <1>3, <1>4, <1>6, <2>1, <2>2, <2>4 DEF WordInv
<1> QED
  BY <1>1, <1>5, <1>7, <1>8, <1>9, ReasonStep

\* Only after a death, or where it was not seen who is there, a worker begins in the
\* middle.
LEMMA AcquireReasons == ASSUME RInv, IInv', NEW o \in Ops, Acquire(o) PROVE RInv'
<1> DEFINE there == Entry(row[o].phase)
<1>1. /\ pc[o] = "lock" /\ lock = None
      /\ pc' = [pc EXCEPT ![o] = there]
      /\ todo' = [todo EXCEPT ![o] = Pending(job[o])]
      /\ UNCHANGED <<profile, row, plan, project, committed, disk, files, job>>
      /\ UNCHANGED <<editor, guest, launches, upgraded, late, daemon, mishaps>>
  BY DEF Acquire, At, Goto, store, tree, outside
<1>2. row[o].phase \in Phases /\ row[o].phase # "recovery_required"
  BY <1>1 DEF RInv, IInv, TypeOK, OpInv, PlaceInv
<1>3. /\ there \in {"look0", "look1", "prepare", "look2", "observe", "resume", "cleanup", "finish"}
      /\ there = "look0" <=> row[o].phase = "accepted"
      /\ there = "look1" <=> row[o].phase = "preflight_complete"
      /\ there = "prepare" <=> row[o].phase = "preparation_intent"
      /\ there = "resume" <=> row[o].phase = "project_reobserved"
  BY <1>2, EntryIs
<1>4. /\ pc'[o] = there /\ todo'[o] = Pending(job[o])
      /\ \A a \in Ops \ {o} : pc'[a] = pc[a] /\ todo'[a] = todo[a]
  <2> HIDE DEF there
  <2> QED
    BY <1>1 DEF RInv, IInv, TypeOK
<1>5. None \notin Ops
  BY MigrationAssumption
<1>6. Elsewhere(o)
  BY <1>1, <1>4, <1>5 DEF Elsewhere, OnlyItsOwn, Altered
<1>7. ReadyInv(o) /\ WordInv(o) /\ PrepInv(o) /\ JobInv(o)
  BY DEF RInv, ReasonInv, IInv, OpInv
<1>8. (mishaps.crash = 0 /\ mishaps.blind = 0) => row[o].phase = "accepted"
  BY <1>1 DEF RInv, IInv, WorldInv, CalmInv
<1>9. Quiet /\ mishaps.crash = 0 => there = "look0"
  BY <1>3, <1>8 DEF Quiet
<1>10. PrepInv(o)'
  <2>1. CASE there = "prepare"
    <3> SUFFICES ASSUME Own(o)'
                 PROVE  /\ FoundInv(job[o])' /\ \A t \in job'[o].muts : ThingInv(o, t)'
                        /\ disk' = plan'[o].marker
      BY DEF PrepInv
    <3>1. Overtaken(o)' <=> Overtaken(o)
      BY <1>1 DEF Overtaken
    <3>2. Quiet
      BY <1>1 DEF Own, Quiet
    <3>3. mishaps.crash # 0 /\ mishaps.crash > 0
      BY <1>9, <2>1, <3>2, MishapNat DEF RInv, IInv
    <3>4. Own(o)
      BY <1>1, <1>3, <2>1, <3>1, <3>2, <3>3 DEF Own
    <3>5. /\ FoundInv(job[o]) /\ \A t \in job[o].muts : ThingInv(o, t)
          /\ disk = plan[o].marker
      BY <1>7, <3>4 DEF PrepInv
    <3>6. FoundInv(job[o])'
      BY <1>1, <3>5 DEF FoundInv
    <3>7. ASSUME NEW t \in job[o].muts PROVE ThingInv(o, t)'
      <4>1. Stage(t) = job[o].mark => t \in todo'[o]
        BY <1>4, <3>7 DEF Pending
      <4> QED
        BY <1>1, <3>3, <3>5, <3>7, <4>1 DEF ThingInv, Waiting, Away, Placed
    <3> QED
      BY <1>1, <3>5, <3>6, <3>7
  <2>2. CASE there # "prepare"
    <3>1. pc'[o] \notin {"intent", "prepare", "prepared"}
      BY <1>3, <1>4, <2>2
    <3> QED
      BY <1>1, <1>6, <3>1, LeftAlone
  <2> QED
    BY <2>1, <2>2
<1>11. ReadyInv(o)'
  <2>1. there \in {"look0", "look1"} => todo'[o] = {}
    <3> SUFFICES ASSUME there \in {"look0", "look1"}, NEW t \in Pending(job[o]) PROVE FALSE
      BY <1>4
    <3>1. job[o].mark = 0
      BY <1>3, <1>7 DEF JobInv, Early
    <3>2. t \in Things /\ Stage(t) = 0
      <4>1. job[o] \in Jobs
        BY DEF RInv, IInv, TypeOK
      <4> QED
        BY <3>1, <4>1 DEF Pending, Jobs
    <3> QED
      BY <3>2, StageIs
  <2>2. there = "resume" => mishaps.crash > 0 \/ mishaps.blind > 0
    BY <1>3, <1>8, MishapNat DEF RInv, IInv
  <2>3. Quiet /\ mishaps.crash = 0 => there \notin Opening \cup {"observe", "noLaunch"}
    BY <1>9 DEF Opening
  <2>4. there = "prepare" => todo'[o] \subseteq Pending(job[o])
    BY <1>4
  <2>5. there \in {"look0", "look1", "prepare", "look2", "observe", "resume", "cleanup", "finish"}
    BY <1>3
  <2>6. Quiet /\ mishaps.crash = 0 => row[o].phase = "accepted"
    BY <1>8 DEF Quiet
  <2> HIDE DEF there
  <2>7. Quiet' <=> Quiet
    BY <1>1 DEF Quiet
  <2>8. Pending(job[o])' = Pending(job[o])
    BY <1>1 DEF Pending
  <2> QED
    BY <1>1, <1>4, <1>7, <2>1, <2>2, <2>3, <2>4, <2>5, <2>6, <2>7, <2>8 DEF ReadyInv
<1>12. WordInv(o)'
  <2>1. Excused(o) => Excused(o)'
    <3>1. \A p \in Ops \ {o} : Traced(p) => Traced(p)'
      BY <1>1 DEF Traced, Altered
    <3> QED
      BY <1>1, <3>1, ExcuseStays
  <2> HIDE DEF there
  <2> QED
    BY <1>1, <1>3, <1>4, <1>7, <2>1 DEF WordInv, Live
<1> QED
  BY <1>1, <1>6, <1>10, <1>11, <1>12, ReasonStep

\* What a preparation is to change.
Targets == IF ~profile THEN {}
           ELSE {t \in Things : Package(t) => \A m \in Things : Kind[m] = "vpm" => files[m] = "old"}

LEMMA MaterializedIs ==
    ASSUME TypeOK
    PROVE  /\ Materialized(Targets) \in Jobs
           /\ Materialized(Targets).mark = 0 /\ Materialized(Targets).backup = {}
           /\ ~Materialized(Targets).torn
           /\ Materialized(Targets).muts = Targets /\ Materialized(Targets).before = files
           /\ Materialized(Targets).staged = {t \in Targets : Moves(t)}
<1> DEFINE j      == Materialized(Targets)
           staged == {t \in Targets : Kind[t] \notin {"remove", "legacy"}}
<1>1. files \in [Things -> Content] /\ staged \in SUBSET Things /\ Targets \in SUBSET Things
  BY DEF TypeOK, Targets
<1>2. j = [NoJob EXCEPT !.artifact = TRUE, !.muts = Targets, !.before = files, !.staged = staged]
  BY DEF Materialized
<1>3. staged = {t \in Targets : Moves(t)}
  BY DEF Moves
<1>4. NoJob \in Jobs /\ NoJob.mark = 0 /\ NoJob.backup = {} /\ ~NoJob.torn
  BY NoJobIs DEF NoJob
<1> HIDE DEF staged, j
<1>5. /\ j \in Jobs /\ j.mark = 0 /\ j.backup = {} /\ ~j.torn /\ j.muts = Targets
      /\ j.before = files /\ j.staged = staged
  BY <1>1, <1>2, <1>4 DEF Jobs
<1> QED
  BY <1>3, <1>5 DEF j

\* A project in one piece is what a preparation finds.
LEMMA FoundByMaterialize ==
    ASSUME RInv, profile, Original \/ Renewed,
           \A t \in Things : Manifest(t) => files[t] # "none"
    PROVE  FoundInv(Materialized(Targets))
<1> DEFINE j == Materialized(Targets)
<1>1. j.muts = Targets /\ j.before = files
  BY MaterializedIs DEF RInv, IInv
<1> HIDE DEF j
<1>2. files \in [Things -> Content] /\ Content = {"old", "new", "none"}
  BY DEF RInv, IInv, TypeOK, Content
<1>3. ASSUME NEW t \in Things, Manifest(t) PROVE t \in j.muts /\ j.before[t] \in {"old", "new"}
  <2>1. ~Package(t)
    BY <1>3, StageIs DEF Manifest
  <2> QED
    BY <1>1, <1>2, <1>3, <2>1 DEF Targets
<1>4. ASSUME NEW t \in Things, Kind[t] = "legacy"
      PROVE  t \in j.muts /\ j.before[t] \in {"old", "none"}
  <2>1. ~Package(t)
    BY <1>4, StageIs
  <2> QED
    BY <1>1, <1>4, <2>1 DEF Targets, RInv, ReasonInv, FilesInv
<1>5. ASSUME NEW t \in j.muts, Package(t)
      PROVE  j.before[t] = IF Kind[t] = "install" THEN "none" ELSE "old"
  <2>1. PICK m \in Things : Kind[m] = "vpm"
    BY MigrationAssumption
  <2>2. t \in Things /\ files[m] = "old"
    BY <1>1, <1>5, <2>1 DEF Targets
  <2>3. Original
    BY <2>1, <2>2 DEF Renewed
  <2> QED
    BY <1>1, <2>2, <2>3 DEF Original
<1>6. \A t \in Things \ j.muts : files[t] = j.before[t]
  BY <1>1
<1>7. FoundInv(j)
  BY <1>3, <1>4, <1>5, <1>6 DEF FoundInv
<1> QED
  BY <1>7 DEF j

LEMMA MaterializeReasons == ASSUME RInv, IInv', NEW o \in Ops, Materialize(o) PROVE RInv'
<1>1. CASE Move(o, "materialize", "failEarly") /\ UNCHANGED mishaps
  <2>1. Errand(o, "materialize", "failEarly")
    BY DEF Errand, Held, PCs, Opening
  <2> QED
    BY <1>1, <2>1, ErrandKeeps
<1>2. CASE ~(Move(o, "materialize", "failEarly") /\ UNCHANGED mishaps)
  <2> DEFINE j == Materialized(Targets)
  <2>1. /\ Onward(o, "intent") /\ pc[o] = "materialize"
        /\ job' = [job EXCEPT ![o] = j]
        /\ profile => \A t \in Things : Manifest(t) => files[t] # "none"
        /\ UNCHANGED <<profile, row, plan, project, committed, disk, files>>
        /\ UNCHANGED <<editor, guest, launches, upgraded, late, daemon, mishaps>>
    BY <1>2 DEF Materialize, At, store, outside, Materialized, Targets
  <2>2. /\ j \in Jobs /\ j.mark = 0 /\ j.backup = {} /\ ~j.torn /\ j.muts = Targets
        /\ j.before = files /\ j.staged = {t \in Targets : Moves(t)}
    BY MaterializedIs DEF RInv, IInv
  <2>3. profile /\ (Original \/ Renewed) => FoundInv(j)
    BY <2>1, FoundByMaterialize
  <2> HIDE DEF j
  <2>4. job'[o] = j /\ \A a \in Ops \ {o} : job'[a] = job[a]
    BY <2>1 DEF RInv, IInv, TypeOK
  <2>5. "intent" \in PCs /\ "intent" # "idle"
    BY DEF PCs
  <2>6. /\ pc'[o] = "intent" /\ todo' = todo
        /\ \A a \in Ops \ {o} : pc'[a] = pc[a] /\ (lock = a => lock' = a)
    BY <2>1, <2>5, OnwardIs, OnwardTodo DEF RInv
  <2>7. ReadyInv(o) /\ WordInv(o) /\ PlaceInv(o) /\ LaunchInv(o) /\ JobInv(o) /\ RowInv(o)
    BY DEF RInv, ReasonInv, IInv, OpInv
  <2>8. row[o].phase = "preflight_complete" /\ job[o].mark = 0 /\ ~committed[o] /\ launches[o] = 0
    BY <2>1, <2>7 DEF PlaceInv, WordInv, LaunchInv, JobInv, Early
  <2>9. Elsewhere(o)
    BY <2>1, <2>4, <2>6, <2>8 DEF Elsewhere, OnlyItsOwn, Altered
  <2>10. PrepInv(o)'
    <3> SUFFICES ASSUME Own(o)' PROVE /\ FoundInv(job[o])' /\ \A t \in job'[o].muts : ThingInv(o, t)'
                                      /\ disk' = plan'[o].marker
      BY DEF PrepInv
    <3>1. profile /\ Quiet /\ (mishaps.crash = 0 \/ ~Overtaken(o))
      <4>1. Overtaken(o) => Overtaken(o)'
        BY <2>1, <2>4 DEF Overtaken
      <4> QED
        BY <2>1, <4>1 DEF Own, Quiet
    <3>2. Original \/ Renewed
      <4>1. CASE mishaps.crash = 0
        <5>1. \A a \in Ops : pc[a] # "prepare"
          <6> SUFFICES ASSUME NEW a \in Ops, pc[a] = "prepare" PROVE FALSE
            OBVIOUS
          <6>1. lock = a /\ lock = o
            BY <2>1 DEF RInv, IInv, OpInv, RowInv, Held, PCs
          <6> QED
            BY <2>1, <6>1
        <5> QED
          BY <3>1, <4>1, <5>1 DEF RInv, ReasonInv, FilesInv
      <4>2. CASE ~Overtaken(o)
        <5>1. ASSUME NEW a \in Ops PROVE job[a].mark = 0 /\ ~committed[a]
          <6>1. job[a].mark \in 0..5
            BY DEF RInv, IInv, TypeOK, Jobs
          <6> QED
            BY <2>8, <4>2, <6>1 DEF Overtaken
        <5> QED
          BY <5>1 DEF RInv, ReasonInv, FilesInv
      <4> QED
        BY <3>1, <4>1, <4>2
    <3>3. disk = plan[o].marker
      <4>1. CASE mishaps.crash = 0
        BY <2>1, <2>7, <3>1, <4>1 DEF ReadyInv, Opening
      <4>2. CASE ~Overtaken(o)
        <5>1. \A a \in Ops : ~upgraded[a]
          <6> SUFFICES ASSUME NEW a \in Ops, upgraded[a] PROVE FALSE
            OBVIOUS
          <6>1. launches[a] = 1
            BY DEF RInv, IInv, OpInv, LaunchInv
          <6> QED
            BY <2>8, <4>2, <6>1 DEF Overtaken
        <5>2. mishaps.outside = 0
          BY <3>1 DEF Quiet
        <5> QED
          BY <5>1, <5>2 DEF RInv, ReasonInv, DiskInv
      <4> QED
        BY <3>1, <4>1, <4>2
    <3>4. FoundInv(j)
      BY <2>3, <3>1, <3>2
    <3>6. ASSUME NEW t \in j.muts PROVE ThingInv(o, t)'
      <4>1. t \in Things
        BY <2>2, <3>6 DEF Targets
      <4>2. Stage(t) \in 1..4
        BY <4>1, StageIs
      <4>3. Waiting(job[o], t)'
        BY <2>1, <2>2, <2>4, <3>6 DEF Waiting
      <4> QED
        BY <2>2, <2>4, <4>2, <4>3 DEF ThingInv
    <3>7. FoundInv(job[o])'
      BY <2>1, <2>4, <3>4 DEF FoundInv
    <3> QED
      BY <2>1, <2>4, <3>3, <3>6, <3>7
  <2>11. ReadyInv(o)'
    <3>1. todo'[o] = {} /\ \A t \in job'[o].staged : Moves(t)
      BY <2>1, <2>2, <2>4, <2>6, <2>7 DEF ReadyInv
    <3>2. Quiet /\ mishaps.crash = 0 => disk = plan[o].marker
      BY <2>1, <2>7 DEF ReadyInv, Opening
    <3>3. Quiet' <=> Quiet
      BY <2>1 DEF Quiet
    <3> QED
      BY <2>1, <2>2, <2>4, <2>6, <2>8, <3>1, <3>2, <3>3 DEF ReadyInv, Launched
  <2>12. WordInv(o)'
    BY <2>1, <2>6, <2>7, <2>8 DEF WordInv
  <2> QED
    BY <2>1, <2>9, <2>10, <2>11, <2>12, ReasonStep
<1> QED
  BY <1>1, <1>2

LEMMA CompleteReasons == ASSUME RInv, IInv', NEW o \in Ops, Complete(o) PROVE RInv'
<1>1. /\ Move(o, "prepare", "prepared") /\ UNCHANGED mishaps
      /\ profile => job[o].mark = 5 /\ ~job[o].torn /\ Replaced(o)
  BY DEF Complete
<1>2. /\ pc[o] = "prepare" /\ pc'[o] = "prepared" /\ Elsewhere(o)
      /\ UNCHANGED <<profile, row, plan, project, committed, disk, files, job>>
      /\ UNCHANGED <<editor, guest, launches, upgraded, late, daemon>>
  BY <1>1, MoveElsewhere DEF PCs
<1>3. ReadyInv(o) /\ WordInv(o) /\ PrepInv(o) /\ PlaceInv(o)
  BY DEF RInv, ReasonInv, IInv, OpInv
<1>4. Quiet' <=> Quiet
  BY <1>1 DEF Quiet
<1>5. row[o].phase = "preparation_intent"
  BY <1>2, <1>3 DEF PlaceInv
<1>6. PrepInv(o)'
  <2> SUFFICES ASSUME Own(o)' PROVE /\ FoundInv(job[o])' /\ \A t \in job'[o].muts : ThingInv(o, t)'
                                    /\ disk' = plan'[o].marker
    BY DEF PrepInv
  <2>1. Overtaken(o)' <=> Overtaken(o)
    BY <1>2 DEF Overtaken
  <2>2. Own(o)
    BY <1>1, <1>2, <1>4, <2>1 DEF Own
  <2>3. /\ FoundInv(job[o]) /\ \A t \in job[o].muts : ThingInv(o, t)
        /\ disk = plan[o].marker
    BY <1>3, <2>2 DEF PrepInv
  <2>4. FoundInv(job[o])'
    BY <1>2, <2>3 DEF FoundInv
  <2>5. ASSUME NEW t \in job[o].muts PROVE ThingInv(o, t)'
    BY <1>2, <2>3, <2>5 DEF ThingInv, Waiting, Away, Placed
  <2> QED
    BY <1>2, <2>3, <2>4, <2>5
<1>7. ReadyInv(o)'
  BY <1>1, <1>2, <1>3, <1>4, <1>5 DEF ReadyInv, Opening, Launched
<1>8. WordInv(o)'
  BY <1>1, <1>2, <1>3, <1>5 DEF WordInv
<1>9. Original \/ Renewed
  <2>1. CASE profile
    <3>1. \A t \in Things : Kind[t] = "vpm" => files[t] = "new"
      BY <1>1, <2>1 DEF Replaced, Manifest
    <3> QED
      BY <3>1 DEF Renewed
  <2>2. CASE ~profile
    BY <2>2 DEF RInv, ReasonInv, FilesInv
  <2> QED
    BY <2>1, <2>2
<1> QED
  BY <1>2, <1>6, <1>7, <1>8, <1>9, ReasonStep

\* The next thing of a preparation that is its own always has a step.
LEMMA NextThingFits ==
    ASSUME RInv, NEW o \in Ops, Own(o), pc[o] = "prepare", todo[o] # {}
    PROVE  \/ Blocking(job[o], First(o)) \/ Vacant(job[o], First(o)) \/ InPlace(job[o], First(o))
           \/ mishaps.crash > 0 /\ PublishedUnmarked(o)
<1> DEFINE t == First(o)
           j == job[o]
<1>1. t \in todo[o] /\ t \in Things
  BY FirstIs DEF RInv, IInv
<1>2. t \in j.muts /\ Stage(t) = j.mark
  BY <1>1 DEF RInv, ReasonInv, ReadyInv, Pending
<1>3. FoundInv(j) /\ ThingInv(o, t)
  BY <1>2 DEF RInv, ReasonInv, PrepInv
<1>4. /\ Kind[t] \in Kinds
      /\ Package(t) <=> Kind[t] \in {"install", "update", "remove"}
      /\ Kind[t] = "install" => Stage(t) = 1
  BY <1>1, StageIs DEF Package
<1>5. Waiting(j, t) \/ Away(j, t) \/ Placed(j, t)
  BY <1>2, <1>3 DEF ThingInv
<1> SUFFICES \/ Blocking(j, t) \/ Vacant(j, t) \/ InPlace(j, t)
             \/ (mishaps.crash > 0 /\ PublishedUnmarked(o))
  OBVIOUS
<1> HIDE DEF t
<1>6. CASE Waiting(j, t)
  <2>1. /\ Package(t) => j.before[t] = IF Kind[t] = "install" THEN "none" ELSE "old"
        /\ Manifest(t) => j.before[t] \in {"old", "new"}
        /\ Kind[t] = "legacy" => j.before[t] \in {"old", "none"}
    BY <1>1, <1>2, <1>3 DEF FoundInv
  <2>2. CASE Kind[t] = "install"
    BY <1>4, <1>6, <2>1, <2>2 DEF Waiting, Vacant, Moves
  <2>3. CASE Kind[t] \in {"update", "remove"}
    BY <1>4, <1>6, <2>1, <2>3 DEF Waiting, Blocking
  <2>4. CASE Kind[t] \in {"vpm", "upm"}
    BY <1>4, <1>6, <2>1, <2>4 DEF Waiting, Blocking, InPlace, Manifest
  <2>5. CASE Kind[t] = "legacy"
    <3>1. j.before[t] = "old" \/ j.before[t] = "none"
      BY <2>1, <2>5
    <3>2. t \notin j.backup /\ files[t] = j.before[t]
      BY <1>6 DEF Waiting
    <3>3. j.before[t] = "old" => Blocking(j, t)
      BY <2>5, <3>2 DEF Blocking
    <3>4. j.before[t] = "none" => InPlace(j, t)
      BY <2>5, <3>2 DEF InPlace
    <3> QED
      BY <3>1, <3>3, <3>4
  <2> QED
    BY <1>4, <2>2, <2>3, <2>4, <2>5 DEF Kinds
<1>7. CASE Away(j, t)
  <2>1. Vacant(j, t) \/ InPlace(j, t)
    BY <1>7 DEF Away, Vacant, InPlace, Moves
  <2> QED
    BY <2>1
<1>8. CASE Placed(j, t)
  <2>1. CASE Kind[t] = "install"
    <3>1. files[t] = "new" /\ t \notin j.staged
      BY <1>8, <2>1 DEF Placed
    <3>2. mishaps.crash # 0
      <4> SUFFICES ASSUME mishaps.crash = 0 PROVE FALSE
        OBVIOUS
      <4>1. Waiting(j, t)
        BY <1>1, <1>2, <1>3, <2>1 DEF ThingInv, t
      <4> QED
        BY <2>1, <3>1, <4>1 DEF Waiting, Moves
    <3>3. mishaps.crash > 0
      BY <3>2, MishapNat DEF RInv, IInv
    <3>4. PublishedUnmarked(o)
      BY <1>2, <1>4, <2>1, <3>1 DEF PublishedUnmarked
    <3> QED
      BY <3>3, <3>4
  <2>2. CASE Kind[t] # "install"
    <3>1. InPlace(j, t)
      BY <1>4, <1>8, <2>2 DEF Placed, InPlace, Manifest, Kinds
    <3> QED
      BY <3>1
  <2> QED
    BY <2>1, <2>2
<1> QED
  BY <1>5, <1>6, <1>7, <1>8

\* The verifications of a preparation that is its own succeed.
LEMMA VerificationFits ==
    ASSUME RInv, NEW o \in Ops, Own(o), pc[o] = "prepare", todo[o] = {}
    PROVE  /\ job[o].mark = 0 => Untouched(o)
           /\ job[o].mark \in {4, 5} => Replaced(o)
<1> DEFINE j == job[o]
<1>1. FoundInv(j) /\ disk = plan[o].marker
  BY DEF RInv, ReasonInv, PrepInv
<1>2. ASSUME NEW t \in j.muts PROVE ThingInv(o, t) /\ Stage(t) \in 1..4 /\ t \in Things
  <2>1. t \in Things
    BY <1>2 DEF RInv, IInv, TypeOK, Jobs
  <2> QED
    BY <1>2, <2>1, StageIs DEF RInv, ReasonInv, PrepInv
<1>3. ASSUME j.mark = 0 PROVE Untouched(o)
  <2>1. ASSUME NEW t \in Things PROVE files[t] = j.before[t]
    <3>1. CASE t \in j.muts
      BY <1>2, <1>3, <3>1 DEF ThingInv, Waiting
    <3>2. CASE t \notin j.muts
      BY <1>1, <3>2 DEF FoundInv
    <3> QED
      BY <3>1, <3>2
  <2> QED
    BY <1>1, <2>1 DEF Untouched
<1>4. ASSUME j.mark \in {4, 5} PROVE Replaced(o)
  <2>1. ASSUME NEW t \in Things, Manifest(t) PROVE files[t] = "new"
    <3>1. t \in j.muts
      BY <1>1, <2>1 DEF FoundInv
    <3>2. Stage(t) < j.mark
      BY <1>4, <2>1, StageIs DEF Manifest
    <3>3. Placed(j, t)
      BY <1>2, <3>1, <3>2 DEF ThingInv
    <3> QED
      BY <2>1, <3>3 DEF Placed, Manifest
  <2>2. ASSUME NEW t \in Things, Package(t), t \in j.muts
        PROVE  files[t] = IF Kind[t] = "remove" THEN "none" ELSE "new"
    <3>1. Stage(t) < j.mark
      BY <1>4, <2>2 DEF Package
    <3>2. Placed(j, t)
      BY <1>2, <2>2, <3>1 DEF ThingInv
    <3>3. Kind[t] \in {"install", "update", "remove"}
      BY <2>2, StageIs
    <3> QED
      BY <3>2, <3>3 DEF Placed
  <2> QED
    BY <2>1, <2>2 DEF Replaced
<1> QED
  BY <1>3, <1>4

LEMMA MisfitReasons == ASSUME RInv, IInv', NEW o \in Ops, Misfit(o) PROVE RInv'
<1>1. /\ profile /\ Move(o, "prepare", "recover") /\ UNCHANGED mishaps /\ pc[o] = "prepare"
      /\ \/ job[o].torn
         \/ /\ todo[o] # {} /\ ~Blocking(job[o], First(o)) /\ ~Vacant(job[o], First(o))
            /\ ~InPlace(job[o], First(o))
         \/ todo[o] = {} /\ job[o].mark = 0 /\ ~Untouched(o)
         \/ todo[o] = {} /\ job[o].mark \in {4, 5} /\ ~Replaced(o)
  BY DEF Misfit, Move, At
<1>2. ~Own(o) \/ (mishaps.crash > 0 /\ PublishedUnmarked(o))
  BY <1>1, NextThingFits, VerificationFits DEF Own
<1>3. /\ mishaps.outside \in Nat /\ mishaps.blind \in Nat /\ mishaps.fault \in Nat
      /\ mishaps.crash \in Nat
  BY MishapNat DEF RInv, IInv
<1>4. Excused(o)
  <2>1. ~Own(o) => ~Quiet \/ job[o].torn \/ (mishaps.crash # 0 /\ Overtaken(o))
    BY <1>1 DEF Own
  <2>2. ~Quiet => mishaps.fault > 0 \/ mishaps.outside > 0 \/ mishaps.blind > 0
    BY <1>3 DEF Quiet
  <2>3. mishaps.crash # 0 => mishaps.crash > 0
    BY <1>3
  <2> QED
    BY <1>2, <2>1, <2>2, <2>3, Zenon DEF Excused
<1>5. ~(Quiet /\ mishaps.crash = 0)
  <2>1. job[o].torn => mishaps.crash # 0
    BY <1>3 DEF RInv, ReasonInv, ReadyInv
  <2> QED
    BY <1>1, <1>2, <1>3, <2>1 DEF Own
<1>6. Excused(o)'
  <2>1. UNCHANGED <<profile, job, upgraded, editor, launches, committed, late>>
    BY <1>1 DEF Move, store, tree, outside
  <2>2. \A p \in Ops \ {o} : Traced(p) => Traced(p)'
    BY <2>1 DEF Traced, Altered
  <2> QED
    BY <1>1, <1>4, <2>1, <2>2, ExcuseStays
<1>7. Errand(o, "prepare", "recover")
  BY <1>1, <1>5, <1>6 DEF Errand, Held, PCs, Opening, Quiet
<1> QED
  BY <1>1, <1>7, ErrandKeeps

\* A step inside a preparation: one thing moves, or the marker does.
LEMMA PreparationReasons ==
    ASSUME RInv, IInv', NEW o \in Ops, Preparing(o), UNCHANGED <<pc, lock>>,
           NEW j \in Jobs, job' = [job EXCEPT ![o] = j],
           NEW left \in SUBSET Things, todo' = [todo EXCEPT ![o] = left],
           files' \in [Things -> Content],
           \/ files' = files
           \/ job[o].mark > 0,
           \A t \in Things : Kind[t] = "legacy" /\ files'[t] # files[t] => files'[t] = "none",
           job[o].mark > 0 \/ j.mark > 0,
           j.torn = job[o].torn, \A t \in j.staged : Moves(t),
           left \subseteq Pending(j),
           Own(o) => FoundInv(job[o])' /\ \A t \in job'[o].muts : ThingInv(o, t)',
           job[o].mark > 0 => j.mark > 0
    PROVE  RInv'
<1>1. /\ pc[o] = "prepare" /\ profile /\ pc' = pc /\ lock' = lock
      /\ UNCHANGED <<profile, row, plan, project, committed, disk>>
      /\ UNCHANGED <<editor, guest, launches, upgraded, late, daemon, mishaps>>
  BY DEF Preparing, At, store, outside
<1>2. /\ job'[o] = j /\ \A a \in Ops \ {o} : job'[a] = job[a]
      /\ todo'[o] = left /\ \A a \in Ops \ {o} : todo'[a] = todo[a]
  BY DEF RInv, IInv, TypeOK
<1>3. lock = o
  BY <1>1 DEF RInv, IInv, OpInv, RowInv, Held, PCs
<1>4. Elsewhere(o)
  BY <1>1, <1>2 DEF Elsewhere, OnlyItsOwn, Altered
<1>5. ASSUME NEW a \in Ops \ {o} PROVE PrepInv(a)' /\ ReadyInv(a)' /\ WordInv(a)'
  BY <1>3, <1>4, ElsewhereKeeps
<1>6. ReadyInv(o) /\ WordInv(o) /\ PrepInv(o) /\ PlaceInv(o)
  BY DEF RInv, ReasonInv, IInv, OpInv
<1>7. PrepInv(o)'
  <2> SUFFICES ASSUME Own(o)' PROVE /\ FoundInv(job[o])' /\ \A t \in job'[o].muts : ThingInv(o, t)'
                                    /\ disk' = plan'[o].marker
    BY DEF PrepInv
  <2>1. Overtaken(o)' <=> Overtaken(o)
    BY <1>1, <1>2 DEF Overtaken
  <2>2. Own(o)
    BY <1>1, <1>2, <2>1 DEF Own, Quiet
  <2>3. disk = plan[o].marker
    BY <1>6, <2>2 DEF PrepInv
  <2> QED
    BY <1>1, <2>2, <2>3
<1>8. ReadyInv(o)'
  <2>1. todo'[o] \subseteq Pending(job[o])'
    BY <1>2 DEF Pending
  <2>2. row[o].phase = "preparation_intent"
    BY <1>1, <1>6 DEF PlaceInv
  <2>3. Quiet' <=> Quiet
    BY <1>1 DEF Quiet
  <2>4. row[o].phase \notin {"preparation_complete"} \cup Launched
    BY <2>2 DEF Launched
  <2> QED
    BY <1>1, <1>2, <1>6, <2>1, <2>2, <2>3, <2>4 DEF ReadyInv
<1>9. WordInv(o)'
  <2>1. row[o].phase = "preparation_intent"
    BY <1>1, <1>6 DEF PlaceInv
  <2> QED
    BY <1>1, <1>6, <2>1 DEF WordInv
<1>10. FilesInv'
  <2>1. profile' /\ pc'[o] = "prepare"
    BY <1>1
  <2>2. job'[o].mark # 0
    BY <1>2 DEF Jobs
  <2>3. \A t \in Things : Kind[t] = "legacy" => files'[t] \in {"old", "none"}
    BY DEF RInv, ReasonInv, FilesInv
  <2> QED
    BY <2>1, <2>2, <2>3 DEF FilesInv
<1>11. DiskInv'
  BY <1>1 DEF RInv, ReasonInv, DiskInv
<1> QED
  BY <1>5, <1>7, <1>8, <1>9, <1>10, <1>11 DEF RInv, ReasonInv

\* What the next thing of a preparation is to it.
LEMMA NextThingIs ==
    ASSUME RInv, NEW o \in Ops, pc[o] = "prepare", todo[o] # {}
    PROVE  /\ First(o) \in Things /\ First(o) \in todo[o] /\ First(o) \in job[o].muts
           /\ Stage(First(o)) = job[o].mark /\ job[o].mark > 0
<1>1. First(o) \in todo[o] /\ First(o) \in Things
  BY FirstIs DEF RInv, IInv
<1>2. First(o) \in job[o].muts /\ Stage(First(o)) = job[o].mark
  BY <1>1 DEF RInv, ReasonInv, ReadyInv, Pending
<1>3. Stage(First(o)) \in 1..4
  BY <1>1, StageIs
<1> QED
  BY <1>1, <1>2, <1>3

LEMMA PutAsideReasons == ASSUME RInv, IInv', NEW o \in Ops, PutAside(o) PROVE RInv'
<1> DEFINE t == First(o)
           r == job[o]
           j == [r EXCEPT !.backup = r.backup \cup {t}]
<1>1. /\ Preparing(o) /\ UNCHANGED <<pc, lock>> /\ todo[o] # {} /\ Blocking(r, t)
      /\ job' = [job EXCEPT ![o] = j] /\ todo' = todo
      /\ files' = [files EXCEPT ![t] = "none"] /\ pc[o] = "prepare" /\ pc'[o] = "prepare"
      /\ mishaps' = mishaps
  BY DEF PutAside, SetJob, Preparing, At
<1>2. t \in Things /\ t \in todo[o] /\ t \in r.muts /\ Stage(t) = r.mark /\ r.mark > 0
  BY <1>1, NextThingIs
<1>3. r \in Jobs /\ files \in [Things -> Content] /\ todo[o] \in SUBSET Things
  BY DEF RInv, IInv, TypeOK
<1>4. Kind[t] \in Kinds /\ Stage(t) \in 1..4 /\ (Package(t) <=> Kind[t] \in {"install", "update", "remove"})
  BY <1>2, StageIs
<1>5. todo' = [todo EXCEPT ![o] = todo[o]]
  BY <1>1 DEF RInv, IInv, TypeOK
<1>6. (\A u \in r.staged : Moves(u)) /\ todo[o] \subseteq Pending(r)
  BY <1>1 DEF RInv, ReasonInv, ReadyInv
<1>7. Own(o) => FoundInv(r) /\ \A u \in r.muts : ThingInv(o, u)
  BY DEF RInv, ReasonInv, PrepInv
<1> HIDE DEF t, r
<1>8. /\ j \in Jobs /\ j.mark = r.mark /\ j.torn = r.torn /\ j.muts = r.muts
      /\ j.staged = r.staged /\ j.before = r.before /\ j.backup = r.backup \cup {t}
  BY <1>2, <1>3 DEF Jobs
<1> HIDE DEF j
<1>9. /\ files' \in [Things -> Content] /\ files'[t] = "none"
      /\ \A u \in Things \ {t} : files'[u] = files[u]
  BY <1>1, <1>2, <1>3 DEF Content
<1>10. job'[o] = j /\ todo'[o] = todo[o]
  BY <1>1 DEF RInv, IInv, TypeOK
<1>11. ASSUME Own(o) PROVE FoundInv(job[o])'
  BY <1>2, <1>7, <1>8, <1>9, <1>10, <1>11 DEF FoundInv
<1>12. ASSUME Own(o), NEW u \in r.muts PROVE ThingInv(o, u)'
  <2>1. ThingInv(o, u) /\ u \in Things
    BY <1>3, <1>7, <1>12 DEF Jobs
  <2>2. CASE u # t
    <3>1. /\ files'[u] = files[u] /\ (u \in j.staged <=> u \in r.staged)
          /\ (u \in j.backup <=> u \in r.backup) /\ j.before = r.before /\ j.mark = r.mark
          /\ job'[o] = j /\ job[o] = r /\ pc'[o] = pc[o] /\ mishaps' = mishaps
          /\ (u \in todo'[o] <=> u \in todo[o])
      BY <1>1, <1>8, <1>9, <1>10, <2>1, <2>2 DEF r
    <3>2. /\ Waiting(job[o], u)' <=> Waiting(job[o], u)
          /\ Away(job[o], u)' <=> Away(job[o], u)
          /\ Placed(job[o], u)' <=> Placed(job[o], u)
      BY <3>1 DEF Waiting, Away, Placed
    <3> QED
      BY <2>1, <3>1, <3>2 DEF ThingInv
  <2>3. CASE u = t
    <3>1. FoundInv(r) /\ (Waiting(r, t) \/ Away(r, t) \/ Placed(r, t))
      BY <1>2, <1>7, <1>12, <2>1, <2>3 DEF ThingInv, r
    <3>2. Kind[t] # "install"
      BY <1>1, <1>2, <1>4, <3>1 DEF Blocking, FoundInv, Manifest
    <3>3. Moves(t) => t \in r.staged
      <4>1. t \notin r.backup
        BY <1>1 DEF Blocking
      <4>2. CASE Kind[t] = "update"
        <5>1. ~Placed(r, t)
          BY <4>1, <4>2 DEF Placed
        <5> QED
          BY <3>1, <4>1, <5>1 DEF Waiting, Away
      <4>3. CASE Kind[t] \in {"vpm", "upm"}
        <5>1. files[t] # "new"
          BY <1>1, <1>4, <4>3 DEF Blocking, Manifest
        <5>2. ~Placed(r, t)
          BY <4>3, <5>1 DEF Placed
        <5> QED
          BY <3>1, <4>1, <5>2 DEF Waiting, Away
      <4> QED
        BY <1>4, <3>2, <4>2, <4>3 DEF Moves, Kinds
    <3>4. Away(job[o], u)'
      BY <1>8, <1>9, <1>10, <2>3, <3>2, <3>3 DEF Away, Moves
    <3> QED
      BY <1>1, <1>2, <1>4, <1>8, <1>10, <2>3, <3>2, <3>4 DEF ThingInv
  <2> QED
    BY <2>2, <2>3
<1>13. job[o].mark > 0 /\ j.mark > 0 /\ j.torn = job[o].torn /\ todo[o] \subseteq Pending(j)
       /\ (\A u \in j.staged : Moves(u)) /\ j.muts = job'[o].muts
  BY <1>2, <1>6, <1>8, <1>10 DEF r, Pending
<1>14. \A u \in Things : Kind[u] = "legacy" /\ files'[u] # files[u] => files'[u] = "none"
  BY <1>9
<1>15. job' = [job EXCEPT ![o] = j]
  BY <1>1
<1>16. Own(o) => FoundInv(job[o])' /\ \A u \in job'[o].muts : ThingInv(o, u)'
  BY <1>8, <1>11, <1>12, <1>13
<1> QED
  BY <1>1, <1>3, <1>5, <1>8, <1>9, <1>13, <1>14, <1>15, <1>16, PreparationReasons

LEMMA PutInReasons == ASSUME RInv, IInv', NEW o \in Ops, PutIn(o) PROVE RInv'
<1> DEFINE t == First(o)
           r == job[o]
           j == [r EXCEPT !.staged = r.staged \ {t}]
           left == todo[o] \ {t}
<1>1. /\ Preparing(o) /\ UNCHANGED <<pc, lock>> /\ todo[o] # {} /\ Vacant(r, t)
      /\ job' = [job EXCEPT ![o] = j] /\ todo' = [todo EXCEPT ![o] = left]
      /\ files' = [files EXCEPT ![t] = "new"] /\ pc[o] = "prepare" /\ pc'[o] = "prepare"
      /\ mishaps' = mishaps
  BY DEF PutIn, SetJob, Preparing, At
<1>2. t \in Things /\ t \in todo[o] /\ t \in r.muts /\ Stage(t) = r.mark /\ r.mark > 0
  BY <1>1, NextThingIs
<1>3. r \in Jobs /\ files \in [Things -> Content] /\ left \in SUBSET Things
  BY DEF RInv, IInv, TypeOK
<1>4. Kind[t] \in Kinds /\ Stage(t) \in 1..4
  BY <1>2, StageIs
<1>5. (\A u \in r.staged : Moves(u)) /\ left \subseteq Pending(r)
  BY <1>1 DEF RInv, ReasonInv, ReadyInv
<1>6. Own(o) => FoundInv(r) /\ \A u \in r.muts : ThingInv(o, u)
  BY DEF RInv, ReasonInv, PrepInv
<1>7. t \in r.staged /\ Moves(t) /\ (t \in r.backup \/ Kind[t] = "install")
  BY <1>1, <1>5 DEF Vacant
<1>8. \A u \in Things : u \in left <=> u \in todo[o] /\ u # t
  OBVIOUS
<1> HIDE DEF t, r, left
<1>9. /\ j \in Jobs /\ j.mark = r.mark /\ j.torn = r.torn /\ j.muts = r.muts
      /\ j.staged = r.staged \ {t} /\ j.before = r.before /\ j.backup = r.backup
  BY <1>3 DEF Jobs
<1> HIDE DEF j
<1>10. /\ files' \in [Things -> Content] /\ files'[t] = "new"
       /\ \A u \in Things \ {t} : files'[u] = files[u]
  BY <1>1, <1>2, <1>3 DEF Content
<1>11. job'[o] = j /\ todo'[o] = left
  BY <1>1 DEF RInv, IInv, TypeOK
<1>12. ASSUME Own(o) PROVE FoundInv(job[o])'
  BY <1>2, <1>6, <1>9, <1>10, <1>11, <1>12 DEF FoundInv
<1>13. ASSUME Own(o), NEW u \in r.muts PROVE ThingInv(o, u)'
  <2>1. ThingInv(o, u) /\ u \in Things
    BY <1>3, <1>6, <1>13 DEF Jobs
  <2>2. CASE u # t
    <3>1. /\ files'[u] = files[u] /\ (u \in j.staged <=> u \in r.staged)
          /\ (u \in j.backup <=> u \in r.backup) /\ j.before = r.before /\ j.mark = r.mark
          /\ job'[o] = j /\ job[o] = r /\ pc'[o] = pc[o] /\ mishaps' = mishaps
          /\ (u \in todo'[o] <=> u \in todo[o])
      BY <1>1, <1>8, <1>9, <1>10, <1>11, <2>1, <2>2 DEF r
    <3>2. /\ Waiting(job[o], u)' <=> Waiting(job[o], u)
          /\ Away(job[o], u)' <=> Away(job[o], u)
          /\ Placed(job[o], u)' <=> Placed(job[o], u)
      BY <3>1 DEF Waiting, Away, Placed
    <3> QED
      BY <2>1, <3>1, <3>2 DEF ThingInv
  <2>3. CASE u = t
    <3>1. Kind[t] \in {"install", "update", "vpm", "upm"}
      BY <1>4, <1>7 DEF Moves, Kinds
    <3>2. Placed(job[o], u)'
      BY <1>7, <1>9, <1>10, <1>11, <2>3, <3>1 DEF Placed
    <3>3. u \notin left
      BY <2>1, <2>3, <1>8
    <3> QED
      BY <1>2, <1>4, <1>9, <1>11, <2>3, <3>2, <3>3 DEF ThingInv
  <2> QED
    BY <2>2, <2>3
<1>14. job[o].mark > 0 /\ j.mark > 0 /\ j.torn = job[o].torn /\ left \subseteq Pending(j)
       /\ (\A u \in j.staged : Moves(u)) /\ j.muts = job'[o].muts
  BY <1>2, <1>5, <1>9, <1>11 DEF r, Pending
<1>15. \A u \in Things : Kind[u] = "legacy" /\ files'[u] # files[u] => files'[u] = "none"
  BY <1>7, <1>10 DEF Moves
<1>16. job' = [job EXCEPT ![o] = j] /\ todo' = [todo EXCEPT ![o] = left]
  BY <1>1
<1>17. Own(o) => FoundInv(job[o])' /\ \A u \in job'[o].muts : ThingInv(o, u)'
  BY <1>9, <1>12, <1>13, <1>14
<1> QED
  BY <1>1, <1>3, <1>9, <1>10, <1>14, <1>15, <1>16, <1>17, PreparationReasons

LEMMA SkipReasons == ASSUME RInv, IInv', NEW o \in Ops, Skip(o) PROVE RInv'
<1> DEFINE t == First(o)
           r == job[o]
           left == todo[o] \ {t}
<1>1. /\ Preparing(o) /\ UNCHANGED <<pc, lock>> /\ todo[o] # {} /\ InPlace(r, t)
      /\ job' = job /\ todo' = [todo EXCEPT ![o] = left]
      /\ files' = files /\ pc[o] = "prepare" /\ pc'[o] = "prepare"
      /\ mishaps' = mishaps
  BY DEF Skip, Preparing, At
<1>2. t \in Things /\ t \in todo[o] /\ t \in r.muts /\ Stage(t) = r.mark /\ r.mark > 0
  BY <1>1, NextThingIs
<1>3. r \in Jobs /\ files \in [Things -> Content] /\ left \in SUBSET Things
  BY DEF RInv, IInv, TypeOK
<1>4. /\ Kind[t] \in Kinds /\ Stage(t) \in 1..4
      /\ Package(t) <=> Kind[t] \in {"install", "update", "remove"}
  BY <1>2, StageIs
<1>5. (\A u \in r.staged : Moves(u)) /\ left \subseteq Pending(r)
  BY <1>1 DEF RInv, ReasonInv, ReadyInv
<1>6. Own(o) => FoundInv(r) /\ \A u \in r.muts : ThingInv(o, u)
  BY DEF RInv, ReasonInv, PrepInv
<1>7. \A u \in Things : u \in left <=> u \in todo[o] /\ u # t
  OBVIOUS
<1>8. job' = [job EXCEPT ![o] = r]
  BY <1>1 DEF RInv, IInv, TypeOK
<1> HIDE DEF t, r, left
<1>9. job'[o] = r /\ todo'[o] = left
  BY <1>1 DEF RInv, IInv, TypeOK, r
<1>10. ASSUME Own(o) PROVE FoundInv(job[o])'
  BY <1>1, <1>6, <1>9, <1>10 DEF FoundInv
<1>11. ASSUME Own(o), NEW u \in r.muts PROVE ThingInv(o, u)'
  <2>1. ThingInv(o, u) /\ u \in Things
    BY <1>3, <1>6, <1>11 DEF Jobs
  <2>2. CASE u # t
    BY <1>1, <1>7, <1>9, <2>1, <2>2 DEF ThingInv, Waiting, Away, Placed, r
  <2>3. CASE u = t
    <3>1. Waiting(r, t) \/ Away(r, t) \/ Placed(r, t)
      BY <1>2, <2>1, <2>3 DEF ThingInv, r
    <3>2. Placed(r, t)
      <4>1. CASE Kind[t] = "install"
        <5>1. t \in r.backup /\ files[t] = "new"
          BY <1>1, <1>4, <4>1 DEF InPlace, Manifest
        <5> QED
          BY <3>1, <4>1, <5>1 DEF Waiting, Away
      <4>2. CASE Kind[t] = "update"
        BY <1>1, <1>4, <4>2 DEF InPlace, Placed, Manifest
      <4>3. CASE Kind[t] = "remove"
        BY <1>1, <1>4, <4>3 DEF InPlace, Placed, Manifest
      <4>4. CASE Kind[t] \in {"vpm", "upm"}
        BY <1>1, <1>4, <4>4 DEF InPlace, Placed, Manifest
      <4>5. CASE Kind[t] = "legacy"
        BY <1>1, <1>4, <4>5 DEF InPlace, Placed, Manifest
      <4> QED
        BY <1>4, <4>1, <4>2, <4>3, <4>4, <4>5 DEF Kinds
    <3>3. Placed(job[o], u)'
      BY <1>1, <1>9, <2>3, <3>2 DEF Placed
    <3>4. u \notin left
      BY <1>7, <2>1, <2>3
    <3> QED
      BY <1>2, <1>4, <1>9, <2>3, <3>3, <3>4 DEF ThingInv
  <2> QED
    BY <2>2, <2>3
<1>12. Own(o) => FoundInv(job[o])' /\ \A u \in job'[o].muts : ThingInv(o, u)'
  BY <1>9, <1>10, <1>11
<1>13. job[o].mark > 0 /\ r.mark > 0 /\ r.torn = job[o].torn /\ files' \in [Things -> Content]
  BY <1>1, <1>2, <1>3 DEF r
<1>14. \A u \in Things : files'[u] = files[u]
  BY <1>1
<1>15. todo' = [todo EXCEPT ![o] = left]
  BY <1>1
<1> QED
  BY <1>1, <1>3, <1>5, <1>8, <1>12, <1>13, <1>14, <1>15, PreparationReasons

LEMMA WriteMarkReasons == ASSUME RInv, IInv', NEW o \in Ops, WriteMark(o) PROVE RInv'
<1> DEFINE r == job[o]
           j == [r EXCEPT !.mark = r.mark + 1]
           left == Pending(j)
<1>1. /\ Preparing(o) /\ UNCHANGED <<pc, lock>> /\ todo[o] = {} /\ r.mark < 5
      /\ job' = [job EXCEPT ![o] = j] /\ todo' = [todo EXCEPT ![o] = left]
      /\ files' = files /\ pc[o] = "prepare" /\ pc'[o] = "prepare"
      /\ mishaps' = mishaps
  BY DEF WriteMark, SetJob, Preparing, At
<1>2. r \in Jobs /\ files \in [Things -> Content] /\ r.mark \in 0..5
  BY DEF RInv, IInv, TypeOK, Jobs
<1>3. \A u \in r.staged : Moves(u)
  BY DEF RInv, ReasonInv, ReadyInv
<1>4. Own(o) => FoundInv(r) /\ \A u \in r.muts : ThingInv(o, u)
  BY DEF RInv, ReasonInv, PrepInv
<1> HIDE DEF r
<1>5. /\ j \in Jobs /\ j.mark = r.mark + 1 /\ j.torn = r.torn /\ j.muts = r.muts
      /\ j.staged = r.staged /\ j.before = r.before /\ j.backup = r.backup
  BY <1>1, <1>2 DEF Jobs
<1> HIDE DEF j
<1>6. left \in SUBSET Things /\ \A u \in r.muts : u \in left <=> Stage(u) = r.mark + 1
  BY <1>5 DEF Pending, Jobs
<1> HIDE DEF left
<1>7. job'[o] = j /\ todo'[o] = left
  BY <1>1 DEF RInv, IInv, TypeOK
<1>8. ASSUME Own(o) PROVE FoundInv(job[o])'
  BY <1>1, <1>4, <1>5, <1>7, <1>8 DEF FoundInv
<1>9. ASSUME Own(o), NEW u \in r.muts PROVE ThingInv(o, u)'
  <2>1. /\ ThingInv(o, u) /\ u \in Things
    BY <1>2, <1>4, <1>9 DEF Jobs
  <2>2. Stage(u) \in 1..4
    BY <2>1, StageIs
  <2>3. (Waiting(job[o], u)' <=> Waiting(r, u)) /\ (Placed(job[o], u)' <=> Placed(r, u))
    BY <1>1, <1>5, <1>7 DEF Waiting, Placed
  <2>4. Stage(u) > r.mark => Waiting(r, u)
    BY <2>1 DEF ThingInv, r
  <2>5. Stage(u) <= r.mark => Placed(r, u)
    BY <1>1, <1>2, <2>1, <2>2 DEF ThingInv, r
  <2> QED
    BY <1>2, <1>5, <1>6, <1>7, <2>2, <2>3, <2>4, <2>5 DEF ThingInv
<1>10. Own(o) => FoundInv(job[o])' /\ \A u \in job'[o].muts : ThingInv(o, u)'
  BY <1>5, <1>7, <1>8, <1>9
<1>11. /\ j.mark > 0 /\ j.torn = job[o].torn /\ files' \in [Things -> Content]
       /\ \A u \in j.staged : Moves(u)
  BY <1>1, <1>2, <1>3, <1>5 DEF r
<1>12. \A u \in Things : files'[u] = files[u]
  BY <1>1
<1>13. job' = [job EXCEPT ![o] = j] /\ todo' = [todo EXCEPT ![o] = left] /\ left \subseteq Pending(j)
  BY <1>1 DEF left
<1> QED
  BY <1>1, <1>5, <1>6, <1>10, <1>11, <1>12, <1>13, PreparationReasons

LEMMA SpawnReasons == ASSUME RInv, IInv', NEW o \in Ops, Spawn(o) PROVE RInv'
<1>1. ReadyInv(o) /\ WordInv(o) /\ PlaceInv(o)
  BY DEF RInv, ReasonInv, IInv, OpInv
<1>2. pc[o] = "spawn" /\ row[o].phase = "launch_intent"
  BY <1>1 DEF Spawn, Move, At, PlaceInv
<1>3. CASE MayOpen(o)
  <2>1. /\ Onward(o, "started")
        /\ editor' = [editor EXCEPT ![o] = "running"]
        /\ launches' = [launches EXCEPT ![o] = launches[o] + 1]
        /\ UNCHANGED <<profile, row, plan, project, committed, disk, files, job>>
        /\ UNCHANGED <<guest, upgraded, late, daemon, mishaps>>
    BY <1>3 DEF Spawn, At, store, tree
  <2>2. "started" \in PCs /\ "started" # "idle"
    BY DEF PCs
  <2>3. /\ pc'[o] = "started" /\ todo' = todo
        /\ \A a \in Ops \ {o} : pc'[a] = pc[a] /\ (lock = a => lock' = a)
    BY <2>1, <2>2, OnwardIs, OnwardTodo DEF RInv
  <2>4. /\ \A a \in Ops \ {o} : launches'[a] = launches[a] /\ editor'[a] = editor[a]
        /\ launches'[o] > 0
    BY <2>1 DEF RInv, IInv, TypeOK
  <2>5. Elsewhere(o)
    BY <2>1, <2>3, <2>4 DEF Elsewhere, OnlyItsOwn, Altered
  <2>6. PrepInv(o)'
    BY <2>1, <2>3, <2>5, LeftAlone
  <2>7. ReadyInv(o)'
    BY <1>1, <1>2, <2>1, <2>3 DEF ReadyInv, Opening, Quiet
  <2>8. WordInv(o)'
    BY <1>1, <1>2, <2>1, <2>3 DEF WordInv
  <2> QED
    BY <1>2, <2>1, <2>5, <2>6, <2>7, <2>8, ReasonStep
<1>4. CASE ~MayOpen(o)
  <2>1. Move(o, "spawn", "noLaunch") /\ UNCHANGED mishaps
    BY <1>4 DEF Spawn
  <2>2. ~(Quiet /\ mishaps.crash = 0)
    BY <1>1, <1>2, <1>4 DEF ReadyInv, MayOpen, Opening, Launched
  <2>3. Errand(o, "spawn", "noLaunch")
    BY <2>1, <2>2 DEF Errand, Held, PCs, Opening, Quiet
  <2> QED
    BY <2>1, <2>3, ErrandKeeps
<1> QED
  BY <1>3, <1>4

\* A worker records nothing and ends, or goes on; its row may end with it.
LEMMA LeavesReasons ==
    ASSUME RInv, IInv', NEW o \in Ops, NEW there \in {"idle", "recover"}, Onward(o, there),
           pc[o] \notin {"prepare", "prepared"},
           UNCHANGED <<profile, plan, project, committed, disk, files, job>>,
           UNCHANGED <<editor, guest, launches, upgraded, daemon, mishaps>>,
           late => late',
           row' = [row EXCEPT ![o].state = row'[o].state],
           row'[o].state = row[o].state \/ row'[o].state \in Terminal,
           row[o].state # "absent",
           there = "recover" => late',
           there = "idle" =>
               \/ row'[o].state \in Terminal \/ row[o].cancel
               \/ row[o].phase = "project_reobserved" /\ project.rev # plan[o].rev
    PROVE  RInv'
<1>1. /\ row[o] \in Row /\ \A a \in Ops \ {o} : row'[a] = row[a]
      /\ row'[o].phase = row[o].phase /\ row'[o].cancel = row[o].cancel
      /\ row'[o].safe = row[o].safe
  BY DEF RInv, IInv, TypeOK, Row
<1>2. /\ pc'[o] = there /\ \A a \in Ops \ {o} : pc'[a] = pc[a] /\ todo'[a] = todo[a]
      /\ \A a \in Ops \ {o} : lock = a => lock' = a
  BY OnwardIs, OnwardTodo DEF RInv, PCs
<1>3. Elsewhere(o)
  BY <1>1, <1>2 DEF Elsewhere, OnlyItsOwn, Altered
<1>4. ReadyInv(o) /\ WordInv(o)
  BY DEF RInv, ReasonInv
<1>5. PrepInv(o)'
  BY <1>1, <1>2, <1>3, LeftAlone
<1>6. ReadyInv(o)'
  BY <1>1, <1>2, <1>4 DEF ReadyInv, Opening, Quiet
<1>7. WordInv(o)'
  <2>1. Excused(o) => Excused(o)'
    <3>1. \A p \in Ops \ {o} : Traced(p) => Traced(p)'
      BY DEF Traced, Altered
    <3> QED
      BY <3>1, ExcuseStays
  <2>2. there = "recover" => Excused(o)'
    BY DEF Excused
  <2>3. there = "idle" =>
            \/ ~Live(o)' \/ row'[o].cancel
            \/ row'[o].phase = "project_reobserved" /\ project'.rev # plan'[o].rev
    BY <1>1 DEF Live
  <2>4. row'[o].state = "cancelling" => row'[o].cancel
    BY <1>1, <1>4 DEF WordInv, Terminal
  <2> QED
    BY <1>1, <1>2, <1>4, <2>1, <2>2, <2>3, <2>4 DEF WordInv
<1> QED
  BY <1>3, <1>5, <1>6, <1>7, ReasonStep

LEMMA TimeOutReasons == ASSUME RInv, IInv', NEW o \in Ops, TimeOut(o) PROVE RInv'
<1>1. /\ pc[o] = "observe" /\ Onward(o, "recover") /\ late'
      /\ UNCHANGED <<profile, row, plan, project, committed, disk, files, job>>
      /\ UNCHANGED <<editor, guest, launches, upgraded, daemon, mishaps>>
  BY DEF TimeOut, At, store, tree, outside
<1>2. row' = [row EXCEPT ![o].state = row'[o].state] /\ row[o].state # "absent"
  BY <1>1 DEF RInv, IInv, TypeOK, OpInv, RowInv
<1> QED
  BY <1>1, <1>2, LeavesReasons

LEMMA EndReasons ==
    ASSUME RInv, IInv', NEW o \in Ops, NEW here, NEW allowed, NEW state,
           \/ here = "failEarly" /\ allowed = MayFail(o) /\ state = "failed"
           \/ here = "failSafe" /\ allowed = MayFail(o) /\ state = "failed"
           \/ here = "cancelled" /\ allowed = MayCancel(o) /\ state = "cancelled"
           \/ here = "finish" /\ allowed = MaySucceed(o) /\ state = "succeeded",
           End(o, here, allowed, state)
    PROVE  RInv'
<1>1. /\ pc[o] = here /\ EndTask(o)
      /\ UNCHANGED <<profile, plan, project, committed, disk, files, job>>
      /\ UNCHANGED <<editor, guest, launches, upgraded, late, daemon, mishaps>>
  BY DEF End, At, tree, outside
<1>2. PlaceInv(o) /\ RowInv(o) /\ WordInv(o)
  BY DEF RInv, ReasonInv, IInv, OpInv
<1>3. here \in Held
  BY DEF Held, PCs
<1>4. row[o].state \in {"running", "cancelling"}
  BY <1>1, <1>2, <1>3 DEF RowInv
<1>5. allowed
  <2>1. CASE here = "failEarly" /\ allowed = MayFail(o)
    BY <1>1, <1>2, <2>1 DEF PlaceInv, MayFail
  <2>2. CASE here = "failSafe" /\ allowed = MayFail(o)
    BY <1>1, <1>2, <2>2 DEF WordInv, MayFail
  <2>3. CASE here = "cancelled" /\ allowed = MayCancel(o)
    BY <1>1, <1>2, <2>3 DEF PlaceInv, MayCancel
  <2>4. CASE here = "finish" /\ allowed = MaySucceed(o)
    BY <1>1, <1>2, <2>4 DEF PlaceInv, MaySucceed
  <2> QED
    BY <2>1, <2>2, <2>3, <2>4
<1>6. row' = [row EXCEPT ![o].state = state] /\ state \in Terminal
  BY <1>4, <1>5 DEF End, SetState, Terminal
<1>7. row'[o].state = state
  BY <1>6 DEF RInv, IInv, TypeOK
<1>8. Onward(o, "idle") /\ here \notin {"prepare", "prepared"}
  BY <1>1 DEF Onward
<1> QED
  BY <1>1, <1>4, <1>6, <1>7, <1>8, LeavesReasons

LEMMA CommitReasons == ASSUME RInv, IInv', NEW o \in Ops, Commit(o) PROVE RInv'
<1>1. /\ pc[o] = "commit"
      /\ UNCHANGED <<profile, plan, disk, files, job>>
      /\ UNCHANGED <<editor, guest, launches, upgraded, late, daemon, mishaps>>
  BY DEF Commit, At, tree, outside
<1>2. PlaceInv(o) /\ RowInv(o) /\ WordInv(o) /\ ReadyInv(o)
  BY DEF RInv, ReasonInv, IInv, OpInv
<1>3. row[o].phase = "project_reobserved" /\ row[o].state \in {"running", "cancelling"}
  BY <1>1, <1>2 DEF PlaceInv, RowInv, Held, PCs
<1>4. CASE row[o].state = "running" /\ project.rev = plan[o].rev
  <2>1. /\ project' = [rev |-> project.rev + 1, version |-> "target"]
        /\ committed' = [committed EXCEPT ![o] = TRUE]
        /\ row' = [row EXCEPT ![o].phase = "state_committed"]
        /\ Onward(o, "cleanup")
    BY <1>3, <1>4 DEF Commit
  <2>2. /\ committed'[o] /\ \A a \in Ops \ {o} : committed'[a] = committed[a]
        /\ row'[o].phase = "state_committed" /\ row'[o].state = row[o].state
        /\ row'[o].safe = row[o].safe /\ \A a \in Ops \ {o} : row'[a] = row[a]
    BY <2>1 DEF RInv, IInv, TypeOK
  <2>3. "cleanup" \in PCs /\ "cleanup" # "idle"
    BY DEF PCs
  <2>4. /\ pc'[o] = "cleanup" /\ todo' = todo
        /\ \A a \in Ops \ {o} : pc'[a] = pc[a] /\ (lock = a => lock' = a)
    BY <2>1, <2>3, OnwardIs, OnwardTodo DEF RInv
  <2>5. project'.rev = project.rev + 1 /\ project.rev # 0
    BY <1>2, <1>4, <2>1 DEF WordInv
  <2>6. Elsewhere(o)
    BY <1>1, <2>2, <2>4, <2>5 DEF Elsewhere, OnlyItsOwn, Altered
  <2>7. PrepInv(o)'
    BY <1>1, <2>2, <2>4, <2>6, LeftAlone
  <2>8. ReadyInv(o)'
    BY <1>1, <1>2, <2>2, <2>4 DEF ReadyInv, Opening, Quiet, Launched
  <2>9. WordInv(o)'
    <3>1. plan'[o].rev <= project'.rev
      BY <1>1, <1>4, <2>5 DEF RInv, IInv, TypeOK
    <3> QED
      BY <1>1, <1>2, <1>4, <2>2, <2>4, <3>1 DEF WordInv
  <2> QED
    BY <1>1, <2>6, <2>7, <2>8, <2>9, ReasonStep
<1>5. CASE ~(row[o].state = "running" /\ project.rev = plan[o].rev)
  <2>1. EndTask(o) /\ UNCHANGED <<row, project, committed>>
    BY <1>5 DEF Commit
  <2>2. Onward(o, "idle")
    BY <2>1 DEF Onward
  <2>3. row[o].cancel \/ project.rev # plan[o].rev
    BY <1>2, <1>3, <1>5 DEF WordInv
  <2>4. row' = [row EXCEPT ![o].state = row'[o].state]
    BY <2>1 DEF RInv, IInv, TypeOK
  <2> QED
    BY <1>1, <1>3, <2>1, <2>2, <2>3, <2>4, LeavesReasons
<1> QED
  BY <1>4, <1>5

LEMMA CleanupReasons == ASSUME RInv, IInv', NEW o \in Ops, Cleanup(o) PROVE RInv'
<1>1. /\ pc[o] = "cleanup" /\ Onward(o, "cleaned") /\ job' = [job EXCEPT ![o] = NoJob]
      /\ UNCHANGED <<profile, row, plan, project, committed, disk, files>>
      /\ UNCHANGED <<editor, guest, launches, upgraded, late, daemon, mishaps>>
  BY DEF Cleanup, At, SetJob, store, outside
<1>2. PlaceInv(o) /\ WordInv(o) /\ ReadyInv(o) /\ JobInv(o)
  BY DEF RInv, ReasonInv, IInv, OpInv
<1>3. row[o].phase = "state_committed" /\ committed[o]
  BY <1>1, <1>2 DEF PlaceInv, JobInv
<1>4. "cleaned" \in PCs /\ "cleaned" # "idle"
  BY DEF PCs
<1>5. /\ pc'[o] = "cleaned" /\ todo' = todo
      /\ \A a \in Ops \ {o} : pc'[a] = pc[a] /\ (lock = a => lock' = a)
  BY <1>1, <1>4, OnwardIs, OnwardTodo DEF RInv
<1>6. /\ job'[o] = NoJob /\ \A a \in Ops \ {o} : job'[a] = job[a]
      /\ NoJob.staged = {} /\ ~NoJob.torn
  BY <1>1 DEF RInv, IInv, TypeOK, NoJob
<1>7. Elsewhere(o)
  BY <1>1, <1>3, <1>5, <1>6 DEF Elsewhere, OnlyItsOwn, Altered
<1>8. PrepInv(o)'
  BY <1>1, <1>3, <1>5 DEF PrepInv, Own
<1>9. ReadyInv(o)'
  BY <1>1, <1>2, <1>3, <1>5, <1>6 DEF ReadyInv, Opening, Quiet, Launched
<1>10. WordInv(o)'
  BY <1>1, <1>2, <1>3, <1>5 DEF WordInv
<1> QED
  BY <1>1, <1>7, <1>8, <1>9, <1>10, ReasonStep

LEMMA WorkerReasons == ASSUME RInv, IInv', NEW o \in Ops, WorkerStep(o) PROVE RInv'
<1>1. ASSUME Look(o, "look0", "check") PROVE RInv'
  <2>1. \E where \in {"check", "cancelled"} : Move(o, "look0", where) /\ UNCHANGED mishaps
    BY <1>1 DEF Look
  <2> QED
    BY <2>1, LookReasons
<1>2. ASSUME Look(o, "look1", "materialize") PROVE RInv'
  <2>1. \E where \in {"materialize", "cancelled"} : Move(o, "look1", where) /\ UNCHANGED mishaps
    BY <1>2 DEF Look
  <2> QED
    BY <2>1, LookReasons
<1>3. CASE \/ Begin(o) \/ Acquire(o) \/ Check(o) \/ Materialize(o) \/ PutAside(o) \/ PutIn(o)
           \/ Skip(o) \/ WriteMark(o) \/ Complete(o) \/ Misfit(o) \/ Look2(o) \/ Spawn(o)
           \/ Wait(o) \/ Observe(o) \/ TimeOut(o) \/ Resume(o) \/ Commit(o) \/ Cleanup(o)
  BY <1>3, BeginReasons, AcquireReasons, CheckReasons, MaterializeReasons, PutAsideReasons,
     PutInReasons, SkipReasons, WriteMarkReasons, CompleteReasons, MisfitReasons, Look2Reasons,
     SpawnReasons, WaitReasons, ObserveReasons, TimeOutReasons, ResumeReasons, CommitReasons,
     CleanupReasons
<1>4. CASE \/ Checkpoint(o, "preflighted", "preflight_complete", "look1")
           \/ Checkpoint(o, "intent", "preparation_intent", "prepare")
           \/ Checkpoint(o, "prepared", "preparation_complete", "look2")
           \/ Checkpoint(o, "launchIntent", "launch_intent", "spawn")
           \/ Checkpoint(o, "started", "unity_started", "wait")
           \/ Checkpoint(o, "exited", "unity_exited", "observe")
           \/ Checkpoint(o, "noLaunch", "launch_intent", "observe")
           \/ Checkpoint(o, "ready", "project_reobserved", "commit")
           \/ Checkpoint(o, "unchanged", row[o].phase, "failSafe")
           \/ Checkpoint(o, "cleaned", "cleanup_complete", "finish")
           \/ Checkpoint(o, "recover", "recovery_required", "idle")
  BY <1>4, CheckpointReasons DEF Recorded
<1>5. CASE \/ End(o, "failEarly", MayFail(o), "failed")
           \/ End(o, "failSafe", MayFail(o), "failed")
           \/ End(o, "cancelled", MayCancel(o), "cancelled")
           \/ End(o, "finish", MaySucceed(o), "succeeded")
  BY <1>5, EndReasons
<1> QED
  BY <1>1, <1>2, <1>3, <1>4, <1>5 DEF WorkerStep

-----------------------------------------------------------------------------
(* Requests, other programs and the daemon process, and the reasons *)

LEMMA FilesStay ==
    ASSUME RInv, IInv', files' = files, profile' = profile,
           \A c \in Causes : mishaps[c] > 0 => mishaps'[c] > 0,
           \A o \in Ops : job'[o].mark = job[o].mark /\ committed'[o] = committed[o],
           mishaps'.crash = 0 => \A o \in Ops : pc[o] = "prepare" => pc'[o] = "prepare"
    PROVE  FilesInv'
<1>1. Quiet' => Quiet /\ (mishaps'.crash = 0 => mishaps.crash = 0)
  BY QuietBefore DEF RInv, IInv
<1>2. (Original' <=> Original) /\ (Renewed' <=> Renewed)
  BY DEF Original, Renewed
<1>3. FilesInv
  BY DEF RInv, ReasonInv
<1>4. \A t \in Things : Kind[t] = "legacy" => files'[t] \in {"old", "none"}
  BY <1>3 DEF FilesInv
<1>5. (profile' => \A o \in Ops : job'[o].mark = 0 /\ ~committed'[o]) => Original'
  BY <1>2, <1>3 DEF FilesInv
<1>6. Quiet' /\ mishaps'.crash = 0 /\ (\A o \in Ops : pc'[o] # "prepare") => Original' \/ Renewed'
  <2>1. ASSUME Quiet', mishaps'.crash = 0, \A o \in Ops : pc'[o] # "prepare"
        PROVE  Quiet /\ mishaps.crash = 0 /\ \A o \in Ops : pc[o] # "prepare"
    BY <1>1, <2>1
  <2> QED
    BY <1>2, <1>3, <2>1 DEF FilesInv
<1> QED
  BY <1>4, <1>5, <1>6 DEF FilesInv

\* A step that says nothing to any worker.
LEMMA AllUndisturbed ==
    ASSUME RInv, IInv', \A a \in Ops : Undisturbed(a) /\ row'[a] = row[a], files' = files,
           disk' = disk \/ mishaps'.outside > 0,
           profile' = profile, \A c \in Causes : mishaps[c] > 0 => mishaps'[c] > 0,
           \/ project'.rev \in {project.rev, 0}
           \/ project.rev # 0 /\ project'.rev = project.rev + 1,
           DiskInv'
    PROVE  RInv'
<1>1. ASSUME NEW a \in Ops PROVE PrepInv(a)' /\ ReadyInv(a)' /\ WordInv(a)'
  BY UndisturbedPrep, UndisturbedWord
<1>2. \A a \in Ops : /\ job'[a].mark = job[a].mark /\ committed'[a] = committed[a]
                     /\ pc'[a] = pc[a]
  BY DEF Undisturbed
<1>3. FilesInv'
  BY <1>2, FilesStay
<1> QED
  BY <1>1, <1>3 DEF RInv, ReasonInv

LEMMA StutterReasons == ASSUME RInv, IInv', UNCHANGED vars PROVE RInv'
<1>1. /\ UNCHANGED <<profile, row, plan, project, committed, disk, files, job, mishaps>>
      /\ UNCHANGED <<editor, guest, launches, upgraded, late, daemon, pc, todo, lock>>
  BY DEF vars, store, tree, outside, process
<1>2. DiskInv'
  BY <1>1 DEF RInv, ReasonInv, DiskInv
<1>3. \A p \in Ops : Traced(p) => Traced(p)'
  BY <1>1 DEF Traced, Altered
<1>4. \A a \in Ops : Undisturbed(a)
  BY <1>1, <1>3 DEF Undisturbed
<1> QED
  BY <1>1, <1>2, <1>4, AllUndisturbed

LEMMA TouchReasons == ASSUME RInv, IInv', Touch PROVE RInv'
<1>1. /\ Mishap("touch") /\ "touch" \in Causes /\ "crash" \in Causes /\ "outside" \in Causes
      /\ UNCHANGED <<profile, row, plan, committed, disk, files, job>>
      /\ UNCHANGED <<editor, guest, launches, upgraded, late, daemon, pc, todo, lock>>
  BY DEF Touch, tree, outside, process, Causes
<1>2. /\ mishaps'["crash"] = mishaps["crash"] /\ mishaps'["outside"] = mishaps["outside"]
      /\ \A c \in Causes : mishaps[c] > 0 => mishaps'[c] > 0
  BY <1>1, MishapIs DEF RInv, IInv
<1>3. DiskInv'
  BY <1>1, <1>2 DEF RInv, ReasonInv, DiskInv
<1>4. \A p \in Ops : Traced(p) => Traced(p)'
  BY <1>1 DEF Traced, Altered
<1>5. \A a \in Ops : Undisturbed(a)
  BY <1>1, <1>2, <1>4 DEF Undisturbed
<1>6. \/ project'.rev \in {project.rev, 0}
      \/ project.rev # 0 /\ project'.rev = project.rev + 1
  BY DEF Touch, RInv, IInv, TypeOK
<1> QED
  BY <1>1, <1>2, <1>3, <1>5, <1>6, AllUndisturbed

LEMMA InterfereReasons == ASSUME RInv, IInv', Interfere PROVE RInv'
<1>1. /\ Mishap("outside") /\ "outside" \in Causes /\ "crash" \in Causes
      /\ UNCHANGED <<profile, row, plan, project, committed, files, job>>
      /\ UNCHANGED <<editor, launches, upgraded, late, daemon, pc, todo, lock>>
  BY DEF Interfere, store, process, Causes
<1>2. /\ mishaps'["crash"] = mishaps["crash"] /\ mishaps'["outside"] > 0
      /\ \A c \in Causes : mishaps[c] > 0 => mishaps'[c] > 0
  BY <1>1, MishapIs DEF RInv, IInv
<1>3. DiskInv'
  <2>1. mishaps'.outside # 0
    BY <1>2, MishapNat DEF IInv, TypeOK, Causes
  <2> QED
    BY <2>1 DEF DiskInv
<1>4. \A p \in Ops : Traced(p) => Traced(p)'
  BY <1>1 DEF Traced, Altered
<1>5. \A a \in Ops : Undisturbed(a)
  BY <1>1, <1>2, <1>4 DEF Undisturbed
<1> QED
  BY <1>1, <1>2, <1>3, <1>5, AllUndisturbed

LEMMA GuestLeavesReasons == ASSUME RInv, IInv', GuestLeaves PROVE RInv'
<1>1. /\ ~guest'
      /\ UNCHANGED <<profile, row, plan, project, committed, disk, files, job, mishaps>>
      /\ UNCHANGED <<editor, launches, upgraded, late, daemon, pc, todo, lock>>
  BY DEF GuestLeaves, store, tree, process
<1>2. DiskInv'
  BY <1>1 DEF RInv, ReasonInv, DiskInv
<1>3. \A p \in Ops : Traced(p) => Traced(p)'
  BY <1>1 DEF Traced, Altered
<1>4. \A a \in Ops : Undisturbed(a)
  BY <1>1, <1>3 DEF Undisturbed
<1> QED
  BY <1>1, <1>2, <1>4, AllUndisturbed

LEMMA EditorExitsReasons == ASSUME RInv, IInv', NEW o \in Ops, EditorExits(o) PROVE RInv'
<1>1. /\ editor' = [editor EXCEPT ![o] = "exited"]
      /\ UNCHANGED <<profile, row, plan, project, committed, disk, files, job, mishaps>>
      /\ UNCHANGED <<guest, launches, upgraded, late, daemon, pc, todo, lock>>
  BY DEF EditorExits, store, tree, process
<1>2. DiskInv'
  BY <1>1 DEF RInv, ReasonInv, DiskInv
<1>3. \A p \in Ops : (Traced(p) => Traced(p)') /\ editor'[p] \in {editor[p], "exited"}
  BY <1>1 DEF Traced, Altered, RInv, IInv, TypeOK
<1>4. \A a \in Ops : Undisturbed(a)
  BY <1>1, <1>3 DEF Undisturbed
<1> QED
  BY <1>1, <1>2, <1>4, AllUndisturbed

\* While an editor that the daemon started is there, no preparation is its own.
LEMMA UpgradeReasons == ASSUME RInv, IInv', NEW o \in Ops, Upgrade(o) PROVE RInv'
<1>1. /\ editor[o] = "running" /\ disk' = "target"
      /\ upgraded' = [upgraded EXCEPT ![o] = TRUE]
      /\ UNCHANGED <<profile, row, plan, project, committed, files, job, mishaps>>
      /\ UNCHANGED <<editor, guest, launches, late, daemon, pc, todo, lock>>
  BY DEF Upgrade, store, process
<1>2. launches[o] = 1 /\ row[o].phase # "preparation_intent" /\ o \in Editors
  BY <1>1 DEF RInv, IInv, OpInv, LaunchInv, Prepared, Editors
<1>3. upgraded'[o] /\ \A a \in Ops \ {o} : upgraded'[a] = upgraded[a]
  BY <1>1 DEF RInv, IInv, TypeOK
<1>4. DiskInv'
  BY <1>1, <1>3 DEF RInv, ReasonInv, DiskInv
<1>5. \A p \in Ops : Traced(p) => Traced(p)'
  BY <1>1 DEF Traced, Altered
<1>6. \A a \in Ops : Undisturbed(a)
  BY <1>1, <1>2, <1>3, <1>5 DEF Undisturbed
<1>7. ASSUME NEW a \in Ops, Quiet, mishaps.crash = 0 PROVE pc[a] \notin Opening
  BY <1>2, <1>7 DEF Quiet, RInv, IInv, WorldInv, CalmInv
<1>8. ASSUME NEW a \in Ops PROVE ~Own(a)
  <2> SUFFICES ASSUME Own(a) PROVE FALSE
    OBVIOUS
  <2>1. mishaps.crash # 0
    BY <1>7 DEF Own, Opening
  <2>2. ~Overtaken(a)
    BY <2>1 DEF Own
  <2>3. a = o
    BY <1>2, <2>2 DEF Overtaken
  <2>4. row[o].phase = "preparation_intent" \/ pc[o] \in {"intent", "prepare", "prepared"}
    BY <2>3 DEF Own
  <2>5. row[o].phase \in Early \cup Prepared
    BY <2>4 DEF RInv, IInv, OpInv, PlaceInv, Early, Prepared
  <2> QED
    BY <1>2, <2>5 DEF RInv, IInv, OpInv, LaunchInv
<1>9. ASSUME NEW a \in Ops PROVE PrepInv(a)' /\ ReadyInv(a)' /\ WordInv(a)'
  <2>1. ~Own(a)'
    <3>1. Overtaken(a)' <=> Overtaken(a)
      BY <1>1 DEF Overtaken
    <3> QED
      BY <1>1, <1>8, <3>1 DEF Own, Quiet
  <2>2. ReadyInv(a)'
    <3>1. ReadyInv(a)
      BY DEF RInv, ReasonInv
    <3>2. Quiet' <=> Quiet
      BY <1>1 DEF Quiet
    <3>3. Pending(job[a])' = Pending(job[a])
      BY <1>1 DEF Pending
    <3> QED
      BY <1>1, <1>7, <3>1, <3>2, <3>3 DEF ReadyInv
  <2>3. WordInv(a)'
    BY <1>1, <1>6, UndisturbedWord
  <2> QED
    BY <2>1, <2>2, <2>3 DEF PrepInv
<1>10. FilesInv'
  BY <1>1, FilesStay
<1> QED
  BY <1>4, <1>9, <1>10 DEF RInv, ReasonInv

LEMMA PlanReasons == ASSUME RInv, IInv', NEW o \in Ops, Plan(o) PROVE RInv'
<1>1. /\ plan[o].rev = 0
      /\ plan' = [plan EXCEPT ![o] = [rev |-> project.rev, marker |-> disk]]
      /\ UNCHANGED <<profile, row, project, committed, disk, files, job, mishaps>>
      /\ UNCHANGED <<editor, guest, launches, upgraded, late, daemon, pc, todo, lock>>
  BY DEF Plan, tree, outside, process
<1>2. /\ plan'[o] = [rev |-> project.rev, marker |-> disk]
      /\ \A a \in Ops \ {o} : plan'[a] = plan[a]
  BY <1>1 DEF RInv, IInv, TypeOK
<1>3. DiskInv'
  BY <1>1, <1>2 DEF RInv, ReasonInv, DiskInv
<1>4. FilesInv'
  BY <1>1, FilesStay
<1>5. ASSUME NEW a \in Ops \ {o} PROVE PrepInv(a)' /\ ReadyInv(a)' /\ WordInv(a)'
  <2>1. Undisturbed(a)
    BY <1>1, <1>2 DEF Undisturbed, Traced, Altered
  <2> QED
    BY <1>1, <2>1, UndisturbedPrep, UndisturbedWord
<1>6. ReadyInv(o) /\ WordInv(o) /\ RowInv(o)
  BY DEF RInv, ReasonInv, IInv, OpInv
<1>7. row[o].state = "absent" /\ pc[o] = "idle" /\ row[o].phase = "accepted"
  BY <1>1, <1>6 DEF WordInv, RowInv
<1>8. PrepInv(o)'
  BY <1>1, <1>7 DEF PrepInv, Own
<1>9. ReadyInv(o)'
  BY <1>1, <1>6, <1>7 DEF ReadyInv, Opening, Launched, Quiet
<1>10. WordInv(o)'
  <2>1. plan'[o].rev <= project'.rev
    BY <1>1, <1>2 DEF RInv, IInv, TypeOK
  <2> QED
    BY <1>1, <1>6, <1>7, <2>1 DEF WordInv, Live
<1> QED
  BY <1>3, <1>4, <1>5, <1>8, <1>9, <1>10 DEF RInv, ReasonInv

LEMMA ApplyReasons == ASSUME RInv, IInv', NEW o \in Ops, Apply(o) PROVE RInv'
<1>1. /\ row[o].state = "absent" /\ plan[o].rev # 0
      /\ row' = [row EXCEPT ![o].state = "queued"] /\ pc' = [pc EXCEPT ![o] = "begin"]
      /\ UNCHANGED <<profile, plan, project, committed, disk, files, job>>
      /\ UNCHANGED <<editor, guest, launches, upgraded, late, daemon, todo, lock>>
  BY DEF Apply, SetState, Goto, tree, outside
<1>2. /\ \A c \in Causes : mishaps[c] > 0 => mishaps'[c] > 0
      /\ mishaps'.outside = mishaps.outside /\ mishaps'.crash = mishaps.crash
  BY SeesIs DEF Apply, RInv
<1>3. /\ row[o] \in Row /\ row'[o].state = "queued" /\ row'[o].phase = row[o].phase
      /\ pc'[o] = "begin"
      /\ \A a \in Ops \ {o} : row'[a] = row[a] /\ pc'[a] = pc[a]
  BY <1>1 DEF RInv, IInv, TypeOK, Row
<1>4. DiskInv'
  BY <1>1, <1>2 DEF RInv, ReasonInv, DiskInv
<1>5. ReadyInv(o) /\ WordInv(o) /\ RowInv(o)
  BY DEF RInv, ReasonInv, IInv, OpInv
<1>6. pc[o] = "idle" /\ row[o].phase = "accepted"
  BY <1>1, <1>5 DEF RowInv
<1>7. FilesInv'
  <2>1. \A a \in Ops : pc[a] = "prepare" => pc'[a] = "prepare"
    BY <1>3, <1>6
  <2> QED
    BY <1>1, <1>2, <2>1, FilesStay
<1>8. ASSUME NEW a \in Ops \ {o} PROVE PrepInv(a)' /\ ReadyInv(a)' /\ WordInv(a)'
  <2>1. Undisturbed(a)
    BY <1>1, <1>2, <1>3 DEF Undisturbed, Traced, Altered
  <2> QED
    BY <1>1, <1>3, <2>1, UndisturbedPrep, UndisturbedWord
<1>9. PrepInv(o)'
  BY <1>3, <1>6 DEF PrepInv, Own
<1>10. ReadyInv(o)'
  BY <1>1, <1>2, <1>3, <1>5, <1>6 DEF ReadyInv, Opening, Launched
<1>11. WordInv(o)'
  BY <1>1, <1>3, <1>5, <1>6 DEF WordInv
<1> QED
  BY <1>4, <1>7, <1>8, <1>9, <1>10, <1>11 DEF RInv, ReasonInv

LEMMA CancelReasons == ASSUME RInv, IInv', NEW o \in Ops, Cancel(o) PROVE RInv'
<1> DEFINE word == IF row[o].state = "queued" THEN "cancelled" ELSE "cancelling"
<1>1. /\ Live(o) /\ Mishap("cancel")
      /\ "cancel" \in Causes /\ "crash" \in Causes /\ "outside" \in Causes
      /\ row' = [row EXCEPT ![o].state = word, ![o].cancel = TRUE]
      /\ UNCHANGED <<profile, plan, project, committed, disk, files, job>>
      /\ UNCHANGED <<editor, guest, launches, upgraded, late, daemon, pc, todo, lock>>
  BY DEF Cancel, tree, outside, process, Causes
<1>2. /\ \A c \in Causes : mishaps[c] > 0 => mishaps'[c] > 0
      /\ mishaps'["crash"] = mishaps["crash"] /\ mishaps'["outside"] = mishaps["outside"]
  BY <1>1, MishapIs DEF RInv, IInv
<1>3. /\ row[o] \in Row /\ row'[o].cancel /\ row'[o].phase = row[o].phase
      /\ row'[o].safe = row[o].safe
      /\ \A a \in Ops \ {o} : row'[a] = row[a]
  <2> HIDE DEF word
  <2> QED
    BY <1>1 DEF RInv, IInv, TypeOK, Row
<1>4. DiskInv'
  BY <1>1, <1>2 DEF RInv, ReasonInv, DiskInv
<1>5. FilesInv'
  BY <1>1, <1>2, FilesStay
<1>6. \A p \in Ops : Traced(p) => Traced(p)'
  BY <1>1 DEF Traced, Altered
<1>7. ASSUME NEW a \in Ops PROVE Undisturbed(a)
  BY <1>1, <1>2, <1>3, <1>6 DEF Undisturbed
<1>8. ASSUME NEW a \in Ops PROVE PrepInv(a)' /\ ReadyInv(a)'
  BY <1>1, <1>7, UndisturbedPrep
<1>9. ASSUME NEW a \in Ops \ {o} PROVE WordInv(a)'
  BY <1>1, <1>3, <1>7, UndisturbedWord
<1>10. WordInv(o)'
  <2>1. WordInv(o) /\ row[o].state # "absent"
    BY <1>1 DEF RInv, ReasonInv, Live
  <2>2. Excused(o) => Excused(o)'
    BY <1>1, <1>2, <1>6, ExcuseStays
  <2> QED
    BY <1>1, <1>3, <2>1, <2>2 DEF WordInv
<1> QED
  BY <1>4, <1>5, <1>8, <1>9, <1>10 DEF RInv, ReasonInv

\* A death leaves a preparation as it stands.
LEMMA CrashReasons == ASSUME RInv, IInv', Crash PROVE RInv'
<1>1. /\ Mishap("crash") /\ "crash" \in Causes /\ "outside" \in Causes /\ daemon' = "down"
      /\ pc' = [o \in Ops |-> "idle"] /\ todo' = [o \in Ops |-> {}]
      /\ UNCHANGED <<profile, row, plan, project, committed, disk, files>>
      /\ UNCHANGED <<editor, guest, launches, upgraded, late>>
  BY DEF Crash, store, outside, Causes
<1>2. /\ mishaps'["crash"] > 0 /\ mishaps'["outside"] = mishaps["outside"]
      /\ \A c \in Causes : mishaps[c] > 0 => mishaps'[c] > 0
  BY <1>1, MishapIs DEF RInv, IInv
<1>3. mishaps'.crash # 0 /\ (Quiet' => Quiet)
  BY <1>2, QuietBefore, MishapNat DEF IInv, RInv, TypeOK, Causes
<1>4. ASSUME NEW o \in Ops
      PROVE  /\ job'[o].mark = job[o].mark /\ job'[o].muts = job[o].muts
             /\ job'[o].before = job[o].before /\ job'[o].staged = job[o].staged
             /\ job'[o].backup = job[o].backup
             /\ job[o].torn => job'[o].torn
             /\ job'[o].torn => job[o].torn \/ pc[o] = "prepare"
  <2>1. CASE UNCHANGED job
    BY <2>1
  <2>2. CASE ~UNCHANGED job
    <3>1. PICK p \in Ops : /\ pc[p] = "prepare"
                           /\ job' = [job EXCEPT ![p] = [job[p] EXCEPT !.torn = TRUE]]
      BY <2>2 DEF Crash, SetJob
    <3> DEFINE j == [job[p] EXCEPT !.torn = TRUE]
    <3>2. /\ j.mark = job[p].mark /\ j.muts = job[p].muts /\ j.before = job[p].before
          /\ j.staged = job[p].staged /\ j.backup = job[p].backup /\ j.torn
      <4>1. job[p] \in Jobs
        BY DEF RInv, IInv, TypeOK
      <4> QED
        BY <4>1 DEF Jobs
    <3> HIDE DEF j
    <3>3. job' = [job EXCEPT ![p] = j]
      BY <3>1 DEF j
    <3> QED
      BY <3>1, <3>2, <3>3 DEF RInv, IInv, TypeOK
  <2> QED
    BY <2>1, <2>2
<1>5. DiskInv'
  BY <1>1, <1>2 DEF RInv, ReasonInv, DiskInv
<1>6. FilesInv'
  BY <1>1, <1>2, <1>3, <1>4, FilesStay
<1>7. ASSUME NEW o \in Ops PROVE PrepInv(o)' /\ ReadyInv(o)' /\ WordInv(o)'
  <2>1. ReadyInv(o) /\ WordInv(o) /\ PrepInv(o) /\ PlaceInv(o)
    BY DEF RInv, ReasonInv, IInv, OpInv
  <2>2. pc'[o] = "idle" /\ todo'[o] = {}
    BY <1>1
  <2>3. Overtaken(o)' <=> Overtaken(o)
    BY <1>1, <1>4 DEF Overtaken
  <2>4. PrepInv(o)'
    <3> SUFFICES ASSUME Own(o)' PROVE /\ FoundInv(job[o])' /\ \A t \in job'[o].muts : ThingInv(o, t)'
                                      /\ disk' = plan'[o].marker
      BY DEF PrepInv
    <3>1. profile /\ Quiet /\ ~job[o].torn /\ ~Overtaken(o) /\ row[o].phase = "preparation_intent"
      BY <1>1, <1>3, <1>4, <2>2, <2>3 DEF Own
    <3>2. mishaps.crash = 0 => pc[o] \in {"prepare", "prepared"}
      BY <2>1, <3>1 DEF ReadyInv
    <3>3. Own(o)
      BY <3>1, <3>2, MishapNat DEF Own, RInv, IInv
    <3>4. /\ FoundInv(job[o]) /\ \A t \in job[o].muts : ThingInv(o, t)
          /\ disk = plan[o].marker
      BY <2>1, <3>3 DEF PrepInv
    <3>5. FoundInv(job[o])'
      BY <1>1, <1>4, <3>4 DEF FoundInv
    <3>6. ASSUME NEW t \in job[o].muts PROVE ThingInv(o, t)'
      <4> DEFINE j == job[o]
      <4>1. ThingInv(o, t) /\ pc'[o] = "idle" /\ files' = files
        BY <1>1, <2>2, <3>4, <3>6
      <4>2. /\ job'[o].mark = j.mark /\ job'[o].before = j.before
            /\ job'[o].staged = j.staged /\ job'[o].backup = j.backup
        BY <1>4
      <4>3. /\ Waiting(job[o], t)' <=> Waiting(job[o], t)
            /\ Away(job[o], t)' <=> Away(job[o], t)
            /\ Placed(job[o], t)' <=> Placed(job[o], t)
        BY <4>1, <4>2 DEF Waiting, Away, Placed
      <4> QED
        BY <4>1, <4>2, <4>3 DEF ThingInv
    <3> QED
      BY <1>1, <1>4, <3>4, <3>5, <3>6
  <2>5. ReadyInv(o)'
    <3>1. pc[o] = "prepare" => row[o].phase = "preparation_intent"
      BY <2>1 DEF PlaceInv
    <3> QED
      BY <1>1, <1>2, <1>3, <1>4, <2>1, <2>2, <3>1 DEF ReadyInv, Opening, Launched
  <2>6. WordInv(o)'
    <3>1. Excused(o) => Excused(o)'
      <4>1. CASE job'[o].torn
        BY <4>1 DEF Excused
      <4>2. CASE ~job'[o].torn
        <5>1. /\ mishaps.fault > 0 => mishaps'.fault > 0
              /\ mishaps.outside > 0 => mishaps'.outside > 0
              /\ mishaps.blind > 0 => mishaps'.blind > 0
              /\ mishaps'.crash > 0
          BY <1>2 DEF Causes
        <5>2. Unconverted(o) => Unconverted(o)'
          BY <1>1, <1>4, <5>1 DEF Unconverted
        <5>3. PublishedUnmarked(o) => PublishedUnmarked(o)'
          BY <1>4 DEF PublishedUnmarked
        <5>4. ~job[o].torn
          BY <1>4, <4>2
        <5> QED
          BY <1>1, <2>3, <5>1, <5>2, <5>3, <5>4, Zenon DEF Excused
      <4> QED
        BY <4>1, <4>2
    <3> QED
      BY <1>1, <2>1, <2>2, <3>1 DEF WordInv
  <2> QED
    BY <2>4, <2>5, <2>6
<1> QED
  BY <1>5, <1>6, <1>7 DEF RInv, ReasonInv

LEMMA StartReasons == ASSUME RInv, IInv', Start PROVE RInv'
<1>1. /\ daemon = "down" /\ daemon' = "up"
      /\ row' = [o \in Ops |-> IF row[o].state = "running"
                               THEN [row[o] EXCEPT !.state = "recovering"] ELSE row[o]]
      /\ pc' = [o \in Ops |-> IF Recovered(o) THEN "begin" ELSE "idle"]
      /\ UNCHANGED <<profile, plan, project, committed, disk, files, job>>
      /\ UNCHANGED <<editor, guest, launches, upgraded, late, todo, lock, mishaps>>
  BY DEF Start, tree, outside
<1>2. mishaps.crash > 0 /\ mishaps.crash # 0
  BY <1>1, MishapNat DEF RInv, IInv, WorldInv
<1>3. ASSUME NEW o \in Ops
      PROVE  /\ row'[o].phase = row[o].phase /\ row'[o].cancel = row[o].cancel
             /\ row'[o].safe = row[o].safe
             /\ \/ row'[o].state = row[o].state
                \/ row[o].state = "running" /\ row'[o].state = "recovering"
             /\ pc'[o] = IF Recovered(o) THEN "begin" ELSE "idle"
  <2>1. row[o] \in Row
    BY DEF RInv, IInv, TypeOK, Row
  <2> QED
    BY <1>1, <2>1 DEF Row
<1>4. DiskInv'
  BY <1>1 DEF RInv, ReasonInv, DiskInv
<1>5. FilesInv'
  BY <1>1, <1>2, FilesStay
<1>6. Quiet' <=> Quiet
  BY <1>1 DEF Quiet
<1>7. ASSUME NEW o \in Ops PROVE PrepInv(o)' /\ ReadyInv(o)' /\ WordInv(o)'
  <2>1. ReadyInv(o) /\ WordInv(o) /\ PrepInv(o)
    BY DEF RInv, ReasonInv
  <2>2. pc'[o] \in {"begin", "idle"}
    BY <1>3
  <2>3. Overtaken(o)' <=> Overtaken(o)
    BY <1>1 DEF Overtaken
  <2>4. PrepInv(o)'
    <3> SUFFICES ASSUME Own(o)' PROVE /\ FoundInv(job[o])' /\ \A t \in job'[o].muts : ThingInv(o, t)'
                                      /\ disk' = plan'[o].marker
      BY DEF PrepInv
    <3>1. Own(o)
      BY <1>1, <1>3, <1>6, <2>2, <2>3 DEF Own
    <3>2. /\ FoundInv(job[o]) /\ \A t \in job[o].muts : ThingInv(o, t)
          /\ disk = plan[o].marker
      BY <2>1, <3>1 DEF PrepInv
    <3>3. FoundInv(job[o])'
      BY <1>1, <3>2 DEF FoundInv
    <3>4. ASSUME NEW t \in job[o].muts PROVE ThingInv(o, t)'
      BY <1>1, <2>2, <3>2, <3>4 DEF ThingInv, Waiting, Away, Placed
    <3> QED
      BY <1>1, <3>2, <3>3, <3>4
  <2>5. ReadyInv(o)'
    BY <1>1, <1>2, <1>3, <2>1, <2>2 DEF ReadyInv, Opening
  <2>6. WordInv(o)'
    <3>1. Excused(o) => Excused(o)'
      <4>1. \A p \in Ops \ {o} : Traced(p) => Traced(p)'
        BY <1>1 DEF Traced, Altered
      <4> QED
        BY <1>1, <4>1, ExcuseStays
    <3>2. pc'[o] = "idle" /\ Live(o)' => row'[o].state = "cancelling"
      <4>1. row'[o].state \in States
        BY DEF IInv, TypeOK
      <4> QED
        BY <1>3, <4>1 DEF Live, Recovered, States, Terminal
    <3>3. row'[o].state = "cancelling" => row'[o].cancel
      BY <1>3, <2>1 DEF WordInv
    <3>4. row'[o].state # "absent" => row[o].state # "absent"
      BY <1>3
    <3> QED
      BY <1>1, <1>3, <2>1, <2>2, <3>1, <3>2, <3>3, <3>4 DEF WordInv
  <2> QED
    BY <2>4, <2>5, <2>6
<1> QED
  BY <1>4, <1>5, <1>7 DEF RInv, ReasonInv

LEMMA InitReasons == Init => RInv
<1> SUFFICES ASSUME Init PROVE RInv
  OBVIOUS
<1>1. IInv
  BY InitInv
<1>2. DiskInv
  BY DEF Init, DiskInv
<1>3. FilesInv
  BY NoJobIs DEF Init, FilesInv, Original
<1>4. ASSUME NEW o \in Ops PROVE PrepInv(o) /\ ReadyInv(o) /\ WordInv(o)
  <2>1. /\ row[o].state = "absent" /\ row[o].phase = "accepted" /\ pc[o] = "idle"
        /\ todo[o] = {} /\ job[o] = NoJob /\ plan[o].rev = 0 /\ ~committed[o]
        /\ project.rev = 1
    BY DEF Init
  <2>2. NoJob.staged = {} /\ ~NoJob.torn
    BY DEF NoJob
  <2>3. PrepInv(o)
    BY <2>1 DEF PrepInv, Own
  <2>4. ReadyInv(o)
    BY <2>1, <2>2 DEF ReadyInv, Opening, Launched
  <2>5. WordInv(o)
    BY <2>1 DEF WordInv, Live
  <2> QED
    BY <2>3, <2>4, <2>5
<1> QED
  BY <1>1, <1>2, <1>3, <1>4 DEF RInv, ReasonInv

LEMMA NextReasons == ASSUME RInv, [Next]_vars PROVE RInv'
<1>1. IInv'
  BY NextInv DEF RInv
<1>2. CASE UNCHANGED vars
  BY <1>1, <1>2, StutterReasons
<1>3. ASSUME NEW o \in Ops,
             \/ Plan(o) \/ Apply(o) \/ Cancel(o) \/ WorkerStep(o) \/ Fault(o)
             \/ Upgrade(o) \/ EditorExits(o)
      PROVE  RInv'
  BY <1>1, <1>3, PlanReasons, ApplyReasons, CancelReasons, WorkerReasons, FaultReasons,
     UpgradeReasons, EditorExitsReasons
<1>4. CASE Touch \/ Interfere \/ GuestLeaves \/ Crash \/ Start
  BY <1>1, <1>4, TouchReasons, InterfereReasons, GuestLeavesReasons, CrashReasons, StartReasons
<1> QED
  BY <1>2, <1>3, <1>4 DEF Next

\* A migration that nobody works on was cancelled, met an error of a store request or
\* a registry that had moved before its commit, or has recovery_required recorded for
\* a reason: an editor that stayed open, an observation or a marker that cannot be
\* trusted, a project that somebody else changed or that its editor did not convert.
THEOREM StuckHasAReason == Spec => []StuckForAReason
<1>1. RInv => StuckForAReason
  <2> SUFFICES ASSUME RInv, NEW o \in Ops, Stuck(o), ~row[o].cancel, ~(mishaps.fault > 0)
               PROVE  \/ row[o].phase = "project_reobserved" /\ project.rev # plan[o].rev
                      \/ /\ row[o].phase = "recovery_required"
                         /\ \/ late \/ mishaps.outside > 0 \/ mishaps.blind > 0
                            \/ job[o].torn \/ Unconverted(o)
                            \/ mishaps.crash > 0 /\ (PublishedUnmarked(o) \/ Overtaken(o))
    BY DEF StuckForAReason
  <2>1. mishaps.fault = 0
    BY MishapNat DEF RInv, IInv
  <2>2. WordInv(o)
    BY DEF RInv, ReasonInv
  <2>3. \/ row[o].phase = "recovery_required"
        \/ row[o].phase = "project_reobserved" /\ project.rev # plan[o].rev
    BY <2>1, <2>2 DEF WordInv, Stuck
  <2>4. row[o].phase = "recovery_required" => Excused(o)
    BY <2>2 DEF WordInv
  <2> QED
    BY <2>3, <2>4, Zenon DEF Excused
<1>2. Init => RInv
  BY InitReasons
<1>3. RInv /\ [Next]_vars => RInv'
  BY NextReasons
<1> QED
  BY <1>1, <1>2, <1>3, PTL DEF Spec

-----------------------------------------------------------------------------
(* The journal of a migration *)

\* The order in which a migration records its phases; after recovery_required there is none.
Place(p) ==
    CASE p = "accepted"             -> 1
      [] p = "preflight_complete"   -> 2
      [] p = "preparation_intent"   -> 3
      [] p = "preparation_complete" -> 4
      [] p = "launch_intent"        -> 5
      [] p = "unity_started"        -> 6
      [] p = "unity_exited"         -> 7
      [] p = "project_reobserved"   -> 8
      [] p = "state_committed"      -> 9
      [] p = "cleanup_complete"     -> 10
      [] p = "recovery_required"    -> 11

\* What a row may become, whoever writes it: an end is final, the phase never goes back, a
\* cancel and what was learnt of the editor are never withdrawn, and no row goes.
Forward(r, s) ==
    /\ r.state \in Terminal => s = r
    /\ Place(s.phase) >= Place(r.phase)
    /\ r.cancel => s.cancel
    /\ r.exited => s.exited
    /\ r.safe => s.safe
    /\ s.state = "absent" => r.state = "absent"

\* In every step, of a worker, a client or a start after a death.
JournalGoesForward == [][\A o \in Ops : Forward(row[o], row'[o])]_vars

\* A migration's row goes forward in a step that writes no other one.
Writes(o) == /\ \A a \in Ops \ {o} : row'[a] = row[a]
             /\ Forward(row[o], row'[o])

LEMMA PlaceNat == \A p \in Phases : Place(p) \in Nat
BY DEF Phases, Early, Prepared, Launched, Place

LEMMA SameIsForward == ASSUME TypeOK, NEW o \in Ops PROVE Forward(row[o], row[o])
<1>1. row[o].phase \in Phases
  BY DEF TypeOK
<1>2. Place(row[o].phase) \in Nat
  BY <1>1, PlaceNat
<1> QED
  BY <1>2 DEF Forward

LEMMA StateWrites ==
    ASSUME TypeOK, NEW o \in Ops, NEW s \in States \ {"absent"}, row[o].state \notin Terminal,
           \/ SetState(o, s)
           \/ row' = [row EXCEPT ![o].state = s, ![o].cancel = TRUE]
    PROVE  Writes(o)
<1>1. row \in [Ops -> Row]
  BY DEF TypeOK, Row
<1>2. Place(row[o].phase) \in Nat
  BY <1>1, PlaceNat DEF Row
<1>3. /\ row'[o].state = s /\ row'[o].phase = row[o].phase
      /\ row[o].cancel => row'[o].cancel
      /\ row'[o].exited = row[o].exited /\ row'[o].safe = row[o].safe
      /\ \A a \in Ops \ {o} : row'[a] = row[a]
  BY <1>1 DEF SetState, Row
<1> QED
  BY <1>2, <1>3 DEF Writes, Forward

\* Where each checkpoint stands in the order.
LEMMA LaterIs ==
    ASSUME IInv, NEW o \in Ops, NEW here, NEW phase, NEW there,
           <<here, phase, there>> \in Recorded(o), pc[o] = here
    PROVE  Place(phase) >= Place(row[o].phase)
<1>1. row[o].phase \in Phases
  BY DEF IInv, TypeOK
<1>2. PlaceInv(o)
  BY DEF IInv, OpInv
<1>3. CASE here \in {"preflighted", "intent", "prepared", "launchIntent", "started", "exited",
                     "noLaunch", "cleaned"}
  BY <1>2, <1>3 DEF Recorded, PlaceInv, Place
<1>4. CASE here = "ready"
  <2>1. phase = "project_reobserved" /\ row[o].phase \in Launched
    BY <1>2, <1>4 DEF Recorded, PlaceInv
  <2> QED
    BY <2>1 DEF Launched, Place
<1>5. CASE here = "unchanged"
  <2>1. phase = row[o].phase
    BY <1>5 DEF Recorded
  <2> QED
    BY <1>1, <2>1, PlaceNat
<1>6. CASE here = "recover"
  <2>1. phase = "recovery_required"
    BY <1>6 DEF Recorded
  <2> QED
    BY <1>1, <2>1 DEF Phases, Early, Prepared, Launched, Place
<1> QED
  BY <1>3, <1>4, <1>5, <1>6 DEF Recorded

LEMMA CheckpointWrites ==
    ASSUME IInv, NEW o \in Ops, NEW here, NEW phase, NEW there,
           <<here, phase, there>> \in Recorded(o), Checkpoint(o, here, phase, there)
    PROVE  Writes(o)
<1>1. /\ pc[o] = here
      /\ \A a \in Ops \ {o} : row'[a] = row[a]
      /\ row[o].state \in {"running", "cancelling"} /\ row'[o].state = row[o].state
      /\ row'[o].phase = phase /\ row'[o].cancel = row[o].cancel
      /\ row[o].exited => row'[o].exited
      /\ row[o].safe => row'[o].safe
  BY CheckpointIs
<1>2. Place(phase) >= Place(row[o].phase)
  BY <1>1, LaterIs
<1> QED
  BY <1>1, <1>2 DEF Writes, Forward, Terminal

\* commit_project is the one checkpoint that is recorded with something else.
LEMMA CommitWrites == ASSUME IInv, NEW o \in Ops, Commit(o) PROVE UNCHANGED row \/ Writes(o)
<1>1. SUFFICES ASSUME row[o].state = "running", row[o].phase = "project_reobserved",
                      row' = [row EXCEPT ![o].phase = "state_committed"]
               PROVE  Writes(o)
  BY DEF Commit
<1>2. row \in [Ops -> Row]
  BY DEF IInv, TypeOK, Row
<1>3. /\ row'[o].state = "running" /\ row'[o].phase = "state_committed"
      /\ row'[o].cancel = row[o].cancel /\ row'[o].exited = row[o].exited
      /\ row'[o].safe = row[o].safe
      /\ \A a \in Ops \ {o} : row'[a] = row[a]
  BY <1>1, <1>2 DEF Row
<1> QED
  BY <1>1, <1>3 DEF Writes, Forward, Place, Terminal

LEMMA WorkerWrites ==
    ASSUME IInv, NEW o \in Ops, WorkerStep(o)
    PROVE  UNCHANGED row \/ Writes(o)
<1>1. {"running", "failed", "cancelled", "succeeded"} \subseteq States \ {"absent"}
  BY DEF States, Terminal
<1>2. CASE Begin(o)
  <2>1. \/ UNCHANGED row
        \/ row[o].state \notin Terminal /\ SetState(o, "running")
    BY <1>2 DEF Begin, Terminal
  <2> QED
    BY <1>1, <2>1, StateWrites DEF IInv
<1>3. CASE \/ Acquire(o) \/ Look(o, "look0", "check") \/ Check(o)
           \/ Look(o, "look1", "materialize") \/ Materialize(o) \/ Look2(o)
  BY <1>3 DEF Acquire, Look, Check, Materialize, Look2, Move, store
<1>4. CASE \/ PutAside(o) \/ PutIn(o) \/ Skip(o) \/ WriteMark(o) \/ Complete(o) \/ Misfit(o)
  BY <1>4 DEF PutAside, PutIn, Skip, WriteMark, Complete, Misfit, Preparing, Move, store
<1>5. CASE Spawn(o) \/ Wait(o) \/ Observe(o) \/ TimeOut(o) \/ Resume(o) \/ Cleanup(o)
  BY <1>5 DEF Spawn, Wait, Observe, TimeOut, Resume, Cleanup, Move, store
<1>6. ASSUME NEW here, NEW phase, NEW there, <<here, phase, there>> \in Recorded(o),
             Checkpoint(o, here, phase, there)
      PROVE  Writes(o)
  BY <1>6, CheckpointWrites
<1>7. CASE \/ Checkpoint(o, "preflighted", "preflight_complete", "look1")
           \/ Checkpoint(o, "intent", "preparation_intent", "prepare")
           \/ Checkpoint(o, "prepared", "preparation_complete", "look2")
           \/ Checkpoint(o, "launchIntent", "launch_intent", "spawn")
           \/ Checkpoint(o, "started", "unity_started", "wait")
           \/ Checkpoint(o, "exited", "unity_exited", "observe")
           \/ Checkpoint(o, "noLaunch", "launch_intent", "observe")
           \/ Checkpoint(o, "ready", "project_reobserved", "commit")
           \/ Checkpoint(o, "unchanged", row[o].phase, "failSafe")
           \/ Checkpoint(o, "cleaned", "cleanup_complete", "finish")
           \/ Checkpoint(o, "recover", "recovery_required", "idle")
  BY <1>6, <1>7 DEF Recorded
<1>8. CASE Commit(o)
  BY <1>8, CommitWrites
<1>9. ASSUME NEW here, NEW allowed, NEW s \in {"failed", "cancelled", "succeeded"},
             End(o, here, allowed, s)
      PROVE  UNCHANGED row \/ Writes(o)
  <2>1. UNCHANGED row \/ (row[o].state \notin Terminal /\ SetState(o, s))
    BY <1>9 DEF End, Terminal
  <2> QED
    BY <1>1, <1>9, <2>1, StateWrites DEF IInv
<1>10. CASE \/ End(o, "failEarly", MayFail(o), "failed") \/ End(o, "failSafe", MayFail(o), "failed")
            \/ End(o, "cancelled", MayCancel(o), "cancelled")
            \/ End(o, "finish", MaySucceed(o), "succeeded")
  BY <1>9, <1>10
<1> QED
  BY <1>2, <1>3, <1>4, <1>5, <1>7, <1>8, <1>10 DEF WorkerStep

\* begin_operation, record_unity_migration_checkpoint, commit_project, cancel_operation and
\* recover: a migration that ended is never opened again; no restart takes its journal back,
\* so that past the launch intent none leads to another launch and past recovery_required
\* none leads anywhere; and the exit of the editor and a cancel, once recorded, stay so.
THEOREM JournalForward == Spec => JournalGoesForward
<1>1. ASSUME IInv, [Next]_vars, NEW a \in Ops PROVE Forward(row[a], row'[a])
  <2>1. CASE UNCHANGED row
    BY <1>1, <2>1, SameIsForward DEF IInv
  <2>2. ASSUME NEW o \in Ops, Writes(o) PROVE Forward(row[a], row'[a])
    BY <1>1, <2>2, SameIsForward DEF IInv, Writes
  <2>3. CASE \E o \in Ops : WorkerStep(o)
    BY <1>1, <2>1, <2>2, <2>3, WorkerWrites
  <2>4. CASE \E o \in Ops : Apply(o)
    <3>1. PICK o \in Ops : row[o].state \notin Terminal /\ SetState(o, "queued")
      BY <2>4 DEF Apply, Terminal
    <3>2. "queued" \in States \ {"absent"}
      BY DEF States, Terminal
    <3>3. Writes(o)
      BY <1>1, <3>1, <3>2, StateWrites DEF IInv
    <3> QED
      BY <2>2, <3>3
  <2>5. CASE \E o \in Ops : Cancel(o)
    <3>1. PICK o \in Ops : Cancel(o)
      BY <2>5
    <3>2. PICK s \in {"cancelled", "cancelling"} :
              /\ row[o].state \notin Terminal
              /\ row' = [row EXCEPT ![o].state = s, ![o].cancel = TRUE]
      BY <3>1 DEF Cancel, Live
    <3>3. s \in States \ {"absent"}
      BY DEF States, Terminal
    <3>4. Writes(o)
      BY <1>1, <3>2, <3>3, StateWrites DEF IInv
    <3> QED
      BY <2>2, <3>4
  <2>6. CASE Start
    <3>1. row'[a] = IF row[a].state = "running"
                    THEN [row[a] EXCEPT !.state = "recovering"] ELSE row[a]
      BY <2>6 DEF Start
    <3>2. row[a] \in Row /\ Place(row[a].phase) \in Nat
      BY <1>1, PlaceNat DEF IInv, TypeOK, Row
    <3>3. row[a].state = "running" => Forward(row[a], [row[a] EXCEPT !.state = "recovering"])
      BY <3>2 DEF Terminal, Forward, Row
    <3> QED
      BY <1>1, <3>1, <3>3, SameIsForward DEF IInv
  <2>7. (\E o \in Ops : Plan(o) \/ Fault(o) \/ Upgrade(o) \/ EditorExits(o)) => UNCHANGED row
    BY DEF Plan, Fault, Upgrade, EditorExits, store
  <2>8. Touch \/ Interfere \/ GuestLeaves \/ Crash \/ UNCHANGED vars => UNCHANGED row
    BY DEF Touch, Interfere, GuestLeaves, Crash, store, vars
  <2> QED
    BY <1>1, <2>1, <2>3, <2>4, <2>5, <2>6, <2>7, <2>8 DEF Next
<1>2. ASSUME IInv, [Next]_vars PROVE [\A o \in Ops : Forward(row[o], row'[o])]_vars
  BY <1>1, <1>2
<1> QED
  BY <1>2, Invariance, PTL DEF Spec, JournalGoesForward
=============================================================================
