--------------------------- MODULE BackupCreateProofs ---------------------------
(***************************************************************************)
(* Theorems about BackupCreate for every set of backups and any number of  *)
(* saves, cancels, deaths, failing steps and other mishaps.                *)
(*                                                                         *)
(* The inductive invariant IInv says, per place of a worker, which phases  *)
(* its journal can have; an archive exists only from the intent on, and a  *)
(* partial archive that a run has not written itself is left by a death.   *)
(* That an archive is the project at one moment is an argument about two   *)
(* readings: versions only grow, so a file that has the same version in    *)
(* both inventories had it in between, when the other file was read.       *)
(* The last part proves that journals only go forward, whoever resumes.    *)
(***************************************************************************)
EXTENDS BackupCreate, TLAPS

\* Phases before the archive is written whole, and from the intent on.
Early  == {"accepted", "inventory_ready", "archiving"}
Closed == {"publish_intent", "archive_published", "state_committed"}

\* Places where the archive is being written, and places before that.
Writing == {"open", "write1", "write2", "again1", "again2", "written", "broken"}
Before  == {"begin", "look", "lock", "check", "list1", "list2", "listed", "lookListed",
            "archiving", "open", "cancelled"}

\* The phases a journal can have where the worker stands.
PlaceInv(o) ==
    /\ pc[o] \in {"list1", "list2", "listed"} => row[o].phase \in Early
    /\ pc[o] \in {"lookListed", "archiving"} => row[o].phase \in {"inventory_ready", "archiving"}
    /\ pc[o] \in Writing => row[o].phase = "archiving"
    /\ pc[o] \in {"lookReady", "intent"} => row[o].phase = "archive_ready"
    /\ pc[o] \in {"publish", "sync", "published", "complete"} => row[o].phase \in Closed
    /\ pc[o] \in {"drop", "cancelled"} => row[o].phase \notin Closed

\* What the row of an Operation says about its worker.
RowInv(o) ==
    /\ row[o].state \in {"absent", "succeeded", "failed", "interrupted"} => pc[o] = "idle"
    /\ row[o].state \in {"absent", "queued"} => row[o].phase = "accepted"
    /\ row[o].state = "queued" => pc[o] \in {"begin", "fail", "idle"}
    /\ pc[o] = "begin" => row[o].state \in {"queued", "recovering", "cancelling", "cancelled"}
    /\ row[o].state = "cancelled" =>
          /\ pc[o] \in {"idle", "begin", "look", "cancelled", "fail"}
          /\ pc[o] \in {"begin", "look"} => row[o].cancel
          /\ pc[o] # "idle" => row[o].phase = "accepted"
    /\ o \in recorded <=> row[o].state = "succeeded"

\* Which files of a backup there can be.
FileInv(o) ==
    /\ archive[o] # "none" => row[o].phase \in Closed
    /\ partial[o] # "none" => row[o].phase \notin {"accepted", "inventory_ready"}
    /\ partial[o] # "none" /\ pc[o] \in Before => died
    /\ row[o].state = "cancelled" =>
          archive[o] = "none" /\ (partial[o] # "none" => died)

\* Why a backup with an archive can fail.
CauseInv(o) ==
    /\ row[o].state # "absent" => o \in current \/ moved
    /\ (pc[o] = "fail" \/ row[o].state = "failed") /\ archive[o] = "whole"
          => o \in fault \/ moved

\* The project when the second file was listed, if the first has not changed since.
ListedAt(o, s) ==
    /\ listing[o][1] <= s[1] /\ s[1] <= source[1]
    /\ listing[o][2] = s[2]

SnapInv(o) ==
    /\ pc[o] = "list2" => listing[o][1] <= source[1]
    /\ pc[o] \in {"listed", "lookListed", "archiving", "open", "write1", "write2", "again1"}
          => \E s \in was : ListedAt(o, s)
    /\ pc[o] \in {"again2", "written"} => listing[o] \in was
    /\ pc[o] = "write2" => content[o][1] = listing[o][1]
    /\ pc[o] \in {"again1", "again2", "written"} => content[o] = listing[o]
    /\ row[o].phase \in Closed \cup {"archive_ready"} => content[o] \in was

OpInv(o) == PlaceInv(o) /\ RowInv(o) /\ FileInv(o) /\ CauseInv(o) /\ SnapInv(o)

WorldInv ==
    /\ unity => moved
    /\ daemon = "down" => died
    /\ source \in was

IInv == TypeOK /\ WorldInv /\ \A o \in Ops : OpInv(o)

\* What a step of o's worker leaves to the others, and never takes back.
OnlyItsOwn(o) ==
    /\ \A a \in Ops \ {o} :
          /\ row'[a] = row[a] /\ pc'[a] = pc[a] /\ listing'[a] = listing[a]
          /\ partial'[a] = partial[a] /\ archive'[a] = archive[a]
          /\ content'[a] = content[a]
          /\ a \in recorded' <=> a \in recorded
          /\ a \in current => a \in current'
          /\ a \in fault => a \in fault'
    /\ UNCHANGED <<source, was>>
    /\ died => died'
    /\ moved => moved'

Row == [state : States, phase : {Phases[i] : i \in 1..7}, cancel : BOOLEAN]
Archives == {"none", "torn", "whole"}

-----------------------------------------------------------------------------
(* Helpers *)

LEMMA PhaseSet ==
    {Phases[i] : i \in 1..7} = Early \cup Closed \cup {"archive_ready"}
<1>1. 1..7 = {1, 2, 3, 4, 5, 6, 7}
  OBVIOUS
<1> QED
  BY <1>1 DEF Phases, Early, Closed

LEMMA StepIs ==
    /\ Step("accepted") = 1 /\ Step("inventory_ready") = 2 /\ Step("archiving") = 3
    /\ Step("archive_ready") = 4 /\ Step("publish_intent") = 5
    /\ Step("archive_published") = 6 /\ Step("state_committed") = 7
<1>1. DOMAIN Phases = {1, 2, 3, 4, 5, 6, 7}
  <2>1. DOMAIN Phases = 1..7
    BY DEF Phases
  <2> QED
    BY <2>1
<1>2. /\ Phases[1] = "accepted" /\ Phases[2] = "inventory_ready" /\ Phases[3] = "archiving"
      /\ Phases[4] = "archive_ready" /\ Phases[5] = "publish_intent"
      /\ Phases[6] = "archive_published" /\ Phases[7] = "state_committed"
  BY DEF Phases
<1>3. ASSUME NEW n \in {1, 2, 3, 4, 5, 6, 7}
      PROVE  Step(Phases[n]) = n
  <2>1. \A i \in DOMAIN Phases : Phases[i] = Phases[n] <=> i = n
    BY <1>1, <1>2, <1>3
  <2> QED
    BY <2>1, <1>1 DEF Step
<1> QED
  BY <1>2, <1>3

\* phase_step, read as sets of phases.
LEMMA ReachedIs ==
    ASSUME TypeOK, NEW o \in Ops
    PROVE  /\ Reached(o, "inventory_ready") <=> row[o].phase # "accepted"
           /\ Reached(o, "archiving") <=> row[o].phase \notin {"accepted", "inventory_ready"}
           /\ Reached(o, "archive_ready") <=> row[o].phase \in Closed \cup {"archive_ready"}
           /\ Reached(o, "publish_intent") <=> row[o].phase \in Closed
           /\ Reached(o, "archive_published") <=>
                   row[o].phase \in {"archive_published", "state_committed"}
<1>1. row[o].phase \in Early \cup Closed \cup {"archive_ready"}
  BY PhaseSet DEF TypeOK
<1> QED
  BY <1>1, StepIs DEF Reached, Early, Closed

LEMMA OwnStep ==
    ASSUME IInv, NEW o \in Ops, TypeOK', WorldInv', OpInv(o)', OnlyItsOwn(o)
    PROVE  IInv'
<1>1. ASSUME NEW a \in Ops \ {o} PROVE OpInv(a)'
  <2>1. PlaceInv(a)' /\ RowInv(a)'
    BY <1>1 DEF IInv, OpInv, PlaceInv, RowInv, OnlyItsOwn
  <2>2. FileInv(a)' /\ CauseInv(a)'
    BY <1>1 DEF IInv, OpInv, FileInv, CauseInv, OnlyItsOwn
  <2>3. SnapInv(a)'
    BY <1>1 DEF IInv, OpInv, SnapInv, ListedAt, OnlyItsOwn
  <2> QED
    BY <2>1, <2>2, <2>3 DEF OpInv
<1> QED
  BY <1>1 DEF IInv

\* Where a worker is and what it has listed after it went on.
LEMMA OnwardIs ==
    ASSUME IInv, NEW o \in Ops, NEW there \in PCs, Onward(o, there)
    PROVE  /\ pc' \in [Ops -> PCs] /\ listing' \in [Ops -> Content]
           /\ lock' \in Ops \cup {None}
           /\ pc'[o] = there
           /\ there \notin Ends => listing'[o] = listing[o]
           /\ \A a \in Ops \ {o} : pc'[a] = pc[a] /\ listing'[a] = listing[a]
<1>1. Nothing \in Content
  BY DEF Nothing, Content
<1> QED
  BY <1>1 DEF IInv, TypeOK, Onward

\* A step of o's worker that leaves source and world alone keeps the invariant if it
\* keeps it for o.
LEMMA WorkerKeeps ==
    ASSUME IInv, NEW o \in Ops, NEW there \in PCs, Onward(o, there),
           UNCHANGED <<world, source, was, daemon, died>>,
           row' \in [Ops -> Row], recorded' \subseteq Ops,
           partial' \in [Ops -> Archives], archive' \in [Ops -> Archives],
           content' \in [Ops -> Content],
           fault \subseteq fault', fault' \subseteq Ops, mishaps' \in Nat,
           \A a \in Ops \ {o} :
              /\ row'[a] = row[a] /\ partial'[a] = partial[a] /\ archive'[a] = archive[a]
              /\ content'[a] = content[a]
              /\ a \in recorded' <=> a \in recorded,
           OpInv(o)'
    PROVE  IInv'
<1>1. TypeOK'
  BY OnwardIs DEF IInv, TypeOK, world, Row, Archives
<1>2. WorldInv'
  BY DEF IInv, WorldInv, world
<1>3. OnlyItsOwn(o)
  BY OnwardIs DEF OnlyItsOwn, world
<1> QED
  BY <1>1, <1>2, <1>3, OwnStep

\* A step that only moves the worker.
LEMMA DecideIs ==
    ASSUME IInv, NEW o \in Ops, NEW here, NEW there \in PCs, Decide(o, here, there)
    PROVE  /\ pc[o] = here /\ pc'[o] = there
           /\ there \notin Ends => listing'[o] = listing[o]
           /\ UNCHANGED <<row, recorded, source, was, partial, archive, content>>
           /\ UNCHANGED <<current, unity, moved, daemon, fault, died, mishaps>>
           /\ OpInv(o)' => IInv'
<1>1. /\ pc[o] = here /\ pc'[o] = there /\ Onward(o, there)
      /\ there \notin Ends => listing'[o] = listing[o]
      /\ UNCHANGED <<row, recorded, source, was, partial, archive, content>>
      /\ UNCHANGED <<current, unity, moved, daemon, fault, died, mishaps>>
  BY OnwardIs DEF Decide, At, store, files, Rest, world
<1>2. ASSUME OpInv(o)' PROVE IInv'
  <2>1. /\ row' \in [Ops -> Row] /\ recorded' \subseteq Ops
        /\ partial' \in [Ops -> Archives] /\ archive' \in [Ops -> Archives]
        /\ content' \in [Ops -> Content]
        /\ fault \subseteq fault' /\ fault' \subseteq Ops /\ mishaps' \in Nat
    BY <1>1 DEF IInv, TypeOK, Row, Archives
  <2>2. \A a \in Ops \ {o} :
              /\ row'[a] = row[a] /\ partial'[a] = partial[a] /\ archive'[a] = archive[a]
              /\ content'[a] = content[a]
              /\ a \in recorded' <=> a \in recorded
    BY <1>1
  <2> QED
    BY <1>1, <1>2, <2>1, <2>2, WorkerKeeps DEF world
<1> QED
  BY <1>1, <1>2

\* A step on the partial archive.
LEMMA WritesIs ==
    ASSUME IInv, NEW o \in Ops, NEW here, NEW p \in Archives, NEW there \in PCs,
           Writes(o, here, p, there)
    PROVE  /\ pc[o] = here /\ pc'[o] = there /\ partial'[o] = p
           /\ there \notin Ends => listing'[o] = listing[o]
           /\ UNCHANGED <<row, recorded, source, was, archive, content>>
           /\ UNCHANGED <<current, unity, moved, daemon, fault, died, mishaps>>
           /\ OpInv(o)' => IInv'
<1>1. /\ pc[o] = here /\ pc'[o] = there /\ Onward(o, there)
      /\ there \notin Ends => listing'[o] = listing[o]
      /\ UNCHANGED <<row, recorded, source, was, archive, content>>
      /\ UNCHANGED <<current, unity, moved, daemon, fault, died, mishaps>>
  BY OnwardIs DEF Writes, At, store, files, Rest, world
<1>2. partial' = [partial EXCEPT ![o] = p]
  BY DEF Writes
<1>3. partial' \in [Ops -> Archives] /\ partial'[o] = p
      /\ \A a \in Ops \ {o} : partial'[a] = partial[a]
  BY <1>2 DEF IInv, TypeOK, Archives
<1>4. ASSUME OpInv(o)' PROVE IInv'
  <2>1. /\ row' \in [Ops -> Row] /\ recorded' \subseteq Ops
        /\ archive' \in [Ops -> Archives]
        /\ content' \in [Ops -> Content]
        /\ fault \subseteq fault' /\ fault' \subseteq Ops /\ mishaps' \in Nat
    BY <1>1 DEF IInv, TypeOK, Row, Archives
  <2>2. \A a \in Ops \ {o} :
              /\ row'[a] = row[a] /\ partial'[a] = partial[a] /\ archive'[a] = archive[a]
              /\ content'[a] = content[a]
              /\ a \in recorded' <=> a \in recorded
    BY <1>1, <1>3
  <2> QED
    BY <1>1, <1>3, <1>4, <2>1, <2>2, WorkerKeeps DEF world
<1> QED
  BY <1>1, <1>3, <1>4

-----------------------------------------------------------------------------
(* The worker *)

LEMMA BeginInv == ASSUME IInv, NEW o \in Ops, Begin(o) PROVE IInv'
<1>1. CASE row[o].state \notin {"queued", "recovering", "cancelling", "cancelled"}
  <2>1. pc[o] = "begin"
    BY <1>1 DEF Begin, Decide, At
  <2> QED
    BY <1>1, <2>1 DEF IInv, OpInv, RowInv
<1>2. CASE row[o].state \in {"queued", "recovering", "cancelling", "cancelled"}
  <2> DEFINE s == IF row[o].state \in {"queued", "recovering"} THEN "running" ELSE row[o].state
  <2>1. /\ pc[o] = "begin" /\ Onward(o, "look") /\ recorded' = recorded
        /\ UNCHANGED <<source, was, partial, archive, content>>
        /\ UNCHANGED <<current, unity, moved, daemon, fault, died, mishaps>>
    BY <1>2 DEF Begin, At, files, Rest, world
  <2>2. /\ row' \in [Ops -> Row] /\ \A a \in Ops \ {o} : row'[a] = row[a]
        /\ row'[o].state = s /\ row'[o].phase = row[o].phase
        /\ row'[o].cancel = row[o].cancel
    BY <1>2 DEF Begin, SetState, IInv, TypeOK, Row, States, Terminal
  <2>3. pc'[o] = "look" /\ listing'[o] = listing[o]
    BY <2>1, OnwardIs DEF PCs, Ends
  <2>4. OpInv(o)'
    BY <1>2, <2>1, <2>2, <2>3 DEF IInv, OpInv, PlaceInv, RowInv, FileInv, CauseInv, SnapInv,
       Writing, Before, Early, Closed
  <2>5. /\ partial' \in [Ops -> Archives] /\ archive' \in [Ops -> Archives]
        /\ content' \in [Ops -> Content] /\ recorded' \subseteq Ops
        /\ fault \subseteq fault' /\ fault' \subseteq Ops /\ mishaps' \in Nat
    BY <2>1 DEF IInv, TypeOK, Archives
  <2> QED
    BY <2>1, <2>2, <2>4, <2>5, WorkerKeeps DEF world, PCs
<1> QED
  BY <1>1, <1>2

LEMMA LookInv == ASSUME IInv, NEW o \in Ops, Look(o) PROVE IInv'
<1>1. PICK there \in {"drop", "cancelled", "lock"} :
          /\ Decide(o, "look", there)
          /\ there = "lock" => ~row[o].cancel \/ Reached(o, "publish_intent")
          /\ there # "lock" => ~Reached(o, "publish_intent")
          /\ there = "drop" <=> there # "lock" /\ Reached(o, "archiving")
  BY DEF Look
<1>2. /\ there = "lock" => ~row[o].cancel \/ row[o].phase \in Closed
      /\ there # "lock" => row[o].phase \notin Closed
      /\ there = "drop" => row[o].phase \notin {"accepted", "inventory_ready"}
      /\ there = "cancelled" => row[o].phase \in {"accepted", "inventory_ready"}
  BY <1>1, ReachedIs DEF IInv
<1>3. there \in PCs
  BY DEF PCs
<1>4. OpInv(o)'
  BY <1>1, <1>2, <1>3, DecideIs DEF IInv, OpInv, PlaceInv, RowInv, FileInv, CauseInv, SnapInv,
     Writing, Before, Early, Closed
<1> QED
  BY <1>1, <1>3, <1>4, DecideIs

LEMMA LockInv == ASSUME IInv, NEW o \in Ops, Lock(o) PROVE IInv'
<1>1. /\ pc[o] = "lock" /\ pc' = [pc EXCEPT ![o] = "check"] /\ lock' = o
      /\ UNCHANGED <<row, recorded, source, was, partial, archive, content, listing>>
      /\ UNCHANGED <<current, unity, moved, daemon, fault, died, mishaps>>
  BY DEF Lock, At, store, files, Rest, world
<1>2. pc'[o] = "check" /\ \A a \in Ops \ {o} : pc'[a] = pc[a]
  BY <1>1 DEF IInv, TypeOK
<1>3. TypeOK'
  BY <1>1 DEF IInv, TypeOK, PCs
<1>4. OpInv(o)'
  BY <1>1, <1>2 DEF IInv, OpInv, PlaceInv, RowInv, FileInv, CauseInv, SnapInv,
     Writing, Before
<1>5. WorldInv' /\ OnlyItsOwn(o)
  BY <1>1, <1>2 DEF IInv, WorldInv, OnlyItsOwn
<1> QED
  BY <1>3, <1>4, <1>5, OwnStep

LEMMA CheckInv == ASSUME IInv, NEW o \in Ops, Check(o) PROVE IInv'
<1>1. PICK there \in {"fail", "list1", "lookReady", "publish"} :
          /\ Decide(o, "check", there)
          /\ there = "fail" => o \notin current \/ unity
          /\ there = "list1" => ~Reached(o, "archive_ready")
          /\ there = "lookReady" => Reached(o, "archive_ready") /\ ~Reached(o, "publish_intent")
          /\ there = "publish" => Reached(o, "publish_intent")
  BY DEF Check
<1>2. row[o].phase \in Early \cup Closed \cup {"archive_ready"}
  BY PhaseSet DEF IInv, TypeOK
<1>3. /\ there = "list1" => row[o].phase \in Early
      /\ there = "lookReady" => row[o].phase = "archive_ready"
      /\ there = "publish" => row[o].phase \in Closed
  BY <1>1, <1>2, ReachedIs DEF IInv
<1>4. there = "fail" => moved
  <2>1. row[o].state # "absent"
    BY <1>1 DEF IInv, OpInv, RowInv, Decide, At
  <2> QED
    BY <1>1, <2>1 DEF IInv, WorldInv, OpInv, CauseInv
<1>5. there \in PCs
  BY DEF PCs
<1>6. OpInv(o)'
  BY <1>1, <1>3, <1>4, <1>5, DecideIs DEF IInv, OpInv, PlaceInv, RowInv, FileInv, CauseInv,
     SnapInv, Writing, Before
<1> QED
  BY <1>1, <1>5, <1>6, DecideIs

LEMMA LookListedInv == ASSUME IInv, NEW o \in Ops, LookListed(o) PROVE IInv'
<1>1. PICK there \in {"cancelled", "archiving"} : Decide(o, "lookListed", there)
  BY DEF LookListed
<1>2. there \in PCs
  BY DEF PCs
<1>3. OpInv(o)'
  BY <1>1, <1>2, DecideIs DEF IInv, OpInv, PlaceInv, RowInv, FileInv, CauseInv,
     SnapInv, ListedAt, Writing, Before, Closed, Ends
<1> QED
  BY <1>1, <1>2, <1>3, DecideIs

LEMMA BrokenInv == ASSUME IInv, NEW o \in Ops, Broken(o) PROVE IInv'
<1>1. PICK there \in {"drop", "fail"} : Decide(o, "broken", there)
  BY DEF Broken
<1>2. there \in PCs
  BY DEF PCs
<1>3. OpInv(o)'
  BY <1>1, <1>2, DecideIs DEF IInv, OpInv, PlaceInv, RowInv, FileInv, CauseInv,
     SnapInv, Writing, Before, Closed
<1> QED
  BY <1>1, <1>2, <1>3, DecideIs

LEMMA LookReadyInv == ASSUME IInv, NEW o \in Ops, LookReady(o) PROVE IInv'
<1>1. PICK there \in {"drop", "intent"} : Decide(o, "lookReady", there)
  BY DEF LookReady
<1>2. there \in PCs
  BY DEF PCs
<1>3. OpInv(o)'
  BY <1>1, <1>2, DecideIs DEF IInv, OpInv, PlaceInv, RowInv, FileInv, CauseInv,
     SnapInv, Writing, Before, Closed
<1> QED
  BY <1>1, <1>2, <1>3, DecideIs

LEMMA SyncInv == ASSUME IInv, NEW o \in Ops, Sync(o) PROVE IInv'
<1>1. PICK there \in {"published", "fail", "defer"} :
          Decide(o, "sync", there) /\ (there = "fail" => archive[o] # "whole")
  BY DEF Sync
<1>2. there \in PCs
  BY DEF PCs
<1>3. OpInv(o)'
  BY <1>1, <1>2, DecideIs DEF IInv, OpInv, PlaceInv, RowInv, FileInv, CauseInv,
     SnapInv, Writing, Before
<1> QED
  BY <1>1, <1>2, <1>3, DecideIs

LEMMA OpenInv == ASSUME IInv, NEW o \in Ops, Writes(o, "open", "torn", "write1") PROVE IInv'
<1>1. "write1" \in PCs \ Ends /\ "torn" \in Archives
  BY DEF PCs, Ends, Archives
<1>2. OpInv(o)'
  BY <1>1, WritesIs DEF IInv, OpInv, PlaceInv, RowInv, FileInv, CauseInv,
     SnapInv, ListedAt, Writing, Before
<1> QED
  BY <1>1, <1>2, WritesIs

LEMMA DropInv == ASSUME IInv, NEW o \in Ops, Writes(o, "drop", "none", "cancelled") PROVE IInv'
<1>1. "cancelled" \in PCs \ Ends /\ "none" \in Archives
  BY DEF PCs, Ends, Archives
<1>2. /\ pc[o] = "drop" /\ pc'[o] = "cancelled" /\ partial'[o] = "none"
      /\ UNCHANGED <<row, recorded, source, was, archive, content>>
      /\ UNCHANGED <<current, moved, fault, died>>
      /\ OpInv(o)' => IInv'
  BY <1>1, WritesIs
<1>3. OpInv(o)'
  BY <1>2 DEF IInv, OpInv, PlaceInv, RowInv, FileInv, CauseInv, SnapInv, Writing, Before
<1> QED
  BY <1>2, <1>3

\* The archive breaks off: the partial archive is removed.
LEMMA BreaksInv ==
    ASSUME IInv, NEW o \in Ops, NEW here \in {"write1", "write2", "again1", "again2"},
           Writes(o, here, "none", "broken")
    PROVE  IInv'
<1>1. "broken" \in PCs \ Ends /\ "none" \in Archives
  BY DEF PCs, Ends, Archives
<1>2. /\ pc[o] = here /\ pc'[o] = "broken" /\ partial'[o] = "none"
      /\ UNCHANGED <<row, recorded, source, was, archive, content>>
      /\ UNCHANGED <<current, moved, fault, died>>
      /\ OpInv(o)' => IInv'
  BY <1>1, WritesIs
<1>3. PlaceInv(o) /\ RowInv(o) /\ FileInv(o) /\ CauseInv(o) /\ SnapInv(o)
  BY DEF IInv, OpInv
<1>4. PlaceInv(o)' /\ RowInv(o)'
  BY <1>2, <1>3 DEF PlaceInv, RowInv, Writing
<1>5. FileInv(o)' /\ CauseInv(o)'
  BY <1>2, <1>3 DEF FileInv, CauseInv
<1>6. SnapInv(o)'
  BY <1>2, <1>3 DEF SnapInv
<1> QED
  BY <1>2, <1>4, <1>5, <1>6 DEF OpInv

\* An entry of the journal is written, unless it is there already.
LEMMA CheckpointIs ==
    ASSUME IInv, NEW o \in Ops, NEW here, NEW p \in {Phases[i] : i \in 1..7},
           NEW there \in PCs, Checkpoint(o, here, p, there)
    PROVE  /\ pc[o] = here /\ pc'[o] = there
           /\ there \notin Ends => listing'[o] = listing[o]
           /\ row'[o].state = row[o].state /\ row'[o].cancel = row[o].cancel
           /\ row'[o].phase = IF Reached(o, p) THEN row[o].phase ELSE p
           /\ UNCHANGED <<recorded, source, was, partial, archive, content>>
           /\ UNCHANGED <<current, unity, moved, daemon, fault, died, mishaps>>
           /\ OpInv(o)' => IInv'
<1>1. /\ pc[o] = here /\ pc'[o] = there /\ Onward(o, there)
      /\ there \notin Ends => listing'[o] = listing[o]
      /\ UNCHANGED <<recorded, source, was, partial, archive, content>>
      /\ UNCHANGED <<current, unity, moved, daemon, fault, died, mishaps>>
  BY OnwardIs DEF Checkpoint, At, files, Rest, world
<1>2. /\ row' \in [Ops -> Row] /\ \A a \in Ops \ {o} : row'[a] = row[a]
      /\ row'[o].state = row[o].state /\ row'[o].cancel = row[o].cancel
      /\ row'[o].phase = IF Reached(o, p) THEN row[o].phase ELSE p
  <2>1. CASE Reached(o, p)
    BY <2>1 DEF Checkpoint, IInv, TypeOK, Row
  <2>2. CASE ~Reached(o, p)
    <3>1. row' = [row EXCEPT ![o].phase = p] /\ row \in [Ops -> Row]
      BY <2>2 DEF Checkpoint, IInv, TypeOK, Row
    <3>2. [row[o] EXCEPT !.phase = p] \in Row
      BY <3>1 DEF Row
    <3> QED
      BY <2>2, <3>1, <3>2 DEF Row
  <2> QED
    BY <2>1, <2>2
<1>3. ASSUME OpInv(o)' PROVE IInv'
  <2>1. /\ partial' \in [Ops -> Archives] /\ archive' \in [Ops -> Archives]
        /\ content' \in [Ops -> Content] /\ recorded' \subseteq Ops
        /\ fault \subseteq fault' /\ fault' \subseteq Ops /\ mishaps' \in Nat
    BY <1>1 DEF IInv, TypeOK, Archives
  <2> QED
    BY <1>1, <1>2, <1>3, <2>1, WorkerKeeps DEF world
<1> QED
  BY <1>1, <1>2, <1>3

LEMMA CheckpointsInv ==
    ASSUME IInv, NEW o \in Ops,
           \/ Checkpoint(o, "listed", "inventory_ready", "lookListed")
           \/ Checkpoint(o, "archiving", "archiving", "open")
           \/ Checkpoint(o, "written", "archive_ready", "lookReady")
           \/ Checkpoint(o, "intent", "publish_intent", "publish")
           \/ Checkpoint(o, "published", "archive_published", "complete")
    PROVE  IInv'
<1>a. /\ Reached(o, "inventory_ready") <=> row[o].phase # "accepted"
      /\ Reached(o, "archiving") <=> row[o].phase \notin {"accepted", "inventory_ready"}
      /\ Reached(o, "archive_ready") <=> row[o].phase \in Closed \cup {"archive_ready"}
      /\ Reached(o, "publish_intent") <=> row[o].phase \in Closed
      /\ Reached(o, "archive_published") <=>
              row[o].phase \in {"archive_published", "state_committed"}
  BY ReachedIs DEF IInv
<1>1. /\ row[o].phase \in Early \cup Closed \cup {"archive_ready"}
      /\ {"inventory_ready", "archiving", "archive_ready", "publish_intent",
          "archive_published"} \subseteq {Phases[i] : i \in 1..7}
  BY PhaseSet DEF IInv, TypeOK, Early, Closed
<1>2. {"lookListed", "open", "lookReady", "publish", "complete"} \subseteq PCs \ Ends
  BY DEF PCs, Ends
<1>3. CASE Checkpoint(o, "listed", "inventory_ready", "lookListed")
  <2>1. /\ pc[o] = "listed" /\ pc'[o] = "lookListed" /\ listing'[o] = listing[o]
        /\ row'[o].state = row[o].state /\ row'[o].cancel = row[o].cancel
        /\ row'[o].phase = IF row[o].phase # "accepted" THEN row[o].phase ELSE "inventory_ready"
        /\ UNCHANGED <<recorded, source, was, partial, archive, content>>
        /\ UNCHANGED <<current, moved, fault, died>>
        /\ OpInv(o)' => IInv'
    <3>1. row'[o].phase = IF Reached(o, "inventory_ready") THEN row[o].phase ELSE "inventory_ready"
      BY <1>1, <1>2, <1>3, CheckpointIs
    <3> QED
      BY <1>1, <1>2, <1>3, <1>a, <3>1, CheckpointIs
  <2>2. OpInv(o)'
    BY <2>1 DEF IInv, OpInv, PlaceInv, RowInv, FileInv, CauseInv, SnapInv, ListedAt,
       Writing, Before, Early, Closed
  <2> QED
    BY <2>1, <2>2
<1>4. CASE Checkpoint(o, "archiving", "archiving", "open")
  <2>1. /\ pc[o] = "archiving" /\ pc'[o] = "open" /\ listing'[o] = listing[o]
        /\ row'[o].state = row[o].state /\ row'[o].cancel = row[o].cancel
        /\ row'[o].phase = IF row[o].phase \notin {"accepted", "inventory_ready"}
                           THEN row[o].phase ELSE "archiving"
        /\ UNCHANGED <<recorded, source, was, partial, archive, content>>
        /\ UNCHANGED <<current, moved, fault, died>>
        /\ OpInv(o)' => IInv'
    <3>1. row'[o].phase = IF Reached(o, "archiving") THEN row[o].phase ELSE "archiving"
      BY <1>1, <1>2, <1>4, CheckpointIs
    <3> QED
      BY <1>1, <1>2, <1>4, <1>a, <3>1, CheckpointIs
  <2>2. OpInv(o)'
    BY <2>1 DEF IInv, OpInv, PlaceInv, RowInv, FileInv, CauseInv, SnapInv, ListedAt,
       Writing, Before, Early, Closed
  <2> QED
    BY <2>1, <2>2
<1>5. CASE Checkpoint(o, "written", "archive_ready", "lookReady")
  <2>1. /\ pc[o] = "written" /\ pc'[o] = "lookReady"
        /\ row'[o].state = row[o].state /\ row'[o].cancel = row[o].cancel
        /\ row'[o].phase = IF row[o].phase \in Closed \cup {"archive_ready"}
                           THEN row[o].phase ELSE "archive_ready"
        /\ UNCHANGED <<recorded, source, was, partial, archive, content>>
        /\ UNCHANGED <<current, moved, fault, died>>
        /\ OpInv(o)' => IInv'
    <3>1. row'[o].phase = IF Reached(o, "archive_ready") THEN row[o].phase ELSE "archive_ready"
      BY <1>1, <1>2, <1>5, CheckpointIs
    <3> QED
      BY <1>1, <1>2, <1>5, <1>a, <3>1, CheckpointIs
  <2>2. OpInv(o)'
    BY <2>1 DEF IInv, OpInv, PlaceInv, RowInv, FileInv, CauseInv, SnapInv,
       Writing, Before, Closed
  <2> QED
    BY <2>1, <2>2
<1>6. CASE Checkpoint(o, "intent", "publish_intent", "publish")
  <2>1. /\ pc[o] = "intent" /\ pc'[o] = "publish"
        /\ row'[o].state = row[o].state /\ row'[o].cancel = row[o].cancel
        /\ row'[o].phase = IF row[o].phase \in Closed THEN row[o].phase ELSE "publish_intent"
        /\ UNCHANGED <<recorded, source, was, partial, archive, content>>
        /\ UNCHANGED <<current, moved, fault, died>>
        /\ OpInv(o)' => IInv'
    <3>1. row'[o].phase = IF Reached(o, "publish_intent") THEN row[o].phase ELSE "publish_intent"
      BY <1>1, <1>2, <1>6, CheckpointIs
    <3> QED
      BY <1>1, <1>2, <1>6, <1>a, <3>1, CheckpointIs
  <2>2. OpInv(o)'
    BY <2>1 DEF IInv, OpInv, PlaceInv, RowInv, FileInv, CauseInv, SnapInv,
       Writing, Before, Closed
  <2> QED
    BY <2>1, <2>2
<1>7. CASE Checkpoint(o, "published", "archive_published", "complete")
  <2>1. /\ pc[o] = "published" /\ pc'[o] = "complete"
        /\ row'[o].state = row[o].state /\ row'[o].cancel = row[o].cancel
        /\ row'[o].phase = IF row[o].phase \in {"archive_published", "state_committed"}
                           THEN row[o].phase ELSE "archive_published"
        /\ UNCHANGED <<recorded, source, was, partial, archive, content>>
        /\ UNCHANGED <<current, moved, fault, died>>
        /\ OpInv(o)' => IInv'
    <3>1. row'[o].phase = IF Reached(o, "archive_published") THEN row[o].phase ELSE "archive_published"
      BY <1>1, <1>2, <1>7, CheckpointIs
    <3> QED
      BY <1>1, <1>2, <1>7, <1>a, <3>1, CheckpointIs
  <2>2. OpInv(o)'
    BY <2>1 DEF IInv, OpInv, PlaceInv, RowInv, FileInv, CauseInv, SnapInv,
       Writing, Before, Closed
  <2> QED
    BY <2>1, <2>2
<1> QED
  BY <1>3, <1>4, <1>5, <1>6, <1>7

-----------------------------------------------------------------------------
(* The two inventories, and the archive between them *)

LEMMA ListInv ==
    ASSUME IInv, NEW o \in Ops,
           List(o, "list1", 1, "list2") \/ List(o, "list2", 2, "listed")
    PROVE  IInv'
<1>1. PICK f \in Files, there \in {"list2", "listed"} :
          /\ \/ f = 1 /\ there = "list2" /\ pc[o] = "list1"
             \/ f = 2 /\ there = "listed" /\ pc[o] = "list2"
          /\ pc' = [pc EXCEPT ![o] = there]
          /\ listing' = [listing EXCEPT ![o][f] = source[f]]
          /\ UNCHANGED <<row, recorded, source, was, partial, archive, content, lock>>
          /\ UNCHANGED <<current, unity, moved, daemon, fault, died, mishaps>>
  <2> 1 \in Files /\ 2 \in Files
    BY BackupAssumption
  <2>2. CASE List(o, "list1", 1, "list2")
    <3> WITNESS 1 \in Files, "list2" \in {"list2", "listed"}
    <3> QED
      BY <2>2 DEF List, At, store, files, Rest, world
  <2>3. CASE List(o, "list2", 2, "listed")
    <3> WITNESS 2 \in Files, "listed" \in {"list2", "listed"}
    <3> QED
      BY <2>3 DEF List, At, store, files, Rest, world
  <2> QED
    BY <2>2, <2>3
<1>2. /\ pc'[o] = there
      /\ \A a \in Ops \ {o} : pc'[a] = pc[a] /\ listing'[a] = listing[a]
  BY <1>1 DEF IInv, TypeOK
<1>3. /\ listing'[o] = [listing[o] EXCEPT ![f] = source[f]]
      /\ listing[o] \in Content /\ source \in Content
  BY <1>1 DEF IInv, TypeOK
<1>4. /\ listing'[o] \in Content /\ listing'[o][f] = source[f]
      /\ f = 2 => listing'[o][1] = listing[o][1]
  BY <1>1, <1>3, BackupAssumption DEF Content
<1>5. TypeOK'
  <2>1. listing' \in [Ops -> Content]
    BY <1>1, <1>3, <1>4 DEF IInv, TypeOK
  <2> QED
    BY <1>1, <2>1 DEF IInv, TypeOK, PCs
<1>6. SnapInv(o)'
  <2>1. source[1] \in Nat /\ source[2] \in Nat /\ source \in was
    BY <1>3, BackupAssumption DEF IInv, WorldInv, Content
  <2>2. there = "listed" => ListedAt(o, source)'
    BY <1>1, <1>4, <2>1 DEF IInv, OpInv, SnapInv, ListedAt
  <2>3. there = "list2" => listing'[o][1] <= source'[1]
    BY <1>1, <1>4, <2>1
  <2>4. there = "listed" => \E s \in was' : ListedAt(o, s)'
    BY <1>1, <2>1, <2>2
  <2> QED
    BY <1>1, <1>2, <2>3, <2>4 DEF IInv, OpInv, SnapInv
<1>7. PlaceInv(o)' /\ RowInv(o)' /\ FileInv(o)' /\ CauseInv(o)'
  BY <1>1, <1>2 DEF IInv, OpInv, PlaceInv, RowInv, FileInv, CauseInv, Writing, Before
<1>8. WorldInv' /\ OnlyItsOwn(o)
  BY <1>1, <1>2 DEF IInv, WorldInv, OnlyItsOwn
<1> QED
  BY <1>5, <1>6, <1>7, <1>8, OwnStep DEF OpInv

\* A file is written only if it is still what was listed.
LEMMA WriteInv ==
    ASSUME IInv, NEW o \in Ops,
           Write(o, "write1", 1, "torn", "write2") \/ Write(o, "write2", 2, "whole", "again1")
    PROVE  IInv'
<1>1. CASE \E here \in {"write1", "write2"} : Writes(o, here, "none", "broken")
  BY <1>1, BreaksInv
<1>2. CASE \A here \in {"write1", "write2"} : ~Writes(o, here, "none", "broken")
  <2>1. PICK f \in Files, there \in {"write2", "again1"}, p \in Archives :
            /\ \/ f = 1 /\ there = "write2" /\ pc[o] = "write1"
               \/ f = 2 /\ there = "again1" /\ pc[o] = "write2"
            /\ Same(o, f) /\ Onward(o, there)
            /\ content' = [content EXCEPT ![o][f] = source[f]]
            /\ p # "none" /\ partial' = [partial EXCEPT ![o] = p]
            /\ UNCHANGED <<row, recorded, source, was, archive>>
            /\ UNCHANGED <<current, unity, moved, daemon, fault, died, mishaps>>
    <3> 1 \in Files /\ 2 \in Files
      BY BackupAssumption
    <3> USE DEF Archives
    <3>2. CASE Write(o, "write1", 1, "torn", "write2")
      <4> WITNESS 1 \in Files, "write2" \in {"write2", "again1"}, "torn" \in Archives
      <4> QED
        BY <1>2, <3>2 DEF Write, At, store, Rest, world
    <3>3. CASE Write(o, "write2", 2, "whole", "again1")
      <4> WITNESS 2 \in Files, "again1" \in {"write2", "again1"}, "whole" \in Archives
      <4> QED
        BY <1>2, <3>3 DEF Write, At, store, Rest, world
    <3> QED
      BY <3>2, <3>3
  <2>2. there \in PCs \ Ends
    BY DEF PCs, Ends
  <2>3. pc'[o] = there /\ listing'[o] = listing[o]
    BY <2>1, <2>2, OnwardIs
  <2>4. /\ content'[o] = [content[o] EXCEPT ![f] = source[f]]
        /\ \A a \in Ops \ {o} : content'[a] = content[a] /\ partial'[a] = partial[a]
        /\ partial' \in [Ops -> Archives] /\ partial'[o] = p
        /\ content[o] \in Content /\ source \in Content /\ listing[o] \in Content
    BY <2>1 DEF IInv, TypeOK, Archives
  <2>5. /\ content'[o] \in Content /\ content'[o][f] = listing[o][f]
        /\ f = 2 => content'[o][1] = content[o][1]
    BY <2>1, <2>4, BackupAssumption DEF Content, Same
  <2>6. content' \in [Ops -> Content]
    BY <2>1, <2>4, <2>5 DEF IInv, TypeOK
  <2>7. f = 2 => content'[o] = listing'[o]
    <3>1. f = 2 => content[o][1] = listing[o][1]
      BY <2>1 DEF IInv, OpInv, SnapInv
    <3>2. f = 2 => content'[o][1] = listing[o][1] /\ content'[o][2] = listing[o][2]
      BY <2>5, <3>1
    <3> QED
      BY <2>3, <2>4, <2>5, <3>2, BackupAssumption DEF Content
  <2>8. SnapInv(o)'
    BY <2>1, <2>3, <2>5, <2>7 DEF IInv, OpInv, PlaceInv, SnapInv, ListedAt, Writing, Closed
  <2>9. PlaceInv(o)' /\ RowInv(o)' /\ FileInv(o)' /\ CauseInv(o)'
    BY <2>1, <2>3, <2>4 DEF IInv, OpInv, PlaceInv, RowInv, FileInv, CauseInv, Writing, Before
  <2>10. /\ row' \in [Ops -> Row] /\ recorded' \subseteq Ops
         /\ archive' \in [Ops -> Archives]
         /\ fault \subseteq fault' /\ fault' \subseteq Ops /\ mishaps' \in Nat
    BY <2>1 DEF IInv, TypeOK, Row, Archives
  <2> QED
    BY <2>1, <2>2, <2>4, <2>6, <2>8, <2>9, <2>10, WorkerKeeps DEF OpInv, world
<1> QED
  BY <1>1, <1>2

\* The first file is the same again: then it was what was listed when the second file
\* was read, and the inventory is the project at that moment.
LEMMA AgainInv ==
    ASSUME IInv, NEW o \in Ops,
           Again(o, "again1", 1, "again2") \/ Again(o, "again2", 2, "written")
    PROVE  IInv'
<1>1. CASE \E here \in {"again1", "again2"} : Writes(o, here, "none", "broken")
  BY <1>1, BreaksInv
<1>2. CASE \A here \in {"again1", "again2"} : ~Writes(o, here, "none", "broken")
  <2>1. PICK here \in {"again1", "again2"}, there \in {"again2", "written"} :
            /\ Decide(o, here, there)
            /\ here = "again1" => Same(o, 1) /\ there = "again2"
            /\ here = "again2" => there = "written"
    BY <1>2 DEF Again
  <2>2. there \in PCs \ Ends
    BY DEF PCs, Ends
  <2>3. /\ pc[o] = here /\ pc'[o] = there /\ listing'[o] = listing[o]
        /\ UNCHANGED <<row, recorded, source, was, partial, archive, content>>
        /\ UNCHANGED <<current, moved, fault, died>>
        /\ OpInv(o)' => IInv'
    BY <2>1, <2>2, DecideIs
  <2>4. listing[o] \in was
    <3>1. CASE here = "again1"
      <4>1. PICK s \in was : ListedAt(o, s)
        BY <3>1, <2>3 DEF IInv, OpInv, SnapInv
      <4>2. s \in Content /\ listing[o] \in Content /\ source \in Content
        BY DEF IInv, TypeOK
      <4>3. s[1] \in Nat /\ listing[o][1] \in Nat /\ source[1] = listing[o][1]
        BY <4>2, <3>1, <2>1, BackupAssumption DEF Content, Same
      <4>4. s[1] = listing[o][1] /\ s[2] = listing[o][2]
        BY <4>1, <4>3 DEF ListedAt
      <4>5. s = listing[o]
        BY <4>2, <4>4, BackupAssumption DEF Content
      <4> QED
        BY <4>5
    <3>2. CASE here = "again2"
      BY <3>2, <2>3 DEF IInv, OpInv, SnapInv
    <3> QED
      BY <3>1, <3>2
  <2>5. SnapInv(o)'
    BY <2>3, <2>4 DEF IInv, OpInv, SnapInv
  <2>6. PlaceInv(o)' /\ RowInv(o)' /\ FileInv(o)' /\ CauseInv(o)'
    BY <2>1, <2>3 DEF IInv, OpInv, PlaceInv, RowInv, FileInv, CauseInv, Writing, Before
  <2> QED
    BY <2>3, <2>5, <2>6 DEF OpInv
<1> QED
  BY <1>1, <1>2

-----------------------------------------------------------------------------
(* The archive is moved in, and the ends of an Operation *)

LEMMA PublishInv == ASSUME IInv, NEW o \in Ops, Publish(o) PROVE IInv'
<1>0. /\ {"published", "sync"} \subseteq PCs \ Ends
      /\ {"fail", "defer"} \subseteq PCs /\ {"none", "whole"} \subseteq Archives
  BY DEF PCs, Ends, Archives
<1>1. CASE archive[o] = "whole"
  <2>1. /\ pc[o] = "publish" /\ pc'[o] = "published" /\ partial'[o] = "none"
        /\ UNCHANGED <<row, recorded, source, was, archive, content>>
        /\ UNCHANGED <<current, moved, fault, died>>
        /\ OpInv(o)' => IInv'
    BY <1>0, <1>1, WritesIs DEF Publish
  <2>2. OpInv(o)'
    BY <2>1 DEF IInv, OpInv, PlaceInv, RowInv, FileInv, CauseInv, SnapInv, Writing, Before
  <2> QED
    BY <2>1, <2>2
<1>2. CASE archive[o] # "whole" /\ (archive[o] = "torn" \/ partial[o] # "whole")
  <2>1. PICK there \in {"fail", "defer"} : Decide(o, "publish", there)
    BY <1>2 DEF Publish
  <2>2. /\ pc[o] = "publish" /\ pc'[o] = there
        /\ UNCHANGED <<row, recorded, source, was, partial, archive, content>>
        /\ UNCHANGED <<current, moved, fault, died>>
        /\ OpInv(o)' => IInv'
    BY <1>0, <2>1, DecideIs
  <2>3. OpInv(o)'
    BY <1>2, <2>2 DEF IInv, OpInv, PlaceInv, RowInv, FileInv, CauseInv, SnapInv, Writing, Before
  <2> QED
    BY <2>2, <2>3
<1>3. CASE archive[o] \notin {"whole", "torn"} /\ partial[o] = "whole"
  <2>1. /\ pc[o] = "publish" /\ Onward(o, "sync")
        /\ partial' = [partial EXCEPT ![o] = "none"]
        /\ archive' = [archive EXCEPT ![o] = "whole"]
        /\ UNCHANGED <<row, recorded, source, was, content>>
        /\ UNCHANGED <<current, unity, moved, daemon, fault, died, mishaps>>
    BY <1>3 DEF Publish, At, store, Rest, world
  <2>2. pc'[o] = "sync"
    BY <1>0, <2>1, OnwardIs
  <2>3. /\ partial' \in [Ops -> Archives] /\ partial'[o] = "none"
        /\ archive' \in [Ops -> Archives] /\ archive'[o] = "whole"
        /\ \A a \in Ops \ {o} : partial'[a] = partial[a] /\ archive'[a] = archive[a]
    BY <2>1 DEF IInv, TypeOK, Archives
  <2>4. OpInv(o)'
    BY <2>1, <2>2, <2>3 DEF IInv, OpInv, PlaceInv, RowInv, FileInv, CauseInv, SnapInv,
       Writing, Before
  <2>5. /\ row' \in [Ops -> Row] /\ recorded' \subseteq Ops
        /\ content' \in [Ops -> Content]
        /\ fault \subseteq fault' /\ fault' \subseteq Ops /\ mishaps' \in Nat
    BY <2>1 DEF IInv, TypeOK, Row
  <2> QED
    BY <1>0, <2>1, <2>3, <2>4, <2>5, WorkerKeeps DEF world
<1> QED
  BY <1>1, <1>2, <1>3

\* A step that may write the row of o, and moves its worker.
LEMMA RowWritten ==
    ASSUME IInv, NEW o \in Ops, NEW r \in Row, NEW there \in PCs, Onward(o, there),
           row' = row \/ row' = [row EXCEPT ![o] = r],
           recorded' \in {recorded, recorded \cup {o}},
           UNCHANGED <<files, Rest>>, OpInv(o)'
    PROVE  IInv'
<1>1. row' \in [Ops -> Row] /\ \A a \in Ops \ {o} : row'[a] = row[a]
  BY DEF IInv, TypeOK, Row
<1>2. /\ recorded' \subseteq Ops
      /\ \A a \in Ops \ {o} : a \in recorded' <=> a \in recorded
  BY DEF IInv, TypeOK
<1>3. /\ UNCHANGED <<source, was, partial, archive, content>>
      /\ UNCHANGED <<current, unity, moved, daemon, fault, died, mishaps>>
  BY DEF files, Rest, world
<1>4. /\ partial' \in [Ops -> Archives] /\ archive' \in [Ops -> Archives]
      /\ content' \in [Ops -> Content]
      /\ fault \subseteq fault' /\ fault' \subseteq Ops /\ mishaps' \in Nat
  BY <1>3 DEF IInv, TypeOK, Archives
<1> QED
  BY <1>1, <1>2, <1>3, <1>4, WorkerKeeps DEF world

LEMMA CompleteInv == ASSUME IInv, NEW o \in Ops, Complete(o) PROVE IInv'
<1> DEFINE r == [row[o] EXCEPT !.state = "succeeded", !.phase = "state_committed"]
<1>1. r \in Row /\ r.state = "succeeded" /\ r.phase = "state_committed"
  <2>1. row[o] \in Row /\ "state_committed" \in {Phases[i] : i \in 1..7}
    BY PhaseSet DEF IInv, TypeOK, Row, Closed
  <2> QED
    BY <2>1 DEF Row, States, Terminal
<1>2. row' = [row EXCEPT ![o] = r]
  BY DEF Complete
<1> HIDE DEF r
<1>3. row'[o] = r
  BY <1>2 DEF IInv, TypeOK
<1>4. "idle" \in PCs
  BY DEF PCs
<1>5. /\ pc[o] = "complete" /\ pc'[o] = "idle" /\ o \in recorded'
      /\ UNCHANGED <<source, was, partial, archive, content>>
      /\ UNCHANGED <<current, moved, fault, died>>
  BY <1>4, OnwardIs DEF Complete, At, files, Rest, world
<1>6. OpInv(o)'
  BY <1>1, <1>3, <1>5 DEF IInv, OpInv, PlaceInv, RowInv, FileInv, CauseInv, SnapInv,
     Writing, Before, Closed
<1> QED
  BY <1>1, <1>2, <1>4, <1>6, RowWritten DEF Complete

\* The row gets a state it can end in, and the worker ends.
LEMMA EndsInv ==
    ASSUME IInv, NEW o \in Ops, NEW here \in {"cancelled", "defer", "fail"},
           NEW s \in {"cancelled", "interrupted", "failed"},
           At(o, here), Onward(o, "idle"),
           IF Live(o) THEN SetState(o, s) ELSE UNCHANGED row,
           UNCHANGED <<recorded, files, Rest>>,
           s = "failed" => here = "fail",
           s = "cancelled" => here = "cancelled"
    PROVE  IInv'
<1> DEFINE r == [row[o] EXCEPT !.state = s]
<1>1. /\ r \in Row /\ r.state = s /\ r.phase = row[o].phase
      /\ r.cancel = row[o].cancel
  BY DEF IInv, TypeOK, Row, States, Terminal
<1>2. row' = IF Live(o) THEN [row EXCEPT ![o] = r] ELSE row
  BY DEF SetState
<1> HIDE DEF r
<1>3. row'[o] = IF Live(o) THEN r ELSE row[o]
  BY <1>2 DEF IInv, TypeOK
<1>4. "idle" \in PCs
  BY DEF PCs
<1>5. /\ pc[o] = here /\ pc'[o] = "idle" /\ recorded' = recorded
      /\ UNCHANGED <<source, was, partial, archive, content>>
      /\ UNCHANGED <<current, moved, fault, died>>
  BY <1>4, OnwardIs DEF At, files, Rest, world
<1>6. PlaceInv(o)' /\ RowInv(o)'
  BY <1>1, <1>3, <1>5 DEF IInv, OpInv, PlaceInv, RowInv, Live, Terminal, Writing
<1>7. FileInv(o)' /\ CauseInv(o)' /\ SnapInv(o)'
  BY <1>1, <1>3, <1>5 DEF IInv, OpInv, PlaceInv, FileInv, CauseInv, SnapInv, Live, Terminal,
     Before
<1> QED
  BY <1>1, <1>2, <1>4, <1>6, <1>7, RowWritten DEF OpInv

LEMMA CancelledInv == ASSUME IInv, NEW o \in Ops, Cancelled(o) PROVE IInv'
<1>1. CASE row[o].state = "running"
  <2>1. Decide(o, "cancelled", "fail") /\ "fail" \in PCs
    BY <1>1 DEF Cancelled, PCs
  <2>2. /\ pc[o] = "cancelled" /\ pc'[o] = "fail"
        /\ UNCHANGED <<row, recorded, source, was, partial, archive, content>>
        /\ UNCHANGED <<current, moved, fault, died>>
        /\ OpInv(o)' => IInv'
    BY <2>1, DecideIs
  <2>3. OpInv(o)'
    BY <1>1, <2>2 DEF IInv, OpInv, PlaceInv, RowInv, FileInv, CauseInv, SnapInv,
       Writing, Before
  <2> QED
    BY <2>2, <2>3
<1>2. CASE row[o].state # "running"
  BY <1>2, EndsInv DEF Cancelled
<1> QED
  BY <1>1, <1>2

LEMMA EndInv ==
    ASSUME IInv, NEW o \in Ops, End(o, "defer", "interrupted") \/ End(o, "fail", "failed")
    PROVE  IInv'
BY EndsInv DEF End

\* A failing step: o is among the backups with a fault from here on.
LEMMA FaultInv == ASSUME IInv, NEW o \in Ops, Fault(o) PROVE IInv'
<1>1. PICK there \in {"broken", "idle", "fail"} :
          /\ Onward(o, there)
          /\ there = "broken" => pc[o] \in Writing \ {"written", "broken"}
          /\ there = "broken" => partial' = [partial EXCEPT ![o] = "none"]
          /\ there # "broken" => partial' = partial
          /\ there = "fail" => pc[o] # "idle"
  BY DEF Fault, Writing
<1>2. /\ fault' = fault \cup {o} /\ pc[o] # "idle"
      /\ UNCHANGED <<row, recorded, source, was, archive, content>>
      /\ UNCHANGED <<current, unity, moved, daemon, died>>
      /\ mishaps' = mishaps + 1
  BY DEF Fault, Mishap, store, world
<1>3. there \in PCs
  BY DEF PCs
<1>4. pc'[o] = there
  BY <1>1, <1>3, OnwardIs
<1>5. /\ partial' \in [Ops -> Archives]
      /\ partial'[o] = IF there = "broken" THEN "none" ELSE partial[o]
      /\ \A a \in Ops \ {o} : partial'[a] = partial[a]
  BY <1>1 DEF IInv, TypeOK, Archives
<1>6. OpInv(o)'
  BY <1>1, <1>2, <1>4, <1>5 DEF IInv, OpInv, PlaceInv, RowInv, FileInv, CauseInv, SnapInv,
     Writing, Before
<1>7. /\ row' \in [Ops -> Row] /\ recorded' \subseteq Ops
      /\ archive' \in [Ops -> Archives] /\ content' \in [Ops -> Content]
      /\ fault \subseteq fault' /\ fault' \subseteq Ops /\ mishaps' \in Nat
  BY <1>2 DEF IInv, TypeOK, Row, Archives
<1> QED
  BY <1>1, <1>2, <1>3, <1>5, <1>6, <1>7, WorkerKeeps DEF world

LEMMA WorkerInv == ASSUME IInv, NEW o \in Ops, WorkerStep(o) PROVE IInv'
BY BeginInv, LookInv, CheckInv, ListInv, CheckpointsInv, LookListedInv, OpenInv, WriteInv,
   AgainInv, BrokenInv, LookReadyInv, PublishInv, SyncInv, CompleteInv, DropInv, CancelledInv,
   EndInv DEF WorkerStep

-----------------------------------------------------------------------------
(* Requests, the world outside and the daemon process *)

LEMMA InitInv == Init => IInv
<1> SUFFICES ASSUME Init PROVE IInv
  OBVIOUS
<1>1. "accepted" \in {Phases[i] : i \in 1..7}
  BY PhaseSet DEF Early
<1>2. Nothing \in Content /\ [f \in Files |-> 1] \in Content
  BY DEF Nothing, Content
<1>3. TypeOK
  BY <1>1, <1>2 DEF Init, TypeOK, States, PCs
<1>4. ASSUME NEW o \in Ops
      PROVE  /\ row[o].state = "absent" /\ row[o].phase = "accepted"
             /\ pc[o] = "idle" /\ partial[o] = "none" /\ archive[o] = "none"
             /\ o \notin recorded
  BY DEF Init
<1>5. ASSUME NEW o \in Ops PROVE OpInv(o)
  BY <1>4 DEF OpInv, PlaceInv, RowInv, FileInv, CauseInv, SnapInv, Writing, Before, Closed
<1>6. WorldInv
  BY DEF Init, WorldInv
<1> QED
  BY <1>3, <1>5, <1>6 DEF IInv

LEMMA StutterInv == IInv /\ UNCHANGED vars => IInv'
<1> SUFFICES ASSUME IInv, UNCHANGED vars PROVE IInv'
  OBVIOUS
<1> USE DEF vars, store, world, files, process
<1>1. TypeOK' /\ WorldInv'
  BY DEF IInv, TypeOK, WorldInv
<1>2. ASSUME NEW o \in Ops PROVE OpInv(o)'
  BY DEF IInv, OpInv, PlaceInv, RowInv, FileInv, CauseInv, SnapInv, ListedAt
<1> QED
  BY <1>1, <1>2 DEF IInv

LEMMA CreateInv == ASSUME IInv, NEW o \in Ops, Create(o) PROVE IInv'
<1> DEFINE r == [row[o] EXCEPT !.state = "queued"]
<1>1. r \in Row /\ r.state = "queued" /\ r.phase = row[o].phase
  BY DEF IInv, TypeOK, Row, States
<1>2. /\ row' = [row EXCEPT ![o] = r] /\ pc' = [pc EXCEPT ![o] = "begin"]
      /\ row[o].state = "absent" /\ current' = current \cup {o}
      /\ UNCHANGED <<recorded, source, was, partial, archive, content>>
      /\ UNCHANGED <<unity, moved, daemon, lock, listing, fault, died, mishaps>>
  BY DEF Create, SetState, files
<1> HIDE DEF r
<1>3. /\ row'[o] = r /\ pc'[o] = "begin"
      /\ \A a \in Ops \ {o} : row'[a] = row[a] /\ pc'[a] = pc[a]
  BY <1>2 DEF IInv, TypeOK
<1>4. TypeOK'
  BY <1>1, <1>2 DEF IInv, TypeOK, Row, PCs
<1>5. OpInv(o)'
  BY <1>1, <1>2, <1>3 DEF IInv, OpInv, PlaceInv, RowInv, FileInv, CauseInv, SnapInv, Writing,
     Closed
<1>6. WorldInv' /\ OnlyItsOwn(o)
  BY <1>2, <1>3 DEF IInv, WorldInv, OnlyItsOwn
<1> QED
  BY <1>4, <1>5, <1>6, OwnStep

LEMMA CancelInv == ASSUME IInv, NEW o \in Ops, Cancel(o) PROVE IInv'
<1> DEFINE s == CASE row[o].state = "queued"      -> "cancelled"
                  [] row[o].state = "interrupted" -> "interrupted"
                  [] OTHER                        -> "cancelling"
           r == [state |-> s, phase |-> row[o].phase, cancel |-> TRUE]
<1>1. r \in Row
  BY DEF IInv, TypeOK, Row, States, Terminal
<1>2. /\ row' = [row EXCEPT ![o].cancel = TRUE, ![o].state = s]
      /\ Live(o) /\ mishaps' = mishaps + 1
      /\ UNCHANGED <<recorded, source, was, partial, archive, content>>
      /\ UNCHANGED <<current, unity, moved, daemon, pc, lock, listing, fault, died>>
  BY DEF Cancel, Mishap, files, world, process, IInv, TypeOK
<1>3. row'[o] = r /\ \A a \in Ops \ {o} : row'[a] = row[a]
  <2>1. row \in [Ops -> Row]
    BY DEF IInv, TypeOK, Row
  <2> HIDE DEF s
  <2>2. [row[o] EXCEPT !.cancel = TRUE, !.state = s] = r
    <3> DEFINE x == [row[o] EXCEPT !.cancel = TRUE, !.state = s]
    <3>1. row[o] \in Row /\ s \in States
      BY <1>1, <2>1 DEF Row
    <3>2. x \in Row /\ x.state = s /\ x.phase = row[o].phase /\ x.cancel = TRUE
      BY <3>1 DEF Row
    <3> HIDE DEF x
    <3>3. x = [state |-> x.state, phase |-> x.phase, cancel |-> x.cancel]
      BY <3>2 DEF Row
    <3> QED
      BY <3>2, <3>3 DEF x
  <2>3. row' = [row EXCEPT ![o] = [row[o] EXCEPT !.cancel = TRUE, !.state = s]]
    BY <1>2, <2>1
  <2> HIDE DEF r
  <2>4. row' = [row EXCEPT ![o] = r]
    BY <2>2, <2>3
  <2> QED
    BY <2>1, <2>4
<1>4. row' \in [Ops -> Row]
  BY <1>1, <1>2, <1>3 DEF IInv, TypeOK, Row
<1>5. TypeOK'
  BY <1>2, <1>4 DEF IInv, TypeOK, Row
<1>6. PlaceInv(o)' /\ RowInv(o)'
  BY <1>2, <1>3 DEF IInv, OpInv, PlaceInv, RowInv, Live, Terminal
<1>7. FileInv(o)' /\ CauseInv(o)' /\ SnapInv(o)'
  BY <1>2, <1>3 DEF IInv, OpInv, RowInv, FileInv, CauseInv, SnapInv, ListedAt, Live, Terminal,
     Closed
<1>8. WorldInv' /\ OnlyItsOwn(o)
  BY <1>2, <1>3 DEF IInv, WorldInv, OnlyItsOwn
<1> QED
  BY <1>5, <1>6, <1>7, <1>8, OwnStep DEF OpInv

\* Versions only grow, so what was listed before stays at most what there is.
LEMMA EditInv == ASSUME IInv, Edit PROVE IInv'
<1>1. /\ source' \in Content /\ source'[1] \in Nat /\ source[1] \in Nat
      /\ source'[1] >= source[1]
  BY BackupAssumption DEF IInv, TypeOK, Edit, Content
<1>2. /\ was' = was \cup {source'} /\ mishaps' = mishaps + 1
      /\ UNCHANGED <<row, recorded, partial, archive, content>>
      /\ UNCHANGED <<current, unity, moved, daemon, pc, lock, listing, fault, died>>
  BY DEF Edit, Mishap, store, world, process
<1>3. TypeOK' /\ WorldInv'
  BY <1>1, <1>2 DEF IInv, TypeOK, WorldInv
<1>4. ASSUME NEW o \in Ops PROVE OpInv(o)'
  <2>1. PlaceInv(o)' /\ RowInv(o)' /\ FileInv(o)' /\ CauseInv(o)'
    BY <1>2 DEF IInv, OpInv, PlaceInv, RowInv, FileInv, CauseInv
  <2>2. \A s \in was : s \in was' /\ (ListedAt(o, s) => ListedAt(o, s)')
    <3>1. \A s \in was : s[1] \in Nat
      BY BackupAssumption DEF IInv, TypeOK, Content
    <3> QED
      BY <1>1, <1>2, <3>1 DEF ListedAt
  <2>3. pc[o] = "list2" => listing[o][1] <= source'[1]
    <3>1. listing[o][1] \in Nat
      BY BackupAssumption DEF IInv, TypeOK, Content
    <3> QED
      BY <1>1, <3>1 DEF IInv, OpInv, SnapInv
  <2>4. SnapInv(o)'
    BY <1>2, <2>2, <2>3 DEF IInv, OpInv, SnapInv
  <2> QED
    BY <2>1, <2>4 DEF OpInv
<1> QED
  BY <1>3, <1>4 DEF IInv

LEMMA TouchInv == ASSUME IInv, Touch PROVE IInv'
<1>1. /\ moved' = TRUE /\ mishaps' = mishaps + 1 /\ unity' \in BOOLEAN /\ current' \subseteq Ops
      /\ UNCHANGED <<row, recorded, source, was, partial, archive, content>>
      /\ UNCHANGED <<daemon, pc, lock, listing, fault, died>>
  BY DEF Touch, Mishap, store, files, process, IInv, TypeOK
<1>2. TypeOK' /\ WorldInv'
  BY <1>1 DEF IInv, TypeOK, WorldInv
<1>3. ASSUME NEW o \in Ops PROVE OpInv(o)'
  BY <1>1 DEF IInv, OpInv, PlaceInv, RowInv, FileInv, CauseInv, SnapInv, ListedAt
<1> QED
  BY <1>2, <1>3 DEF IInv

LEMMA DamageInv == ASSUME IInv, Damage PROVE IInv'
<1>1. /\ partial' \in [Ops -> Archives] /\ archive' \in [Ops -> Archives]
      /\ \A a \in Ops : /\ partial'[a] # "none" => partial[a] # "none"
                        /\ archive'[a] # "none" => archive[a] # "none"
                        /\ archive'[a] = "whole" => archive[a] = "whole"
  BY DEF Damage, IInv, TypeOK, Archives
<1>2. /\ mishaps' = mishaps + 1
      /\ UNCHANGED <<row, recorded, source, was, content>>
      /\ UNCHANGED <<current, unity, moved, daemon, pc, lock, listing, fault, died>>
  BY DEF Damage, Mishap, store, world, process
<1>3. TypeOK' /\ WorldInv'
  BY <1>1, <1>2 DEF IInv, TypeOK, WorldInv, Archives
<1>4. ASSUME NEW o \in Ops PROVE OpInv(o)'
  BY <1>1, <1>2 DEF IInv, OpInv, PlaceInv, RowInv, FileInv, CauseInv, SnapInv, ListedAt
<1> QED
  BY <1>3, <1>4 DEF IInv

LEMMA CrashInv == ASSUME IInv, Crash PROVE IInv'
<1>1. /\ daemon' = "down" /\ died' = TRUE /\ mishaps' = mishaps + 1
      /\ pc' = [o \in Ops |-> "idle"] /\ lock' = None
      /\ listing' = [o \in Ops |-> Nothing]
      /\ UNCHANGED <<row, recorded, source, was, partial, archive, content>>
      /\ UNCHANGED <<current, unity, moved, fault>>
  BY DEF Crash, Mishap, store, world, files
<1>2. Nothing \in Content
  BY DEF Nothing, Content
<1>3. TypeOK' /\ WorldInv'
  BY <1>1, <1>2 DEF IInv, TypeOK, WorldInv, PCs
<1>4. ASSUME NEW o \in Ops PROVE OpInv(o)'
  <2>1. pc'[o] = "idle"
    BY <1>1
  <2> QED
    BY <1>1, <2>1 DEF IInv, OpInv, PlaceInv, RowInv, FileInv, CauseInv, SnapInv, Writing, Before
<1> QED
  BY <1>3, <1>4 DEF IInv

LEMMA StartInv == ASSUME IInv, Start PROVE IInv'
<1>1. /\ daemon = "down" /\ daemon' = "up"
      /\ pc' = [o \in Ops |-> IF Live(o) THEN "begin" ELSE "idle"]
      /\ row' = [o \in Ops |-> IF Live(o) THEN [row[o] EXCEPT !.state = "recovering"]
                               ELSE row[o]]
      /\ UNCHANGED <<recorded, source, was, partial, archive, content, listing, lock>>
      /\ UNCHANGED <<current, unity, moved, fault, died, mishaps>>
  BY DEF Start, world, files
<1>2. ASSUME NEW o \in Ops
      PROVE  /\ row'[o] \in Row /\ row'[o].phase = row[o].phase
             /\ row'[o].state = IF Live(o) THEN "recovering" ELSE row[o].state
             /\ pc'[o] = IF Live(o) THEN "begin" ELSE "idle"
  <2>1. /\ pc'[o] = IF Live(o) THEN "begin" ELSE "idle"
        /\ row'[o] = IF Live(o) THEN [row[o] EXCEPT !.state = "recovering"] ELSE row[o]
    BY <1>1
  <2>2. row[o] \in Row
    BY DEF IInv, TypeOK, Row
  <2>3. /\ [row[o] EXCEPT !.state = "recovering"] \in Row
        /\ [row[o] EXCEPT !.state = "recovering"].state = "recovering"
        /\ [row[o] EXCEPT !.state = "recovering"].phase = row[o].phase
    BY <2>2 DEF Row, States
  <2> QED
    BY <2>1, <2>2, <2>3
<1>3. row' \in [Ops -> Row]
  BY <1>1, <1>2
<1>4. TypeOK' /\ WorldInv'
  BY <1>1, <1>3 DEF IInv, TypeOK, WorldInv, Row, PCs
<1>5. died
  BY <1>1 DEF IInv, WorldInv
<1>6. ASSUME NEW o \in Ops PROVE OpInv(o)'
  BY <1>1, <1>2, <1>5 DEF IInv, OpInv, PlaceInv, RowInv, FileInv, CauseInv, SnapInv, Live,
     Terminal, Writing, Before
<1> QED
  BY <1>4, <1>6 DEF IInv

-----------------------------------------------------------------------------
(* The invariant *)

LEMMA NextInv == IInv /\ [Next]_vars => IInv'
BY CreateInv, CancelInv, WorkerInv, LockInv, FaultInv, EditInv, TouchInv, DamageInv, CrashInv,
   StartInv, StutterInv DEF Next

\* The inductive invariant holds for any number of backups, saves and mishaps.
THEOREM Invariance == Spec => []IInv
<1>1. Init => IInv
  BY InitInv
<1>2. IInv /\ [Next]_vars => IInv'
  BY NextInv
<1> QED
  BY <1>1, <1>2, PTL DEF Spec

\* Every row, file and inventory stays well typed.
THEOREM TypeCorrect == Spec => []TypeOK
<1>1. IInv => TypeOK
  BY DEF IInv
<1> QED
  BY <1>1, Invariance, PTL

\* The two inventories of backups.create make the archive one state of the project,
\* however an editor saves between the readings and across deaths and resumptions.
THEOREM Snapshot == Spec => []ArchiveIsASnapshot
<1>1. IInv => ArchiveIsASnapshot
  BY DEF IInv, OpInv, FileInv, SnapInv, ArchiveIsASnapshot
<1> QED
  BY <1>1, Invariance, PTL

\* complete_backup_create records a backup exactly when its Operation succeeds, and a
\* cancelled one has no archive, and a partial one only if a process died.
THEOREM Truthful == Spec => []ReportsAreTrue
<1>1. IInv => ReportsAreTrue
  BY DEF IInv, OpInv, RowInv, FileInv, ReportsAreTrue
<1> QED
  BY <1>1, Invariance, PTL

\* A finished Operation leaves an archive without its record only after a failing step
\* or a change of the project's row or of Unity: never by deaths and cancels alone.
THEOREM Orphan == Spec => []OrphanForAReason
<1>1. IInv => OrphanForAReason
  BY DEF IInv, OpInv, RowInv, FileInv, CauseInv, OrphanForAReason, Terminal
<1> QED
  BY <1>1, Invariance, PTL

-----------------------------------------------------------------------------
(* The journal of a backup *)

\* What a row may become, whoever writes it: an end is final, the phase never goes back, a
\* cancel is never withdrawn, and no row goes.
Forward(r, s) ==
    /\ r.state \in Terminal => s = r
    /\ Step(s.phase) >= Step(r.phase)
    /\ r.cancel => s.cancel
    /\ s.state = "absent" => r.state = "absent"

\* In every step, of a worker, a client or a start after a death.
JournalGoesForward == [][\A o \in Ops : Forward(row[o], row'[o])]_vars

\* How a worker writes the row of its backup: an open one gets a state or a later phase.
Journals(o) ==
    \/ UNCHANGED row
    \/ /\ row[o].state \notin Terminal
       /\ \/ \E s \in States \ {"absent"} : SetState(o, s)
          \/ \E p \in {Phases[i] : i \in 1..7} :
                Step(p) >= Step(row[o].phase) /\ row' = [row EXCEPT ![o].phase = p]
          \/ \E s \in States \ {"absent"} :
                row' = [row EXCEPT ![o].cancel = TRUE, ![o].state = s]
          \/ row' = [row EXCEPT ![o].state = "succeeded", ![o].phase = "state_committed"]

LEMMA StepNat == \A p \in {Phases[i] : i \in 1..7} : Step(p) \in Nat
BY StepIs, PhaseSet DEF Early, Closed

LEMMA SameIsForward == ASSUME TypeOK, NEW o \in Ops PROVE Forward(row[o], row[o])
<1>1. Step(row[o].phase) \in Nat
  BY StepNat DEF TypeOK
<1> QED
  BY <1>1 DEF Forward

LEMMA WritesForward ==
    ASSUME TypeOK, NEW o \in Ops, Journals(o), NEW a \in Ops
    PROVE  Forward(row[a], row'[a])
<1>1. row \in [Ops -> Row] /\ Step(row[o].phase) \in Nat
  BY StepNat DEF TypeOK, Row
<1>2. CASE UNCHANGED row \/ (a # o /\ row' # row)
  <2>1. row'[a] = row[a]
    BY <1>1, <1>2 DEF Journals, SetState
  <2> QED
    BY <2>1, SameIsForward
<1>3. CASE a = o /\ row[o].state \notin Terminal
  <2>1. ASSUME NEW s \in States \ {"absent"}, SetState(o, s) PROVE Forward(row[o], row'[o])
    BY <1>1, <1>3, <2>1 DEF SetState, Forward, Row
  <2>2. ASSUME NEW p \in {Phases[i] : i \in 1..7}, Step(p) >= Step(row[o].phase),
               row' = [row EXCEPT ![o].phase = p]
        PROVE  Forward(row[o], row'[o])
    BY <1>1, <1>3, <2>2 DEF Forward, Row
  <2>3. ASSUME NEW s \in States \ {"absent"},
               row' = [row EXCEPT ![o].cancel = TRUE, ![o].state = s]
        PROVE  Forward(row[o], row'[o])
    BY <1>1, <1>3, <2>3 DEF Forward, Row
  <2>4. ASSUME row' = [row EXCEPT ![o].state = "succeeded", ![o].phase = "state_committed"]
        PROVE  Forward(row[o], row'[o])
    <3>1. Step("state_committed") >= Step(row[o].phase)
      <4>1. row[o].phase \in Early \cup Closed \cup {"archive_ready"}
        BY PhaseSet DEF TypeOK
      <4> QED
        BY <4>1, StepIs DEF Early, Closed
    <3> QED
      BY <1>1, <1>3, <2>4, <3>1 DEF Forward, Row
  <2> QED
    BY <1>2, <1>3, <2>1, <2>2, <2>3, <2>4 DEF Journals
<1> QED
  BY <1>2, <1>3 DEF Journals

\* A place where a worker writes the row is one where the row has not ended.
LEMMA CheckpointWrites ==
    ASSUME IInv, NEW o \in Ops, NEW here,
           here \in {"listed", "archiving", "written", "intent", "published"},
           NEW p \in {Phases[i] : i \in 1..7}, NEW there, Checkpoint(o, here, p, there)
    PROVE  Journals(o)
<1>1. pc[o] = here /\ row' = IF Reached(o, p) THEN row ELSE [row EXCEPT ![o].phase = p]
  BY DEF Checkpoint, At
<1>2. row[o].state \notin Terminal
  BY <1>1 DEF IInv, OpInv, RowInv, Terminal
<1>3. Step(p) \in Nat /\ Step(row[o].phase) \in Nat
  BY StepNat DEF IInv, TypeOK
<1>4. ~Reached(o, p) => Step(p) >= Step(row[o].phase)
  BY <1>3 DEF Reached
<1> QED
  BY <1>1, <1>2, <1>4 DEF Journals

LEMMA StateWrites ==
    ASSUME NEW o, NEW s \in States \ {"absent"}, Live(o), SetState(o, s)
    PROVE  Journals(o)
BY DEF Live, Journals

LEMMA WorkerWrites == ASSUME IInv, NEW o \in Ops, WorkerStep(o) PROVE Journals(o)
<1>1. {"inventory_ready", "archiving", "archive_ready", "publish_intent", "archive_published",
       "state_committed"} \subseteq {Phases[j] : j \in 1..7}
  BY PhaseSet DEF Early, Closed
<1>2. {"running", "interrupted", "failed", "cancelled"} \subseteq States \ {"absent"}
  BY DEF States, Terminal
<1>3. CASE Begin(o)
  <2>1. row[o].state \in {"queued", "recovering"} => Live(o)
    BY DEF Live, Terminal
  <2>2. UNCHANGED row \/ (Live(o) /\ SetState(o, "running"))
    BY <1>3, <2>1 DEF Begin, Decide, store
  <2> QED
    BY <1>2, <2>2, StateWrites DEF Journals
<1>4. CASE \/ Checkpoint(o, "listed", "inventory_ready", "lookListed")
           \/ Checkpoint(o, "archiving", "archiving", "open")
           \/ Checkpoint(o, "written", "archive_ready", "lookReady")
           \/ Checkpoint(o, "intent", "publish_intent", "publish")
           \/ Checkpoint(o, "published", "archive_published", "complete")
  BY <1>1, <1>4, CheckpointWrites
<1>5. CASE \/ Look(o) \/ Check(o) \/ LookListed(o) \/ Broken(o) \/ LookReady(o) \/ Sync(o)
           \/ Again(o, "again1", 1, "again2") \/ Again(o, "again2", 2, "written")
  BY <1>5 DEF Look, Check, LookListed, Broken, LookReady, Sync, Again, Decide, Writes, store,
     Journals
<1>6. CASE \/ List(o, "list1", 1, "list2") \/ List(o, "list2", 2, "listed")
           \/ Writes(o, "open", "torn", "write1") \/ Writes(o, "drop", "none", "cancelled")
           \/ Write(o, "write1", 1, "torn", "write2") \/ Write(o, "write2", 2, "whole", "again1")
           \/ Publish(o)
  BY <1>6 DEF List, Writes, Write, Publish, Decide, store, Journals
<1>7. CASE Complete(o)
  <2>1. /\ pc[o] = "complete"
        /\ row' = [row EXCEPT ![o].state = "succeeded", ![o].phase = "state_committed"]
    BY <1>7 DEF Complete, At
  <2>2. row[o].state \notin Terminal
    BY <2>1 DEF IInv, OpInv, RowInv, Terminal
  <2> QED
    BY <2>1, <2>2 DEF Journals
<1>8. CASE Cancelled(o)
  <2>1. UNCHANGED row \/ (Live(o) /\ SetState(o, "cancelled"))
    BY <1>8 DEF Cancelled, Decide, store
  <2> QED
    BY <1>2, <2>1, StateWrites DEF Journals
<1>9. CASE End(o, "defer", "interrupted") \/ End(o, "fail", "failed")
  <2>1. \/ UNCHANGED row
        \/ Live(o) /\ \E s \in {"interrupted", "failed"} : SetState(o, s)
    BY <1>9 DEF End
  <2> QED
    BY <1>2, <2>1, StateWrites DEF Journals
<1> QED
  BY <1>3, <1>4, <1>5, <1>6, <1>7, <1>8, <1>9 DEF WorkerStep

\* begin_backup_create, the checkpoints, cancel_operation and recover_backup_operations: a
\* backup that ended is never opened again, by a late worker or by a start; no retry takes
\* the journal back behind a phase it recorded; and a cancel once asked for stays asked for,
\* whatever the daemon lives through.
THEOREM JournalForward == Spec => JournalGoesForward
<1>1. ASSUME IInv, [Next]_vars, NEW a \in Ops PROVE Forward(row[a], row'[a])
  <2>1. CASE \E o \in Ops : WorkerStep(o)
    BY <1>1, <2>1, WorkerWrites, WritesForward DEF IInv
  <2>2. CASE \E o \in Ops : Create(o)
    <3>1. PICK o \in Ops : row[o].state \notin Terminal /\ SetState(o, "queued")
      BY <2>2 DEF Create, Terminal
    <3>2. Journals(o)
      BY <3>1 DEF Journals, States
    <3> QED
      BY <1>1, <3>2, WritesForward DEF IInv
  <2>3. CASE \E o \in Ops : Cancel(o)
    <3>1. PICK o \in Ops : Cancel(o)
      BY <2>3
    <3>2. /\ row[o].state \notin Terminal
          /\ \E s \in {"cancelled", "interrupted", "cancelling"} :
                row' = [row EXCEPT ![o].cancel = TRUE, ![o].state = s]
      BY <3>1 DEF Cancel, Live
    <3>3. {"cancelled", "interrupted", "cancelling"} \subseteq States \ {"absent"}
      BY DEF States, Terminal
    <3>4. Journals(o)
      BY <3>2, <3>3 DEF Journals
    <3> QED
      BY <1>1, <3>1, <3>4, WritesForward DEF IInv
  <2>4. CASE Start
    <3>1. row'[a] = IF Live(a) THEN [row[a] EXCEPT !.state = "recovering"] ELSE row[a]
      BY <2>4 DEF Start
    <3>2. row[a] \in Row /\ Step(row[a].phase) \in Nat
      BY <1>1, StepNat DEF IInv, TypeOK, Row
    <3>3. Live(a) => Forward(row[a], [row[a] EXCEPT !.state = "recovering"])
      BY <3>2 DEF Live, Forward, Row
    <3> QED
      BY <1>1, <3>1, <3>3, SameIsForward DEF IInv
  <2>5. CASE UNCHANGED row
    BY <1>1, <2>5, SameIsForward DEF IInv
  <2>6. (\E o \in Ops : Lock(o) \/ Fault(o)) \/ UNCHANGED vars => UNCHANGED row
    BY DEF Lock, Fault, store, vars
  <2>7. Edit \/ Touch \/ Damage \/ Crash => UNCHANGED row
    BY DEF Edit, Touch, Damage, Crash, store
  <2> QED
    BY <1>1, <2>1, <2>2, <2>3, <2>4, <2>5, <2>6, <2>7 DEF Next
<1>2. ASSUME IInv, [Next]_vars PROVE [\A o \in Ops : Forward(row[o], row'[o])]_vars
  BY <1>1, <1>2
<1> QED
  BY <1>2, Invariance, PTL DEF Spec, JournalGoesForward
=============================================================================
