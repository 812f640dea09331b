---------------------------- MODULE ExtensionsProofs ----------------------------
(***************************************************************************)
(* Theorems about Extensions for any number of tasks, starts, commits and  *)
(* deaths of the daemon.                                                   *)
(*                                                                         *)
(* IInv adds three things to the properties it proves.  NoRowInv: where    *)
(* there is no instance there is no lease.  KnownInst: nothing names an    *)
(* instance that was not prepared yet, so a new instance is new to all.    *)
(* HostInv: the excuse that PhantomForAReason wants of a running instance  *)
(* without a process holds already of one that is about to be marked so.   *)
(* LeasesOnlyEnd is about every step that touches a lease.                 *)
(*                                                                         *)
(* The last part is about EventsLive, by which the pages of the GUI learn  *)
(* of extensions and of Operations.  LiveIInv says, for each hop from the  *)
(* tables to the page, how far behind it may be and who is then about to   *)
(* tell the next one: a page that is not to be read again shows what the   *)
(* store has, or the change is on the wire or is the subscription's to     *)
(* send, and a subscription sleeps only on what it has sent.               *)
(***************************************************************************)
EXTENDS Extensions, EventsLive, FiniteSetTheorems, SequenceTheorems,
        WellFoundedInduction, TLAPS

NoRowInv == row.inst = 0 => row.cancelled /\ row.state # "running"

KnownInst ==
    /\ row.inst <= last /\ host.inst <= last
    /\ \A t \in Tasks : task[t].inst <= last

\* An instance is on record as running, or one mark_instance_running away from it.
SoonRunning ==
    /\ row.inst # 0
    /\ \/ row.state = "running"
       \/ /\ row.state = "starting" /\ ~row.cancelled
          /\ \E t \in Tasks : task[t].pc = "ready" /\ task[t].inst = row.inst

HostInv == daemon # "down" /\ SoonRunning =>
               host.inst = row.inst \/ displaced \/ Pending(row.inst)

IInv == TypeOK /\ AuthorityIsCurrent /\ NoRowInv /\ KnownInst /\ HostInv

-----------------------------------------------------------------------------
(* Types of the records, one by one *)

ExtType  == [desired : {"enabled", "disabled", "uninstalling", "absent"},
             quarantined : BOOLEAN, granted : BOOLEAN, era : Nat]
RowType  == [inst : Insts \cup {0}, era : Nat, cancelled : BOOLEAN,
             state : {"stopped", "starting", "running", "stopping", "crashed"}]
HostType == [inst : Insts \cup {0}, alive : BOOLEAN, due : BOOLEAN]
TaskType == [pc : {"idle", "check", "prepare", "start", "ready", "crashed",
                   "stop", "delete", "reread", "purge", "terminate"},
             inst : Insts \cup {0}, then : {"done", "restart", "purge"}]
MaintType == [pc : {"idle", "renew", "update", "stop", "crash"}, inst : Insts \cup {0}]

LEMMA Constants ==
    /\ NoRow \in RowType /\ NoRow.inst = 0 /\ NoRow.state = "stopped" /\ NoRow.cancelled
    /\ NoHost \in HostType /\ NoHost.inst = 0
    /\ Idle \in TaskType /\ Idle.pc = "idle" /\ Idle.inst = 0 /\ Quiet \in MaintType
    /\ \A i \in Insts \cup {0} : i \in Nat
BY ExtensionsAssumption DEF NoRow, RowType, NoHost, HostType, Idle, TaskType, Quiet,
   MaintType, Insts

LEMMA Types ==
    ASSUME TypeOK
    PROVE  /\ ext \in ExtType /\ row \in RowType /\ host \in HostType
           /\ task \in [Tasks -> TaskType] /\ maint \in MaintType /\ last \in Nat
BY ExtensionsAssumption DEF TypeOK, ExtType, RowType, HostType, TaskType, MaintType

LEMMA TypesBack ==
    ASSUME TypeOK, ext' \in ExtType, row' \in RowType, host' \in HostType,
           task' \in [Tasks -> TaskType], maint' \in MaintType,
           crashes' \in 0..3, uninstall' \in BOOLEAN, sent' \in BOOLEAN,
           daemon' \in {"down", "recovering", "up"}, sleepers' \in Nat,
           last' \in 0..MaxStarts, displaced' \in BOOLEAN, exited' \in BOOLEAN, kills' \in Nat
    PROVE  TypeOK'
BY DEF TypeOK, ExtType, RowType, HostType, TaskType, MaintType

LEMMA TaskFields ==
    ASSUME TypeOK, NEW t \in Tasks
    PROVE  /\ task[t].inst \in Insts \cup {0}
           /\ task[t].then \in {"done", "restart", "purge"}
BY DEF TypeOK

LEMMA InitInv == Init => IInv
<1>1. SUFFICES ASSUME Init PROVE IInv
  OBVIOUS
<1>2. TypeOK
  <2>1. /\ ext \in ExtType /\ row \in RowType /\ host \in HostType
        /\ task \in [Tasks -> TaskType] /\ maint \in MaintType
    BY <1>1, Constants DEF Init, ExtType
  <2>2. crashes \in 0..3 /\ sleepers \in Nat /\ last \in 0..MaxStarts /\ kills \in Nat
    BY <1>1, ExtensionsAssumption DEF Init
  <2>3. /\ uninstall \in BOOLEAN /\ sent \in BOOLEAN /\ displaced \in BOOLEAN /\ exited \in BOOLEAN
        /\ daemon \in {"down", "recovering", "up"}
    BY <1>1 DEF Init
  <2> QED
    BY <2>1, <2>2, <2>3 DEF TypeOK, ExtType, RowType, HostType, TaskType, MaintType
<1>3. AuthorityIsCurrent /\ NoRowInv /\ KnownInst /\ HostInv
  BY <1>1 DEF Init, AuthorityIsCurrent, NoRowInv, KnownInst, HostInv, SoonRunning, NoRow, NoHost,
     Idle
<1> QED
  BY <1>2, <1>3 DEF IInv

LEMMA StutterInv == IInv /\ UNCHANGED vars => IInv'
BY DEF IInv, TypeOK, AuthorityIsCurrent, NoRowInv, KnownInst, HostInv, SoonRunning, Pending,
       vars, store

-----------------------------------------------------------------------------
(* Steps that only move tasks or the maintenance loop *)

\* A task goes on, and nothing that the others see changes.
LEMMA TaskMoves ==
    ASSUME IInv, NEW t \in Tasks, NEW r \in TaskType, task' = [task EXCEPT ![t] = r],
           task[t].pc \notin {"delete", "crashed"}, r.pc # "ready", r.inst <= last,
           UNCHANGED <<ext, row, crashes, uninstall, sent, daemon, host, maint, last, displaced,
                       exited, kills>>,
           sleepers' \in Nat
    PROVE  IInv'
<1>1. /\ task'[t] = r /\ task' \in [Tasks -> TaskType]
      /\ \A u \in Tasks \ {t} : task'[u] = task[u]
  BY Types DEF IInv
<1>2. TypeOK'
  <2>1. /\ ext' \in ExtType /\ row' \in RowType /\ host' \in HostType /\ maint' \in MaintType
    BY Types DEF IInv
  <2> QED
    BY <1>1, <2>1, TypesBack DEF IInv, TypeOK
<1>3. AuthorityIsCurrent' /\ NoRowInv'
  BY DEF IInv, AuthorityIsCurrent, NoRowInv
<1>4. KnownInst'
  BY <1>1 DEF IInv, KnownInst
<1>5. SoonRunning' => SoonRunning
  BY <1>1 DEF SoonRunning
<1>6. Pending(row.inst) => Pending(row.inst)'
  BY <1>1 DEF Pending
<1>7. HostInv'
  BY <1>5, <1>6 DEF IInv, HostInv
<1> QED
  BY <1>2, <1>3, <1>4, <1>7 DEF IInv

\* A task goes to another place with the instance it has.
LEMMA TaskGoes ==
    ASSUME IInv, NEW t \in Tasks,
           NEW where \in {"idle", "check", "prepare", "purge", "stop", "reread"}, Go(t, where),
           task[t].pc \notin {"delete", "crashed"},
           UNCHANGED <<ext, row, crashes, uninstall, sent, daemon, host, maint, last, displaced,
                       exited, kills>>,
           sleepers' \in Nat
    PROVE  IInv'
<1> DEFINE r == [pc |-> where, inst |-> task[t].inst, then |-> task[t].then]
<1>1. r \in TaskType /\ r.pc = where /\ r.inst = task[t].inst
  BY TaskFields DEF IInv, TaskType
<1>2. task' = [task EXCEPT ![t] = r]
  BY DEF Go, Put
<1>3. task[t].inst <= last
  BY DEF IInv, KnownInst
<1> HIDE DEF r
<1> QED
  BY <1>1, <1>2, <1>3, TaskMoves

LEMMA ResendInv == ASSUME IInv, NEW t \in Tasks, Resend(t) PROVE IInv'
<1> DEFINE r == [pc |-> "stop", inst |-> 0, then |-> "done"]
<1>1. r \in TaskType /\ r.pc = "stop" /\ r.inst = 0 /\ 0 <= last
  BY Types DEF TaskType, IInv
<1>2. task' = [task EXCEPT ![t] = r]
  BY DEF Resend, StopThen, Put
<1> HIDE DEF r
<1> QED
  BY <1>1, <1>2, TaskMoves DEF Resend, Request, Untouched, store, IInv, TypeOK

LEMMA RereadInv == ASSUME IInv, NEW t \in Tasks, Reread(t) PROVE IInv'
<1>1. PICK where \in {"check", "idle"} : Go(t, where)
  BY DEF Reread
<1> QED
  BY <1>1, TaskGoes DEF Reread, At, Untouched, store, IInv, TypeOK

LEMMA CheckInv == ASSUME IInv, NEW t \in Tasks, Check(t) PROVE IInv'
<1>1. PICK where \in {"prepare", "idle"} : Go(t, where)
  BY DEF Check
<1> QED
  BY <1>1, TaskGoes DEF Check, At, Untouched, store, IInv, TypeOK

LEMMA WakeInv == ASSUME IInv, NEW t \in Tasks, Wake(t) PROVE IInv'
BY TaskGoes DEF Wake, store, IInv, TypeOK

LEMMA GuestFailsInv == ASSUME IInv, NEW t \in Tasks, GuestFails(t) PROVE IInv'
<1> DEFINE r == [pc |-> "terminate", inst |-> host.inst, then |-> task[t].then]
<1>1. host.inst \in Insts \cup {0} /\ host.inst <= last
  BY DEF IInv, TypeOK, KnownInst
<1>2. r \in TaskType /\ r.pc = "terminate" /\ r.inst = host.inst
  BY <1>1, TaskFields DEF IInv, TaskType
<1>3. task' = [task EXCEPT ![t] = r]
  BY DEF GuestFails, Put
<1> HIDE DEF r
<1> QED
  BY <1>1, <1>2, <1>3, TaskMoves DEF GuestFails, Untouched, store, IInv, TypeOK

-----------------------------------------------------------------------------
(* Requests that commit *)

LEMMA EraStep ==
    ASSUME IInv, NEW c \in ExtType, NewEra(c)
    PROVE  ext' \in ExtType
BY DEF IInv, TypeOK, NewEra, ExtType

LEMMA LeaseStep ==
    ASSUME IInv, NEW state \in {"stopping", row.state}, CancelLease(state)
    PROVE  /\ row' \in RowType /\ row'.cancelled /\ row'.inst = row.inst
           /\ row'.state \in {"stopping", row.state}
           /\ row.inst = 0 => row' = row
<1>1. row \in RowType
  BY Types DEF IInv
<1>2. CASE row.inst = 0
  BY <1>1, <1>2 DEF CancelLease, IInv, NoRowInv
<1>3. CASE row.inst # 0
  <2>1. row' = [row EXCEPT !.cancelled = TRUE, !.state = state]
    BY <1>3 DEF CancelLease
  <2> QED
    BY <1>1, <1>3, <2>1 DEF RowType
<1> QED
  BY <1>2, <1>3

\* A commit cancels the lease, so nothing of what it changes has to be so any more.
LEMMA CommitsInv ==
    ASSUME IInv, NEW t \in Tasks, NEW c \in ExtType, NEW state \in {"stopping", row.state},
           Request(t), NewEra(c), CancelLease(state), NEW r \in TaskType,
           task' = [task EXCEPT ![t] = r], r.pc \in {"check", "stop"}, r.inst <= last,
           uninstall' \in BOOLEAN, sent' \in BOOLEAN, UNCHANGED crashes, Untouched
    PROVE  IInv'
<1> USE DEF Untouched
<1>1. /\ task'[t] = r /\ task' \in [Tasks -> TaskType]
      /\ \A u \in Tasks \ {t} : task'[u] = task[u]
  BY Types DEF IInv
<1>2. /\ row' \in RowType /\ row'.cancelled /\ row'.inst = row.inst
      /\ row'.state \in {"stopping", row.state}
      /\ row.inst = 0 => row' = row
  BY LeaseStep
<1>3. TypeOK'
  <2>1. ext' \in ExtType /\ host' \in HostType /\ maint' \in MaintType
    BY EraStep, Types DEF IInv
  <2> QED
    BY <1>1, <1>2, <2>1, TypesBack DEF IInv, TypeOK
<1>4. AuthorityIsCurrent' /\ NoRowInv'
  BY <1>2 DEF IInv, AuthorityIsCurrent, NoRowInv
<1>5. KnownInst'
  BY <1>1, <1>2 DEF IInv, KnownInst
<1>6. SoonRunning' => SoonRunning
  BY <1>1, <1>2 DEF SoonRunning
<1>7. Pending(row.inst) => Pending(row.inst)'
  BY <1>1, <1>2 DEF Pending, Request
<1>8. HostInv'
  BY <1>2, <1>6, <1>7 DEF IInv, HostInv
<1> QED
  BY <1>3, <1>4, <1>5, <1>8 DEF IInv

LEMMA RequestInst == ASSUME IInv, NEW t \in Tasks PROVE task[t].inst <= last /\ 0 <= last
BY Types DEF IInv, KnownInst

LEMMA EnableInv == ASSUME IInv, NEW t \in Tasks, Enable(t) PROVE IInv'
<1> DEFINE c == [ext EXCEPT !.desired = "enabled", !.quarantined = FALSE]
           r == [pc |-> "check", inst |-> task[t].inst, then |-> task[t].then]
<1>1. c \in ExtType
  BY Types DEF IInv, ExtType
<1>2. r \in TaskType /\ r.pc = "check" /\ r.inst <= last
  BY TaskFields, RequestInst DEF IInv, TaskType
<1>3. NewEra(c) /\ task' = [task EXCEPT ![t] = r]
  BY DEF Enable, Go, Put
<1> HIDE DEF c, r
<1> QED
  BY <1>1, <1>2, <1>3, CommitsInv DEF Enable, IInv, TypeOK

LEMMA DisableInv == ASSUME IInv, NEW t \in Tasks, Disable(t) PROVE IInv'
<1> DEFINE c == [ext EXCEPT !.desired = "disabled"]
           r == [pc |-> "stop", inst |-> 0, then |-> "done"]
<1>1. c \in ExtType
  BY Types DEF IInv, ExtType
<1>2. r \in TaskType /\ r.pc = "stop" /\ r.inst <= last
  BY RequestInst DEF IInv, TaskType
<1>3. NewEra(c) /\ task' = [task EXCEPT ![t] = r]
  BY DEF Disable, StopThen, Put
<1> HIDE DEF c, r
<1> QED
  BY <1>1, <1>2, <1>3, CommitsInv DEF Disable, IInv, TypeOK

LEMMA SetGrantInv == ASSUME IInv, NEW t \in Tasks, SetGrant(t) PROVE IInv'
<1>1. PICK granted \in BOOLEAN : NewEra([ext EXCEPT !.granted = granted])
  BY DEF SetGrant
<1> DEFINE c == [ext EXCEPT !.granted = granted]
           r == [pc |-> "stop", inst |-> 0, then |-> "restart"]
<1>2. c \in ExtType
  BY Types DEF IInv, ExtType
<1>3. r \in TaskType /\ r.pc = "stop" /\ r.inst <= last
  BY RequestInst DEF IInv, TaskType
<1>4. NewEra(c) /\ task' = [task EXCEPT ![t] = r]
  BY <1>1 DEF SetGrant, StopThen, Put
<1> HIDE DEF c, r
<1> QED
  BY <1>2, <1>3, <1>4, CommitsInv DEF SetGrant, IInv, TypeOK

LEMMA UninstallInv == ASSUME IInv, NEW t \in Tasks, Uninstall(t) PROVE IInv'
<1> DEFINE c == [ext EXCEPT !.desired = "uninstalling", !.granted = FALSE]
           r == [pc |-> "stop", inst |-> 0, then |-> "purge"]
<1>1. c \in ExtType
  BY Types DEF IInv, ExtType
<1>2. r \in TaskType /\ r.pc = "stop" /\ r.inst <= last
  BY RequestInst DEF IInv, TaskType
<1>3. NewEra(c) /\ task' = [task EXCEPT ![t] = r]
  BY DEF Uninstall, StopThen, Put
<1> HIDE DEF c, r
<1> QED
  BY <1>1, <1>2, <1>3, CommitsInv DEF Uninstall, IInv, TypeOK

-----------------------------------------------------------------------------
(* Steps that end where no instance runs or is about to *)

LEMMA NotSoonRunning ==
    ASSUME TypeOK', AuthorityIsCurrent', NoRowInv', KnownInst', ~SoonRunning' \/ daemon' = "down"
    PROVE  IInv'
BY DEF IInv, HostInv

\* A step of one task after which there is no instance.
LEMMA NoRowStep ==
    ASSUME IInv, NEW t \in Tasks, NEW r \in TaskType, task' = [task EXCEPT ![t] = r],
           r.inst <= last, row' = NoRow, ext' \in ExtType, uninstall' \in BOOLEAN,
           UNCHANGED <<crashes, sent>>, Untouched
    PROVE  IInv'
<1> USE DEF Untouched
<1>1. /\ task'[t] = r /\ task' \in [Tasks -> TaskType]
      /\ \A u \in Tasks \ {t} : task'[u] = task[u]
  BY Types DEF IInv
<1>2. row' \in RowType /\ row'.inst = 0 /\ row'.cancelled /\ row'.state = "stopped"
  BY Constants
<1>3. TypeOK'
  <2>1. host' \in HostType /\ maint' \in MaintType
    BY Types DEF IInv
  <2> QED
    BY <1>1, <1>2, <2>1, TypesBack DEF IInv, TypeOK
<1>4. AuthorityIsCurrent' /\ NoRowInv' /\ ~SoonRunning'
  BY <1>2 DEF AuthorityIsCurrent, NoRowInv, SoonRunning
<1>5. KnownInst'
  BY <1>1, <1>2, Types DEF IInv, KnownInst
<1> QED
  BY <1>3, <1>4, <1>5, NotSoonRunning

LEMMA DeleteInv == ASSUME IInv, NEW t \in Tasks, Delete(t) PROVE IInv'
<1>1. ext' \in ExtType /\ uninstall' \in BOOLEAN
  BY Types DEF Delete, IInv, TypeOK
<1>2. CASE Done(t)
  BY <1>1, <1>2, Constants, RequestInst, NoRowStep DEF Delete, Done
<1>3. CASE Put(t, "reread", 0, "done") \/ Go(t, "purge")
  <2>1. PICK r \in TaskType : task' = [task EXCEPT ![t] = r] /\ r.inst <= last
    <3>1. CASE Put(t, "reread", 0, "done")
      <4>1. [pc |-> "reread", inst |-> 0, then |-> "done"] \in TaskType
        BY DEF TaskType
      <4> QED
        BY <3>1, <4>1, RequestInst DEF Put
    <3>2. CASE Go(t, "purge")
      <4>1. [pc |-> "purge", inst |-> task[t].inst, then |-> task[t].then] \in TaskType
        BY TaskFields DEF IInv, TaskType
      <4> QED
        BY <3>2, <4>1, RequestInst DEF Go, Put
    <3> QED
      BY <1>3, <3>1, <3>2
  <2> QED
    BY <1>1, <2>1, NoRowStep DEF Delete
<1> QED
  BY <1>2, <1>3 DEF Delete

LEMMA PurgeInv == ASSUME IInv, NEW t \in Tasks, Purge(t) PROVE IInv'
<1>1. ext' \in ExtType /\ uninstall' \in BOOLEAN
  BY Types DEF Purge, IInv, ExtType
<1> QED
  BY <1>1, Constants, RequestInst, NoRowStep DEF Purge, Done

LEMMA PrepareInv == ASSUME IInv, NEW t \in Tasks, Prepare(t) PROVE IInv'
<1> DEFINE Good == ext.desired = "enabled" /\ ~ext.quarantined /\ ext.granted
<1>1. CASE Good
  <2> DEFINE r == [pc |-> "start", inst |-> last', then |-> task[t].then]
  <2>1. last \in Nat /\ last' = last + 1 /\ last' \in Insts /\ last' \in 0..MaxStarts
    BY <1>1, Types, ExtensionsAssumption DEF Prepare, IInv, TypeOK, Insts
  <2>2. r \in TaskType /\ r.pc = "start" /\ r.inst = last'
    BY <2>1, TaskFields DEF IInv, TaskType
  <2>3. task' = [task EXCEPT ![t] = r]
    BY <1>1 DEF Prepare, Put
  <2> HIDE DEF r
  <2>4. /\ task'[t] = r /\ task' \in [Tasks -> TaskType]
        /\ \A u \in Tasks \ {t} : task'[u] = task[u]
    BY <2>2, <2>3, Types DEF IInv
  <2>5. /\ row' \in RowType /\ row'.inst = last' /\ row'.state = "starting"
        /\ row'.era = ext.era /\ row'.inst # 0
    <3>1. row' = [inst |-> last', era |-> ext.era, state |-> "starting", cancelled |-> FALSE]
      BY <1>1 DEF Prepare
    <3>2. ext.era \in Nat /\ last' # 0
      BY <2>1 DEF IInv, TypeOK
    <3> QED
      BY <2>1, <3>1, <3>2 DEF RowType
  <2>6. UNCHANGED <<ext, crashes, uninstall, sent, daemon, host, maint, sleepers, exited, kills>>
        /\ displaced' = FALSE
    BY <1>1 DEF Prepare
  <2>7. TypeOK'
    <3>1. ext' \in ExtType /\ host' \in HostType /\ maint' \in MaintType
      BY <2>6, Types DEF IInv
    <3> QED
      BY <2>1, <2>4, <2>5, <2>6, <3>1, TypesBack DEF IInv, TypeOK
  <2>8. AuthorityIsCurrent' /\ NoRowInv'
    BY <1>1, <2>5, <2>6 DEF AuthorityIsCurrent, NoRowInv
  <2>9. KnownInst'
    <3>1. /\ host.inst \in Nat /\ host.inst <= last
          /\ \A u \in Tasks : task[u].inst \in Nat /\ task[u].inst <= last
      BY Constants, TaskFields DEF IInv, TypeOK, KnownInst
    <3> QED
      BY <2>1, <2>2, <2>4, <2>5, <2>6, <3>1 DEF KnownInst
  <2>10. ~SoonRunning'
    <3>1. \A u \in Tasks : task[u].inst \in Nat /\ task[u].inst <= last
      BY Constants, TaskFields DEF IInv, KnownInst
    <3> QED
      BY <2>1, <2>2, <2>4, <2>5, <3>1 DEF SoonRunning
  <2> QED
    BY <2>7, <2>8, <2>9, <2>10, NotSoonRunning
<1>2. CASE ~Good
  BY <1>2, TaskGoes DEF Prepare, At, IInv, TypeOK
<1> QED
  BY <1>1, <1>2

-----------------------------------------------------------------------------
(* Steps that take, give or end a Host *)

\* A step that leaves the record alone: what is left to show is the excuse.
LEMMA HostSteps ==
    ASSUME IInv, host' \in HostType, host'.inst <= last, task' \in [Tasks -> TaskType],
           \A u \in Tasks : task'[u].inst <= last, maint' \in MaintType,
           displaced' \in BOOLEAN,
           UNCHANGED <<ext, row, uninstall, sent, daemon, sleepers, last, exited, kills>>,
           crashes' \in 0..3, HostInv'
    PROVE  IInv'
<1>1. TypeOK'
  <2>1. ext' \in ExtType /\ row' \in RowType
    BY Types DEF IInv
  <2> QED
    BY <2>1, TypesBack DEF IInv, TypeOK
<1>2. AuthorityIsCurrent' /\ NoRowInv' /\ KnownInst'
  BY DEF IInv, AuthorityIsCurrent, NoRowInv, KnownInst
<1> QED
  BY <1>1, <1>2 DEF IInv

\* What a task that goes from t to r leaves of the tasks.
LEMMA TaskUpdate ==
    ASSUME IInv, NEW t \in Tasks, NEW r \in TaskType, task' = [task EXCEPT ![t] = r],
           r.inst <= last
    PROVE  /\ task'[t] = r /\ task' \in [Tasks -> TaskType]
           /\ \A u \in Tasks \ {t} : task'[u] = task[u]
           /\ \A u \in Tasks : task'[u].inst <= last
BY Types DEF IInv, KnownInst

LEMMA StopInv == ASSUME IInv, NEW t \in Tasks, Stop(t) PROVE IInv'
<1> DEFINE r == [pc |-> "delete", inst |-> task[t].inst, then |-> task[t].then]
<1>1. r \in TaskType /\ r.pc = "delete" /\ r.inst <= last
  BY TaskFields, RequestInst DEF IInv, TaskType
<1>2. task' = [task EXCEPT ![t] = r]
  BY DEF Stop, Go, Put
<1> HIDE DEF r
<1>3. /\ task'[t] = r /\ task' \in [Tasks -> TaskType]
      /\ \A u \in Tasks : task'[u].inst <= last
  BY <1>1, <1>2, TaskUpdate
<1>4. HostInv'
  BY <1>1, <1>3 DEF HostInv, Pending
<1>5. host' \in HostType /\ host'.inst <= last
  BY Constants, RequestInst DEF Stop
<1>6. maint' \in MaintType /\ displaced' \in BOOLEAN /\ crashes' \in 0..3
  BY Types DEF Stop, store, IInv, TypeOK
<1> QED
  BY <1>3, <1>4, <1>5, <1>6, HostSteps DEF Stop, store

LEMMA TerminateInv == ASSUME IInv, NEW t \in Tasks, Terminate(t) PROVE IInv'
<1> DEFINE r == [pc |-> "crashed", inst |-> task[t].inst, then |-> task[t].then]
<1>1. r \in TaskType /\ r.pc = "crashed" /\ r.inst = task[t].inst /\ r.inst <= last
  BY TaskFields, RequestInst DEF IInv, TaskType
<1>2. task' = [task EXCEPT ![t] = r]
  BY DEF Terminate, Go, Put
<1> HIDE DEF r
<1>3. /\ task'[t] = r /\ task' \in [Tasks -> TaskType]
      /\ \A u \in Tasks \ {t} : task'[u] = task[u]
      /\ \A u \in Tasks : task'[u].inst <= last
  BY <1>1, <1>2, TaskUpdate
<1>4. /\ task[t].pc = "terminate" /\ UNCHANGED <<row, daemon, maint>>
      /\ displaced' = (displaced \/ (host.inst \notin {0, task[t].inst} /\ host.inst = row.inst))
  BY DEF Terminate, At, store
<1>5. SoonRunning' => SoonRunning
  BY <1>1, <1>3, <1>4 DEF SoonRunning
<1>6. Pending(row.inst) => Pending(row.inst)'
  BY <1>3, <1>4 DEF Pending
<1>7. ASSUME row.inst # 0, host.inst = row.inst PROVE displaced' \/ Pending(row.inst)'
  BY <1>1, <1>3, <1>4, <1>7 DEF Pending
<1>8. HostInv'
  BY <1>4, <1>5, <1>6, <1>7 DEF HostInv, SoonRunning, IInv
<1>9. host' \in HostType /\ host'.inst <= last
  BY Constants, RequestInst DEF Terminate
<1>10. maint' \in MaintType /\ displaced' \in BOOLEAN /\ crashes' \in 0..3
  BY <1>4, Types DEF Terminate, store, IInv, TypeOK
<1> QED
  BY <1>3, <1>8, <1>9, <1>10, HostSteps DEF Terminate, store

LEMMA StartHostInv == ASSUME IInv, NEW t \in Tasks, StartHost(t) PROVE IInv'
<1> DEFINE At1(where) == [pc |-> where, inst |-> task[t].inst, then |-> task[t].then]
<1>1. PICK where \in {"ready", "crashed"} :
          /\ Go(t, where)
          /\ \/ /\ host' = [inst |-> task[t].inst, alive |-> TRUE, due |-> FALSE]
                /\ Displace /\ where = "ready"
             \/ host' = NoHost /\ Displace /\ where = "crashed"
             \/ UNCHANGED <<host, displaced>> /\ where = "crashed"
  BY DEF StartHost
<1>2. PICK r \in TaskType : r.pc = where /\ r.inst = task[t].inst /\ task' = [task EXCEPT ![t] = r]
  <2>1. At1(where) \in TaskType /\ At1(where).pc = where /\ At1(where).inst = task[t].inst
    BY <1>1, TaskFields DEF IInv, TaskType
  <2> QED
    BY <1>1, <2>1 DEF Go, Put
<1>3. /\ task'[t] = r /\ task' \in [Tasks -> TaskType]
      /\ \A u \in Tasks \ {t} : task'[u] = task[u]
      /\ \A u \in Tasks : task'[u].inst <= last
  BY <1>2, RequestInst, TaskUpdate
<1>4. task[t].pc = "start" /\ UNCHANGED <<row, daemon, maint>>
  BY DEF StartHost, At, store
<1>5. SoonRunning' => SoonRunning \/ (where = "ready" /\ row.inst = task[t].inst)
  BY <1>2, <1>3, <1>4 DEF SoonRunning
<1>6. Pending(row.inst) => Pending(row.inst)'
  BY <1>3, <1>4 DEF Pending
<1>7. HostInv'
  <2>1. SUFFICES ASSUME daemon # "down", row.inst # 0, SoonRunning'
                 PROVE  host'.inst = row.inst \/ displaced' \/ Pending(row.inst)'
    BY <1>4 DEF HostInv, SoonRunning
  <2>2. CASE where = "ready" /\ row.inst = task[t].inst
    BY <1>1, <2>2
  <2>3. CASE SoonRunning
    <3>1. host.inst = row.inst \/ displaced \/ Pending(row.inst)
      BY <2>1, <2>3 DEF IInv, HostInv
    <3>2. UNCHANGED <<host, displaced>> \/ displaced' = (displaced \/ host.inst = row.inst)
      BY <1>1, <2>1 DEF Displace
    <3> QED
      BY <1>6, <3>1, <3>2
  <2> QED
    BY <1>5, <2>1, <2>2, <2>3
<1>8. host' \in HostType /\ host'.inst <= last
  <2>1. [inst |-> task[t].inst, alive |-> TRUE, due |-> FALSE] \in HostType
    BY TaskFields DEF HostType, IInv
  <2>2. host \in HostType /\ host.inst <= last /\ task[t].inst <= last /\ 0 <= last
    BY Types, RequestInst DEF IInv, KnownInst
  <2>3. \/ host' = [inst |-> task[t].inst, alive |-> TRUE, due |-> FALSE]
        \/ host' = NoHost \/ host' = host
    BY <1>1
  <2>4. CASE host' = [inst |-> task[t].inst, alive |-> TRUE, due |-> FALSE]
    <3>1. host'.inst = task[t].inst
      BY <2>4
    <3> QED
      BY <2>1, <2>2, <2>4, <3>1
  <2>5. CASE host' = NoHost \/ host' = host
    BY <2>2, <2>5, Constants
  <2> QED
    BY <2>3, <2>4, <2>5
<1>9. maint' \in MaintType /\ displaced' \in BOOLEAN /\ crashes' \in 0..3
  BY <1>1, <1>4, Types DEF StartHost, store, Displace, IInv, TypeOK
<1> QED
  BY <1>3, <1>7, <1>8, <1>9, HostSteps DEF StartHost, store

LEMMA MarkRunningInv == ASSUME IInv, NEW t \in Tasks, MarkRunning(t) PROVE IInv'
<1>1. Idle \in TaskType /\ Idle.pc = "idle" /\ Idle.inst <= last
  BY Constants, RequestInst
<1>2. task' = [task EXCEPT ![t] = Idle] /\ task[t].pc = "ready"
  BY DEF MarkRunning, Done, At
<1>3. UNCHANGED <<ext, crashes, uninstall, sent, daemon, host, maint, sleepers, last, displaced,
                  exited, kills>>
  BY DEF MarkRunning, Untouched
<1>4. CASE row' = row
  BY <1>1, <1>2, <1>3, <1>4, TaskMoves DEF IInv, TypeOK
<1>5. CASE row' # row
  <2>1. /\ row.inst = task[t].inst /\ ~row.cancelled /\ row.state = "starting"
        /\ row' = [row EXCEPT !.state = "running"]
    BY <1>5 DEF MarkRunning
  <2>2. /\ row' \in RowType /\ row'.inst = row.inst /\ row'.era = row.era
        /\ row'.cancelled = row.cancelled
    BY <2>1, Types DEF IInv, RowType
  <2>3. row.inst # 0
    BY <2>1 DEF IInv, NoRowInv
  <2>4. /\ task' \in [Tasks -> TaskType] /\ \A u \in Tasks \ {t} : task'[u] = task[u]
        /\ \A u \in Tasks : task'[u].inst <= last
    BY <1>1, <1>2, TaskUpdate
  <2>5. TypeOK'
    <3>1. ext' \in ExtType /\ host' \in HostType /\ maint' \in MaintType
      BY <1>3, Types DEF IInv
    <3> QED
      BY <1>3, <2>2, <2>4, <3>1, TypesBack DEF IInv, TypeOK
  <2>6. AuthorityIsCurrent' /\ NoRowInv' /\ KnownInst'
    BY <1>3, <2>1, <2>2, <2>3, <2>4 DEF IInv, AuthorityIsCurrent, NoRowInv, KnownInst
  <2>7. SoonRunning
    BY <1>2, <2>1, <2>3 DEF SoonRunning
  <2>8. Pending(row.inst) => Pending(row.inst)'
    BY <1>2, <1>3, <2>2, <2>4 DEF Pending
  <2>9. HostInv'
    BY <1>3, <2>2, <2>7, <2>8 DEF IInv, HostInv
  <2> QED
    BY <2>5, <2>6, <2>9 DEF IInv
<1> QED
  BY <1>4, <1>5

-----------------------------------------------------------------------------
(* Crashes that are recorded *)

\* A crash of the instance on record ends it; a crash of another one changes nothing.
LEMMA RecordCrashInv ==
    ASSUME IInv, NEW i \in Insts \cup {0}, RecordCrash(i),
           task' \in [Tasks -> TaskType], \A u \in Tasks : task'[u].inst <= last,
           \A u \in Tasks : task'[u].pc = "ready" => task'[u] = task[u],
           maint' \in MaintType, row.inst # i => (Pending(row.inst) => Pending(row.inst)'),
           UNCHANGED <<uninstall, sent, daemon, host, last, displaced, exited, kills>>
    PROVE  IInv'
<1>1. CASE row.inst # i
  <2>1. UNCHANGED <<ext, row, crashes, sleepers>>
    BY <1>1 DEF RecordCrash
  <2>2. SoonRunning' => SoonRunning
    BY <2>1 DEF SoonRunning
  <2>3. HostInv'
    BY <1>1, <2>1, <2>2 DEF HostInv, IInv
  <2>4. host' \in HostType /\ host'.inst <= last /\ displaced' \in BOOLEAN /\ crashes' \in 0..3
    BY <2>1, Types DEF IInv, TypeOK, KnownInst
  <2> QED
    BY <2>1, <2>3, <2>4, HostSteps
<1>2. CASE row.inst = i
  <2> DEFINE third == (IF crashes = 3 THEN 3 ELSE crashes + 1) = 3 /\ ~ext.quarantined
  <2>1. crashes' \in 0..3 /\ sleepers' \in Nat
    BY <1>2 DEF RecordCrash, IInv, TypeOK
  <2>2. /\ row' \in RowType /\ row'.inst \in {0, row.inst} /\ row'.cancelled
        /\ row'.state \in {"stopped", "crashed"} /\ ext' \in ExtType
    <3>1. CASE third
      <4>1. row' = NoRow /\ NewEra([ext EXCEPT !.quarantined = TRUE])
        BY <1>2, <3>1 DEF RecordCrash
      <4>2. [ext EXCEPT !.quarantined = TRUE] \in ExtType
        BY Types DEF IInv, ExtType
      <4> QED
        BY <4>1, <4>2, Constants, EraStep
    <3>2. CASE ~third
      <4>1. row' = [row EXCEPT !.state = "crashed", !.cancelled = TRUE] /\ UNCHANGED ext
        BY <1>2, <3>2 DEF RecordCrash
      <4> QED
        BY <4>1, Types DEF IInv, RowType
    <3> QED
      BY <3>1, <3>2
  <2>3. TypeOK'
    <3>1. host' \in HostType
      BY Types DEF IInv
    <3> QED
      BY <2>1, <2>2, <3>1, TypesBack DEF IInv, TypeOK
  <2>4. AuthorityIsCurrent' /\ NoRowInv' /\ ~SoonRunning'
    BY <2>2 DEF AuthorityIsCurrent, NoRowInv, SoonRunning
  <2>5. KnownInst'
    BY <2>2, RequestInst, Types DEF IInv, KnownInst
  <2> QED
    BY <2>3, <2>4, <2>5, NotSoonRunning
<1> QED
  BY <1>1, <1>2

LEMMA StartCrashedInv == ASSUME IInv, NEW t \in Tasks, StartCrashed(t) PROVE IInv'
<1>1. Idle \in TaskType /\ Idle.pc = "idle" /\ Idle.inst <= last /\ 0 <= last
  BY Constants, Types DEF IInv, KnownInst
<1>2. task' = [task EXCEPT ![t] = Idle] /\ task[t].pc = "crashed" /\ UNCHANGED maint
  BY DEF StartCrashed, Done, At
<1>3. /\ task'[t] = Idle /\ task' \in [Tasks -> TaskType]
      /\ \A u \in Tasks \ {t} : task'[u] = task[u]
      /\ \A u \in Tasks : task'[u].inst <= last
  BY <1>1, <1>2, TaskUpdate
<1>4. \A u \in Tasks : task'[u].pc = "ready" => task'[u] = task[u]
  BY <1>1, <1>3
<1>5. row.inst # task[t].inst => (Pending(row.inst) => Pending(row.inst)')
  <2>1. SUFFICES ASSUME row.inst # task[t].inst, Pending(row.inst)
                 PROVE  row' = row /\ Pending(row.inst)'
    OBVIOUS
  <2>2. row' = row
    BY <2>1 DEF StartCrashed, RecordCrash
  <2> QED
    BY <1>2, <1>3, <2>1, <2>2 DEF Pending
<1>6. maint' \in MaintType /\ task[t].inst \in Insts \cup {0}
  BY <1>2, Types, TaskFields DEF IInv
<1> QED
  BY <1>3, <1>4, <1>5, <1>6, RecordCrashInv DEF StartCrashed

LEMMA HostCrashedInv == ASSUME IInv, HostCrashed PROVE IInv'
<1>1. /\ task' = task /\ task' \in [Tasks -> TaskType]
      /\ \A u \in Tasks : task'[u].inst <= last
  BY Types, RequestInst DEF HostCrashed, IInv
<1>2. maint' \in MaintType /\ maint.inst \in Insts \cup {0}
  BY Constants, Types DEF HostCrashed, Next250ms, IInv, MaintType
<1>3. row.inst # maint.inst => (Pending(row.inst) => Pending(row.inst)')
  <2>1. SUFFICES ASSUME row.inst # maint.inst, Pending(row.inst)
                 PROVE  Pending(row.inst)'
    OBVIOUS
  <2>2. row' = row
    BY <2>1 DEF HostCrashed, RecordCrash
  <2> QED
    BY <1>1, <2>1, <2>2 DEF Pending
<1> QED
  BY <1>1, <1>2, <1>3, RecordCrashInv DEF HostCrashed

-----------------------------------------------------------------------------
(* The Host, the clock and the loop *)

\* A step that leaves record and tasks alone, keeps the Host or has an excuse, and keeps
\* the crash that the loop has still to record.
LEMMA LoopSteps ==
    ASSUME IInv, host' \in HostType, host'.inst <= last, maint' \in MaintType,
           displaced' \in BOOLEAN, displaced => displaced', crashes' \in 0..3,
           UNCHANGED <<ext, row, uninstall, sent, daemon, task, sleepers, last, exited, kills>>,
           maint.pc = "crash" => maint' = maint,
           row.inst # 0 /\ host.inst = row.inst =>
               host'.inst = row.inst \/ displaced' \/ Pending(row.inst)'
    PROVE  IInv'
<1>1. SoonRunning' => SoonRunning
  BY DEF SoonRunning
<1>2. Pending(row.inst) => Pending(row.inst)'
  BY DEF Pending
<1>3. HostInv'
  BY <1>1, <1>2 DEF IInv, HostInv, SoonRunning
<1>4. task' \in [Tasks -> TaskType] /\ \A u \in Tasks : task'[u].inst <= last
  BY Types, RequestInst DEF IInv
<1> QED
  BY <1>3, <1>4, HostSteps

\* The types of what a step of the loop mostly leaves alone.
LEMMA LoopTypes ==
    ASSUME IInv
    PROVE  /\ host \in HostType /\ host.inst <= last /\ maint \in MaintType
           /\ displaced \in BOOLEAN /\ crashes \in 0..3
           /\ NoHost \in HostType /\ NoHost.inst <= last /\ Quiet \in MaintType
BY Types, Constants DEF IInv, TypeOK, KnownInst

LEMMA ForgetInv == ASSUME IInv, Forget PROVE IInv'
<1>1. crashes' \in 0..3
  BY DEF Forget, IInv, TypeOK
<1> QED
  BY <1>1, LoopTypes, LoopSteps DEF Forget, Untouched

LEMMA HostExitsInv == ASSUME IInv, HostExits PROVE IInv'
<1>1. host' \in HostType /\ host'.inst = host.inst
  BY LoopTypes DEF HostExits, HostType
<1> QED
  BY <1>1, LoopTypes, LoopSteps DEF HostExits, store

LEMMA LeaseRunsOutInv == ASSUME IInv, LeaseRunsOut PROVE IInv'
<1>1. host' \in HostType /\ host'.inst = host.inst
  BY LoopTypes DEF LeaseRunsOut, HostType
<1> QED
  BY <1>1, LoopTypes, LoopSteps DEF LeaseRunsOut, store

LEMMA PollInv == ASSUME IInv, Poll PROVE IInv'
<1>1. UNCHANGED <<ext, row, crashes, uninstall, sent, daemon, task, sleepers, last, displaced,
                  exited, kills>>
      /\ maint.pc = "idle"
  BY DEF Poll, store, InLoop
<1>2. PICK pc \in {"crash", "renew"} :
          /\ maint' = [pc |-> pc, inst |-> host.inst]
          /\ (pc = "crash" /\ host' = NoHost) \/ UNCHANGED host
  BY DEF Poll
<1>3. maint' \in MaintType
  BY <1>2, LoopTypes DEF MaintType, HostType
<1>4. host' = NoHost => (row.inst = host.inst => Pending(row.inst)') \/ host = NoHost
  BY <1>1, <1>2 DEF Pending
<1>5. row.inst # 0 /\ host.inst = row.inst => host'.inst = row.inst \/ Pending(row.inst)'
  BY <1>1, <1>2, <1>4, Constants
<1>6. host' \in HostType /\ host'.inst <= last
  BY <1>2, LoopTypes
<1> QED
  BY <1>1, <1>3, <1>5, <1>6, LoopTypes, LoopSteps

LEMMA RenewInv == ASSUME IInv, Renew PROVE IInv'
<1>1. maint' \in MaintType
  BY LoopTypes DEF Renew, MaintType
<1> QED
  BY <1>1, LoopTypes, LoopSteps DEF Renew, InLoop, store

LEMMA StopStaleInv == ASSUME IInv, StopStale PROVE IInv'
BY LoopTypes, LoopSteps DEF StopStale, InLoop, Next250ms, Displace, store

\* When the daemon is gone nothing has to be excused.
LEMMA DieInv ==
    ASSUME IInv, Die, exited' \in BOOLEAN, kills' \in Nat,
           UNCHANGED <<ext, row, crashes, uninstall, sent, last, displaced>>
    PROVE  IInv'
<1>1. task' \in [Tasks -> TaskType] /\ \A u \in Tasks : task'[u].inst = 0
  BY Constants DEF Die
<1>2. /\ host' = NoHost /\ maint' = Quiet /\ sleepers' = 0 /\ daemon' = "down"
  BY DEF Die
<1>3. TypeOK'
  <2>1. ext' \in ExtType /\ row' \in RowType
    BY Types DEF IInv
  <2>2. host' \in HostType /\ maint' \in MaintType
    BY <1>2, Constants
  <2> QED
    BY <1>1, <1>2, <2>1, <2>2, TypesBack DEF IInv, TypeOK
<1>4. AuthorityIsCurrent' /\ NoRowInv'
  BY DEF IInv, AuthorityIsCurrent, NoRowInv
<1>5. KnownInst'
  BY <1>1, <1>2, LoopTypes, RequestInst DEF IInv, KnownInst
<1> QED
  BY <1>2, <1>3, <1>4, <1>5, NotSoonRunning

LEMMA UpdateLeaseInv == ASSUME IInv, UpdateLease PROVE IInv'
<1>1. CASE host.inst = maint.inst
  <2>1. /\ host' = [host EXCEPT !.due = FALSE] /\ maint' = Quiet
        /\ UNCHANGED <<daemon, task, sleepers, exited>>
    BY <1>1 DEF UpdateLease, Next250ms
  <2>2. host' \in HostType /\ host'.inst = host.inst
    BY <2>1, LoopTypes DEF HostType
  <2> QED
    BY <2>1, <2>2, LoopTypes, LoopSteps DEF UpdateLease, InLoop, store
<1>2. CASE host.inst # maint.inst
  BY <1>2, DieInv DEF UpdateLease, store, IInv, TypeOK
<1> QED
  BY <1>1, <1>2

LEMMA KillInv == ASSUME IInv, Kill PROVE IInv'
<1>1. kills' \in Nat
  BY DEF Kill, IInv, TypeOK
<1> QED
  BY <1>1, DieInv DEF Kill, store, IInv, TypeOK

LEMMA RecoverInv == ASSUME IInv, Recover PROVE IInv'
<1>1. UNCHANGED <<ext, crashes, uninstall, sent, host, maint, sleepers, last, displaced, exited,
                  kills>>
      /\ daemon' = "recovering"
  BY DEF Recover
<1>2. /\ row' \in RowType /\ row'.inst = row.inst /\ (row.cancelled => row'.cancelled)
      /\ row'.state \notin {"starting", "running"}
  <2>1. CASE row' = row /\ row.state \notin {"starting", "running", "stopping"}
    BY <2>1, Types DEF IInv
  <2>2. CASE row' = [row EXCEPT !.state = "crashed", !.cancelled = TRUE]
    BY <2>2, Types DEF IInv, RowType
  <2> QED
    BY <2>1, <2>2 DEF Recover
<1>3. task' \in [Tasks -> TaskType] /\ \A u \in Tasks : task'[u].inst <= last
  <2>1. CASE UNCHANGED task
    BY <2>1, Types, RequestInst DEF IInv
  <2>2. CASE Go(1, "check")
    <3> DEFINE r == [pc |-> "check", inst |-> task[1].inst, then |-> task[1].then]
    <3>1. 1 \in Tasks
      BY ExtensionsAssumption
    <3>2. r \in TaskType /\ r.inst <= last
      BY <3>1, TaskFields, RequestInst DEF IInv, TaskType
    <3>3. task' = [task EXCEPT ![1] = r]
      BY <2>2 DEF Go, Put
    <3> HIDE DEF r
    <3> QED
      BY <3>1, <3>2, <3>3, TaskUpdate
  <2> QED
    BY <2>1, <2>2 DEF Recover
<1>4. TypeOK'
  <2>1. ext' \in ExtType /\ host' \in HostType /\ maint' \in MaintType
    BY <1>1, Types DEF IInv
  <2> QED
    BY <1>1, <1>2, <1>3, <2>1, TypesBack DEF IInv, TypeOK
<1>5. AuthorityIsCurrent' /\ NoRowInv' /\ ~SoonRunning'
  BY <1>2 DEF IInv, AuthorityIsCurrent, NoRowInv, SoonRunning
<1>6. KnownInst'
  BY <1>1, <1>2, <1>3 DEF IInv, KnownInst
<1> QED
  BY <1>4, <1>5, <1>6, NotSoonRunning

LEMMA ServeInv == ASSUME IInv, Serve PROVE IInv'
<1>1. /\ daemon = "recovering" /\ daemon' = "up"
      /\ UNCHANGED <<ext, row, crashes, uninstall, sent, host, maint, sleepers, last, displaced,
                     exited, kills>>
  BY DEF Serve, store
<1> DEFINE Harmless == /\ task' \in [Tasks -> TaskType]
                       /\ \A u \in Tasks : task'[u].inst <= last
                       /\ (SoonRunning' => SoonRunning)
                       /\ (Pending(row.inst) => Pending(row.inst)')
<1>2. Harmless
  <2>1. CASE UNCHANGED task
    BY <1>1, <2>1, Types, RequestInst DEF IInv, SoonRunning, Pending
  <2>2. ASSUME NEW t \in Tasks, task[t].pc = "idle", StopThen(t, "purge")
        PROVE  Harmless
    <3> DEFINE r == [pc |-> "stop", inst |-> 0, then |-> "purge"]
    <3>1. r \in TaskType /\ r.pc = "stop" /\ r.inst <= last
      BY RequestInst, <2>2 DEF TaskType
    <3>2. task' = [task EXCEPT ![t] = r]
      BY <2>2 DEF StopThen, Put
    <3> HIDE DEF r
    <3>3. /\ task'[t] = r /\ task' \in [Tasks -> TaskType]
          /\ \A u \in Tasks \ {t} : task'[u] = task[u]
          /\ \A u \in Tasks : task'[u].inst <= last
      BY <2>2, <3>1, <3>2, TaskUpdate
    <3> QED
      BY <1>1, <2>2, <3>1, <3>3 DEF SoonRunning, Pending
  <2> QED
    BY <2>1, <2>2 DEF Serve
<1>3. HostInv'
  BY <1>1, <1>2 DEF IInv, HostInv
<1>4. TypeOK'
  <2>1. ext' \in ExtType /\ row' \in RowType /\ host' \in HostType /\ maint' \in MaintType
    BY <1>1, Types DEF IInv
  <2> QED
    BY <1>1, <1>2, <2>1, TypesBack DEF IInv, TypeOK
<1>5. AuthorityIsCurrent' /\ NoRowInv' /\ KnownInst'
  BY <1>1, <1>2 DEF IInv, AuthorityIsCurrent, NoRowInv, KnownInst
<1> QED
  BY <1>3, <1>4, <1>5 DEF IInv

-----------------------------------------------------------------------------
(* The theorems *)

LEMMA TaskStepInv == ASSUME IInv, NEW t \in Tasks, TaskStep(t) PROVE IInv'
BY StopInv, DeleteInv, RereadInv, PurgeInv, CheckInv, PrepareInv, StartHostInv,
   MarkRunningInv, StartCrashedInv, TerminateInv DEF TaskStep

LEMMA NextInv == IInv /\ [Next]_vars => IInv'
<1>1. SUFFICES ASSUME IInv, [Next]_vars PROVE IInv'
  OBVIOUS
<1>2. ASSUME NEW t \in Tasks,
             \/ Enable(t) \/ Disable(t) \/ SetGrant(t) \/ Resend(t)
             \/ Uninstall(t) \/ TaskStep(t) \/ Wake(t) \/ GuestFails(t)
      PROVE  IInv'
  BY <1>1, <1>2, EnableInv, DisableInv, SetGrantInv, ResendInv, UninstallInv, TaskStepInv,
     WakeInv, GuestFailsInv
<1>3. CASE HostExits \/ LeaseRunsOut \/ Forget
  BY <1>1, <1>3, HostExitsInv, LeaseRunsOutInv, ForgetInv
<1>4. CASE Maintain
  BY <1>1, <1>4, PollInv, RenewInv, UpdateLeaseInv, StopStaleInv, HostCrashedInv DEF Maintain
<1>5. CASE Kill \/ Recover \/ Serve
  BY <1>1, <1>5, KillInv, RecoverInv, ServeInv
<1>6. CASE UNCHANGED vars
  BY <1>1, <1>6, StutterInv
<1> QED
  BY <1>1, <1>2, <1>3, <1>4, <1>5, <1>6 DEF Next

\* Every reachable state satisfies the invariant above.
THEOREM Invariance == Spec => []IInv
<1> QED
  BY InitInv, NextInv, PTL DEF Spec

\* Every variable keeps its type, whatever requests, crashes and deaths overlap.
THEOREM TypeCorrect == Spec => []TypeOK
<1>1. IInv => TypeOK
  BY DEF IInv
<1> QED
  BY <1>1, Invariance, PTL

\* prepare_instance, mark_instance_running and the commits that cancel a lease between
\* them never leave a usable lease of an extension that is disabled, not granted, in
\* quarantine, or that has changed since.
THEOREM Authority == Spec => []AuthorityIsCurrent
<1>1. IInv => AuthorityIsCurrent
  BY DEF IInv
<1> QED
  BY <1>1, Invariance, PTL

\* An instance on record as running without a process in the map is about to be
\* corrected, or lost its process to start_host, stop_host or terminate_host of
\* another instance: nothing else makes a phantom.
THEOREM Phantoms == Spec => []PhantomForAReason
<1>1. IInv => PhantomForAReason
  BY DEF IInv, PhantomForAReason, HostInv, SoonRunning, NoRowInv
<1> QED
  BY <1>1, Invariance, PTL

-----------------------------------------------------------------------------
(* The leases one after the other *)

\* The era only grows, an extension that is gone stays so, and the row is empty, or of an
\* instance never seen before, or of the one it was of, under its era and, once its lease
\* was cancelled, without it.
OnlyEnds ==
    /\ ext'.era >= ext.era /\ last' >= last
    /\ ext.desired = "absent" => ext'.desired = "absent"
    /\ \/ row'.inst = 0
       \/ row'.inst > last
       \/ /\ row'.inst = row.inst /\ row'.era = row.era
          /\ row.cancelled => row'.cancelled

LeasesOnlyEnd == [][OnlyEnds]_vars

LEMMA RowStaysOnlyEnds == ASSUME IInv, UNCHANGED <<ext, row, last>> PROVE OnlyEnds
BY Types DEF IInv, OnlyEnds, ExtType, RowType

LEMMA CommitOnlyEnds ==
    ASSUME IInv, NEW c \in ExtType, ext.desired # "absent",
           NEW state \in {"stopping", row.state}, NewEra(c), c.era = ext.era,
           CancelLease(state), UNCHANGED last
    PROVE  OnlyEnds
<1>1. row \in RowType /\ ext.era \in Nat /\ last \in Nat
  BY Types DEF IInv, ExtType
<1>2. ext'.era = ext.era + 1
  BY DEF NewEra, ExtType
<1>3. row' = row \/ row' = [row EXCEPT !.cancelled = TRUE, !.state = state]
  BY DEF CancelLease
<1>4. row'.inst = row.inst /\ row'.era = row.era /\ (row.cancelled => row'.cancelled)
  BY <1>1, <1>3 DEF RowType
<1> QED
  BY <1>1, <1>2, <1>4 DEF OnlyEnds

LEMMA RequestOnlyEnds ==
    ASSUME IInv, NEW t \in Tasks, Enable(t) \/ Disable(t) \/ SetGrant(t) \/ Uninstall(t)
    PROVE  OnlyEnds
<1>1. ext \in ExtType /\ ext.desired # "absent" /\ UNCHANGED last
  BY Types DEF IInv, Enable, Disable, SetGrant, Uninstall, Request, Untouched
<1>2. CASE Enable(t)
  <2> DEFINE c == [ext EXCEPT !.desired = "enabled", !.quarantined = FALSE]
  <2>1. c \in ExtType /\ c.era = ext.era
    BY <1>1 DEF ExtType
  <2>2. NewEra(c) /\ CancelLease("stopping")
    BY <1>2 DEF Enable
  <2> HIDE DEF c
  <2> QED
    BY <1>1, <2>1, <2>2, CommitOnlyEnds
<1>3. CASE Disable(t)
  <2> DEFINE c == [ext EXCEPT !.desired = "disabled"]
  <2>1. c \in ExtType /\ c.era = ext.era
    BY <1>1 DEF ExtType
  <2>2. NewEra(c) /\ CancelLease("stopping")
    BY <1>3 DEF Disable
  <2> HIDE DEF c
  <2> QED
    BY <1>1, <2>1, <2>2, CommitOnlyEnds
<1>4. CASE SetGrant(t)
  <2>1. PICK granted \in BOOLEAN : NewEra([ext EXCEPT !.granted = granted])
    BY <1>4 DEF SetGrant
  <2> DEFINE c == [ext EXCEPT !.granted = granted]
  <2>2. c \in ExtType /\ c.era = ext.era
    BY <1>1 DEF ExtType
  <2>3. NewEra(c)
    BY <2>1
  <2>4. CancelLease(row.state)
    BY <1>4 DEF SetGrant
  <2> HIDE DEF c
  <2> QED
    BY <1>1, <2>2, <2>3, <2>4, CommitOnlyEnds
<1>5. CASE Uninstall(t)
  <2> DEFINE c == [ext EXCEPT !.desired = "uninstalling", !.granted = FALSE]
  <2>1. c \in ExtType /\ c.era = ext.era
    BY <1>1 DEF ExtType
  <2>2. NewEra(c) /\ CancelLease("stopping")
    BY <1>5 DEF Uninstall
  <2> HIDE DEF c
  <2> QED
    BY <1>1, <2>1, <2>2, CommitOnlyEnds
<1> QED
  BY <1>2, <1>3, <1>4, <1>5

LEMMA CrashOnlyEnds ==
    ASSUME IInv, NEW i, RecordCrash(i), UNCHANGED last
    PROVE  OnlyEnds
<1>1. row \in RowType /\ ext \in ExtType /\ ext.era \in Nat /\ last \in Nat
  BY Types DEF IInv, ExtType
<1>2. CASE UNCHANGED <<ext, row>>
  BY <1>2, RowStaysOnlyEnds
<1>3. CASE row' = NoRow /\ NewEra([ext EXCEPT !.quarantined = TRUE])
  <2>1. ext'.era = ext.era + 1 /\ ext'.desired = ext.desired /\ row'.inst = 0
    BY <1>1, <1>3 DEF NewEra, ExtType, NoRow
  <2> QED
    BY <1>1, <2>1 DEF OnlyEnds
<1>4. CASE row' = [row EXCEPT !.state = "crashed", !.cancelled = TRUE] /\ UNCHANGED ext
  <2>1. row'.inst = row.inst /\ row'.era = row.era /\ row'.cancelled
    BY <1>1, <1>4 DEF RowType
  <2> QED
    BY <1>1, <1>4, <2>1 DEF OnlyEnds
<1> QED
  BY <1>2, <1>3, <1>4 DEF RecordCrash

LEMMA TaskOnlyEnds == ASSUME IInv, NEW t \in Tasks, TaskStep(t) PROVE OnlyEnds
<1>1. row \in RowType /\ ext \in ExtType /\ ext.era \in Nat /\ last \in Nat
  BY Types DEF IInv, ExtType
<1>2. CASE Delete(t)
  <2>1. UNCHANGED <<ext, last>> /\ row'.inst = 0
    BY <1>2, Constants DEF Delete, Untouched
  <2> QED
    BY <1>1, <2>1 DEF OnlyEnds
<1>3. CASE Purge(t)
  <2>1. /\ ext' = [ext EXCEPT !.desired = "absent", !.granted = FALSE]
        /\ row'.inst = 0 /\ UNCHANGED last
    BY <1>3, Constants DEF Purge, Untouched
  <2>2. ext'.era = ext.era /\ ext'.desired = "absent"
    BY <1>1, <2>1 DEF ExtType
  <2> QED
    BY <1>1, <2>1, <2>2 DEF OnlyEnds
<1>4. CASE Prepare(t)
  <2>1. \/ UNCHANGED <<ext, row, last>>
        \/ /\ UNCHANGED ext /\ last' = last + 1
           /\ row' = [inst |-> last', era |-> ext.era, state |-> "starting", cancelled |-> FALSE]
    BY <1>4 DEF Prepare
  <2>2. CASE UNCHANGED <<ext, row, last>>
    BY <2>2, RowStaysOnlyEnds
  <2>3. CASE /\ UNCHANGED ext /\ last' = last + 1
             /\ row' = [inst |-> last', era |-> ext.era, state |-> "starting",
                        cancelled |-> FALSE]
    <3>1. row'.inst = last + 1
      BY <2>3
    <3> QED
      BY <1>1, <2>3, <3>1 DEF OnlyEnds
  <2> QED
    BY <2>1, <2>2, <2>3
<1>5. CASE MarkRunning(t)
  <2>1. /\ UNCHANGED <<ext, last>>
        /\ row' = row \/ row' = [row EXCEPT !.state = "running"]
    BY <1>5 DEF MarkRunning, Untouched
  <2>2. row'.inst = row.inst /\ row'.era = row.era /\ row'.cancelled = row.cancelled
    BY <1>1, <2>1 DEF RowType
  <2> QED
    BY <1>1, <2>1, <2>2 DEF OnlyEnds
<1>6. CASE StartCrashed(t)
  BY <1>6, CrashOnlyEnds DEF StartCrashed
<1>7. CASE Stop(t) \/ Reread(t) \/ Check(t) \/ StartHost(t) \/ Terminate(t)
  BY <1>7, RowStaysOnlyEnds DEF Stop, Reread, Check, StartHost, Terminate, Untouched, store
<1> QED
  BY <1>2, <1>3, <1>4, <1>5, <1>6, <1>7 DEF TaskStep

\* prepare_instance, mark_instance_running, record_instance_crash, recover_instances and the
\* commits that cancel a lease: a lease that was revoked is never given back to its
\* instance, by no late task, restart or crash report, and an instance that lost its row
\* never gets one again; what starts later is another instance, of the era of that moment.
THEOREM RevokedForGood == Spec => LeasesOnlyEnd
<1>1. ASSUME IInv, [Next]_vars PROVE [OnlyEnds]_vars
  <2>1. CASE \E t \in Tasks : Enable(t) \/ Disable(t) \/ SetGrant(t) \/ Uninstall(t)
    BY <1>1, <2>1, RequestOnlyEnds
  <2>2. CASE \E t \in Tasks : TaskStep(t)
    BY <1>1, <2>2, TaskOnlyEnds
  <2>3. CASE \/ \E t \in Tasks : Resend(t) \/ Wake(t) \/ GuestFails(t)
             \/ HostExits \/ LeaseRunsOut \/ Forget
    BY <1>1, <2>3, RowStaysOnlyEnds
       DEF Resend, Wake, GuestFails, HostExits, LeaseRunsOut, Forget, Untouched, store
  <2>4. CASE Maintain
    <3>1. CASE HostCrashed
      BY <1>1, <3>1, CrashOnlyEnds DEF HostCrashed
    <3>2. CASE Poll \/ Renew \/ UpdateLease \/ StopStale
      BY <1>1, <3>2, RowStaysOnlyEnds DEF Poll, Renew, UpdateLease, StopStale, store
    <3> QED
      BY <2>4, <3>1, <3>2 DEF Maintain
  <2>5. CASE Recover
    <3>1. /\ UNCHANGED <<ext, last>>
          /\ row' = row \/ row' = [row EXCEPT !.state = "crashed", !.cancelled = TRUE]
      BY <2>5 DEF Recover
    <3>2. row \in RowType /\ ext.era \in Nat /\ last \in Nat
      BY <1>1, Types DEF IInv, ExtType
    <3>3. row'.inst = row.inst /\ row'.era = row.era /\ (row.cancelled => row'.cancelled)
      BY <3>1, <3>2 DEF RowType
    <3> QED
      BY <3>1, <3>2, <3>3 DEF OnlyEnds
  <2>6. CASE Kill \/ Serve
    BY <1>1, <2>6, RowStaysOnlyEnds DEF Kill, Serve, store
  <2> QED
    BY <1>1, <2>1, <2>2, <2>3, <2>4, <2>5, <2>6 DEF Next
<1> QED
  BY <1>1, Invariance, PTL DEF Spec, LeasesOnlyEnd

-----------------------------------------------------------------------------
(* What the pages of the GUI show: EventsLive *)

\* A batch that makes the GUI read its page again.
Marks(m) == page.of \in m.scopes \/ (page.of = "operations" /\ m.events # {})

InFlight == \E i \in DOMAIN wire : wire[i].type = "batch" /\ Marks(wire[i])

\* A change of what the page shows that the subscription has not sent.
Untold ==
    \/ page.of = "operations" /\ \E i \in Own : i > sub.seq
    \/ page.of = "extensions" /\ (mark.exts > sub.rev \/ due = "extensions" \/ lost)
    \/ page.of = "log" /\ (mark.logs > sub.rev \/ mark.logSeq # logs)

\* A value the store has, or one the GUI is going to be told to read again.
Known(v) == v = Truth \/ sub.pc = "none" \/ InFlight \/ Untold

\* The channel is behind the tables only while a change is announced or after a failure.
MarkInv ==
    /\ mark.seq <= Len(log) /\ mark.logSeq <= logs
    /\ mark.exts <= mark.res /\ mark.logs <= mark.res
    /\ process = "up" /\ due = "none" /\ mark.available =>
          mark.seq = Len(log) /\ mark.logSeq = logs

\* A subscription is of a running daemon, and not ahead of the channel.
SubInv ==
    sub.pc # "none" =>
        /\ process = "up"
        /\ sub.rev <= mark.res /\ sub.seq <= Len(log)
        /\ sub.found \subseteq Own
        /\ ~sub.unseen => mark.available

\* One that found nothing and was told nothing since has sent all the channel announces.
SleepInv ==
    /\ (sub.pc = "wait" \/ (sub.pc = "resample" /\ sub.found = {})) /\ ~sub.unseen =>
          \A i \in Own : i > sub.seq => i > mark.seq
    /\ sub.pc = "wait" /\ ~sub.unseen =>
          mark.exts <= sub.rev /\ (WithLogs => mark.logs <= sub.rev)

PageInv ==
    /\ page.of = "log" => WithLogs
    /\ gui.link \in {"up", "acking"} /\ ~page.dirty =>
          /\ page.read = "idle" => Known(page.shown)
          /\ page.read = "answered" /\ ~page.stale => Known(page.value)

\* What the daemon sends.
Message == [type : {"ready"}, resync : BOOLEAN, cursor : Cursor]
           \cup [type : {"batch"}, events : SUBSET Nat, scopes : SUBSET Scopes, cursor : Cursor]

LiveIInv == LiveTypeOK /\ wire \in Seq(Message) /\ MarkInv /\ SubInv /\ SleepInv /\ PageInv

-----------------------------------------------------------------------------
(* Types *)

MarkType == [seq : Nat, res : Nat, exts : Nat, logs : Nat, logSeq : Nat, available : BOOLEAN]
SubType  == [pc : {"none", "sample", "read", "resample", "wait"}, seq : Nat, rev : Nat,
             unseen : BOOLEAN, found : SUBSET Nat]
GuiType  == [link : {"off", "opening", "up", "acking", "stopped"}, logs : BOOLEAN,
             accepted : Cursor \cup {None}, inst : Nat, seq : Nat, rev : Nat]
PageType == [of : Pages, shown : Nat, dirty : BOOLEAN, blocked : BOOLEAN, stale : BOOLEAN,
             read : {"idle", "answered"}, value : Nat]

LEMMA LiveTypes ==
    ASSUME LiveTypeOK
    PROVE  /\ log \in Seq(BOOLEAN) /\ exts \in Nat /\ logs \in Nat
           /\ mark \in MarkType /\ sub \in SubType /\ gui \in GuiType /\ page \in PageType
           /\ due \in {"none", "plain", "extensions"}
           /\ inst \in Nat /\ process \in {"down", "up"}
           /\ lost \in BOOLEAN /\ commits \in Nat /\ mishaps \in Nat
BY DEF LiveTypeOK, MarkType, SubType, GuiType, PageType

LEMMA LiveTypesBack ==
    ASSUME log' \in Seq(BOOLEAN), exts' \in Nat, logs' \in Nat,
           due' \in {"none", "plain", "extensions"}, mark' \in MarkType,
           inst' \in Nat, process' \in {"down", "up"}, sub' \in SubType, gui' \in GuiType,
           page' \in PageType, lost' \in BOOLEAN, commits' \in Nat, mishaps' \in Nat
    PROVE  LiveTypeOK'
BY DEF LiveTypeOK, MarkType, SubType, GuiType, PageType, Pages, Cursor

\* What the store has of what the page shows.
LEMMA TruthIs ==
    /\ page.of = "operations" => Truth = Cardinality(Own)
    /\ page.of = "extensions" => Truth = exts
    /\ page.of = "log" => Truth = logs
BY DEF Truth

LEMMA TruthNext ==
    /\ page'.of = "operations" => Truth' = Cardinality(Own')
    /\ page'.of = "extensions" => Truth' = exts'
    /\ page'.of = "log" => Truth' = logs'
BY DEF Truth

\* The owner's Events are places of the log.
LEMMA OwnFacts ==
    ASSUME LiveTypeOK
    PROVE  /\ Len(log) \in Nat
           /\ \A i \in Own : i \in Nat /\ 1 <= i /\ i <= Len(log)
           /\ Truth \in Nat
<1>1. Len(log) \in Nat /\ Own \subseteq 1..Len(log)
  BY LiveTypes DEF Own
<1>2. Cardinality(Own) \in Nat
  <2>1. IsFiniteSet(1..Len(log))
    BY <1>1, FS_Interval
  <2>2. IsFiniteSet(Own)
    BY <1>1, <2>1, FS_Subset
  <2> QED
    BY <2>2, FS_CardinalityType
<1> QED
  BY <1>1, <1>2, LiveTypes, TruthIs DEF PageType, Pages

LEMMA NoSubFacts == NoSub \in SubType /\ NoSub.pc = "none"
BY DEF NoSub, SubType

\* A watermark of the tables: it is ahead of the old one where something is new.
LEMMA AnnouncedFacts ==
    ASSUME LiveTypeOK, NEW m \in MarkType, m.exts <= m.res, m.logs <= m.res,
           NEW x \in BOOLEAN, NEW a, a = Announced(m, x)
    PROVE  /\ a \in MarkType
           /\ a.seq = Len(log) /\ a.logSeq = logs /\ a.available
           /\ m.res <= a.res /\ a.exts <= a.res /\ a.logs <= a.res
           /\ IF x THEN a.exts = m.res + 1 ELSE a.exts = m.exts
           /\ IF m.logSeq # logs THEN a.logs = m.res + 1 ELSE a.logs = m.logs
<1> DEFINE res == m.res + IF x \/ m.logSeq # logs THEN 1 ELSE 0
<1>1. res \in Nat /\ m.res <= res /\ (x \/ m.logSeq # logs => res = m.res + 1)
  BY DEF MarkType
<1>2. a =
         [seq |-> Len(log), res |-> res, exts |-> IF x THEN res ELSE m.exts,
          logs |-> IF m.logSeq # logs THEN res ELSE m.logs, logSeq |-> logs, available |-> TRUE]
  BY DEF Announced
<1> HIDE DEF res
<1>3. Len(log) \in Nat /\ logs \in Nat
  BY LiveTypes
<1> QED
  BY <1>1, <1>2, <1>3 DEF MarkType

LEMMA MessageFacts ==
    /\ \A m \in Message : m.cursor \in Cursor
    /\ \A r \in BOOLEAN, c \in Cursor : [type |-> "ready", resync |-> r, cursor |-> c] \in Message
    /\ \A e \in SUBSET Nat, s \in SUBSET Scopes, c \in Cursor :
          [type |-> "batch", events |-> e, scopes |-> s, cursor |-> c] \in Message
BY DEF Message

LEMMA RejectedFacts ==
    ASSUME page \in PageType
    PROVE  /\ Rejected \in PageType /\ Rejected.of = page.of /\ Rejected.read = "idle"
           /\ page.read # "idle" => Rejected.dirty
           /\ Marked \in PageType /\ Marked.of = page.of /\ Marked.dirty
BY DEF Rejected, Marked, PageType

LEMMA FailedFacts ==
    ASSUME gui \in GuiType, page \in PageType,
           NEW link \in {"off", "stopped"}, NEW c \in Cursor \cup {None}, Failed(link, c)
    PROVE  /\ gui' \in GuiType /\ gui'.link = link /\ gui'.logs = gui.logs
           /\ page' \in PageType /\ page'.of = page.of
           /\ sub' = NoSub /\ wire' = <<>>
BY RejectedFacts DEF Failed, GuiType

\* The watermark, and what the subscription has of it.
LEMMA TellFacts ==
    ASSUME mark \in MarkType, sub \in SubType, NEW m \in MarkType, Tell(m)
    PROVE  /\ mark' = m /\ sub' \in SubType
           /\ sub'.pc = sub.pc /\ sub'.seq = sub.seq /\ sub'.rev = sub.rev
           /\ sub'.found = sub.found
           /\ sub.pc # "none" /\ ~sub'.unseen => ~sub.unseen /\ m = mark
BY DEF Tell, SubType

-----------------------------------------------------------------------------
(* The steps *)

LEMMA LiveInitInv == LiveInit => LiveIInv
<1> SUFFICES ASSUME LiveInit PROVE LiveIInv
  OBVIOUS
<1>1. LiveTypeOK
  <2>1. PICK l \in BOOLEAN, p \in Pages :
           /\ gui = [link |-> "off", logs |-> l, accepted |-> None, inst |-> 0, seq |-> 0,
                     rev |-> 0]
           /\ page = Fresh(p)
    BY DEF LiveInit
  <2>2. gui \in GuiType
    BY <2>1 DEF GuiType
  <2>3. page \in PageType
    BY <2>1 DEF PageType, Fresh
  <2>4. mark \in MarkType
    BY DEF LiveInit, MarkType
  <2>5. log \in Seq(BOOLEAN) /\ sub \in SubType
    BY NoSubFacts DEF LiveInit
  <2> QED
    BY <2>2, <2>3, <2>4, <2>5 DEF LiveInit, LiveTypeOK, GuiType, PageType, MarkType, SubType
<1>2. wire \in Seq(Message)
  BY DEF LiveInit
<1>3. MarkInv /\ SubInv /\ SleepInv
  BY DEF LiveInit, MarkInv, SubInv, SleepInv, NoSub
<1>4. PageInv
  BY DEF LiveInit, PageInv, Fresh, WithLogs
<1> QED
  BY <1>1, <1>2, <1>3, <1>4 DEF LiveIInv

\* One Event more.
LEMMA OwnAppended ==
    ASSUME log \in Seq(BOOLEAN), NEW b \in BOOLEAN, log' = Append(log, b)
    PROVE  /\ log' \in Seq(BOOLEAN) /\ Len(log') = Len(log) + 1
           /\ Own \subseteq Own'
           /\ \A i \in Own' \ Own : i = Len(log) + 1
           /\ ~b => Own' = Own
           /\ b => Len(log) + 1 \in Own'
<1>1. /\ log' \in Seq(BOOLEAN) /\ Len(log') = Len(log) + 1
      /\ \A i \in 1..Len(log) : log'[i] = log[i]
      /\ log'[Len(log) + 1] = b
  BY AppendProperties
<1>2. DOMAIN log = 1..Len(log) /\ DOMAIN log' = 1..Len(log') /\ Len(log) \in Nat
  BY <1>1
<1>3. DOMAIN log' = DOMAIN log \cup {Len(log) + 1} /\ Len(log) + 1 \notin DOMAIN log
  BY <1>1, <1>2
<1>4. \A i \in DOMAIN log : log'[i] = log[i]
  BY <1>1, <1>2
<1>5. \A i \in DOMAIN log : i \in Own' <=> i \in Own
  BY <1>3, <1>4, Zenon DEF Own
<1>6. Own \subseteq DOMAIN log /\ Own' \subseteq DOMAIN log'
  BY DEF Own
<1>7. Len(log) + 1 \in Own' <=> b
  BY <1>1, <1>3, Zenon DEF Own
<1> QED
  BY <1>1, <1>3, <1>5, <1>6, <1>7

\* A transaction of the store thread: what it changes is untold.
LEMMA CommitInv == ASSUME LiveIInv, Commit PROVE LiveIInv'
<1>1. PICK event \in {<<>>, <<TRUE>>, <<FALSE>>}, other \in {"none"} \cup Scopes :
         /\ log' = log \o event
         /\ exts' = exts + IF other = "extensions" THEN 1 ELSE 0
         /\ logs' = logs + IF other = "log" THEN 1 ELSE 0
         /\ due' = IF other = "extensions" THEN "extensions" ELSE "plain"
  BY DEF Commit
<1>2. UNCHANGED <<mark, inst, process, sub, wire, gui, page, lost, mishaps>>
      /\ due = "none" /\ commits' = commits + 1
  BY DEF Commit, view
<1>3. /\ log \in Seq(BOOLEAN)
      /\ event = <<>> => log' = log
      /\ event = <<TRUE>> => log' = Append(log, TRUE)
      /\ event = <<FALSE>> => log' = Append(log, FALSE)
  <2>1. log \in Seq(BOOLEAN)
    BY LiveTypes DEF LiveIInv
  <2>2. log \o <<>> = log
    BY <2>1, ConcatEmptySeq
  <2>3. Append(log, TRUE) = log \o <<TRUE>> /\ Append(log, FALSE) = log \o <<FALSE>>
    BY <2>1, AppendIsConcat
  <2> QED
    BY <1>1, <2>1, <2>2, <2>3
<1>4. /\ log' \in Seq(BOOLEAN) /\ Len(log) <= Len(log') /\ Len(log) \in Nat
      /\ Own \subseteq Own'
      /\ \A i \in Own' \ Own : i = Len(log) + 1
      /\ Own' = Own \/ Len(log) + 1 \in Own'
  <2>1. CASE event = <<>>
    BY <1>3, <2>1 DEF Own
  <2>2. CASE event = <<FALSE>>
    <3>1. /\ log' \in Seq(BOOLEAN) /\ Len(log') = Len(log) + 1
          /\ Own \subseteq Own' /\ Own' = Own
      BY <1>3, <2>2, OwnAppended
    <3> QED
      BY <1>3, <3>1
  <2>3. CASE event = <<TRUE>>
    <3>1. /\ log' \in Seq(BOOLEAN) /\ Len(log') = Len(log) + 1
          /\ Own \subseteq Own' /\ Len(log) + 1 \in Own'
          /\ \A i \in Own' \ Own : i = Len(log) + 1
      BY <1>3, <2>3, OwnAppended
    <3> QED
      BY <1>3, <3>1
  <2> QED
    BY <2>1, <2>2, <2>3
<1>5. LiveTypeOK'
  <2>1. exts' \in Nat /\ logs' \in Nat /\ due' \in {"none", "plain", "extensions"}
    BY <1>1, LiveTypes DEF LiveIInv
  <2> QED
    BY <1>2, <1>4, <2>1, LiveTypesBack, LiveTypes DEF LiveIInv
<1>6. /\ mark.seq \in Nat /\ mark.logSeq \in Nat /\ mark.seq <= Len(log)
      /\ sub.seq \in Nat /\ (sub.pc # "none" => sub.seq <= Len(log))
      /\ Len(log') \in Nat /\ exts \in Nat /\ logs \in Nat /\ logs' \in Nat
  <2>1. mark \in MarkType /\ sub \in SubType /\ exts \in Nat /\ logs \in Nat
    BY LiveTypes DEF LiveIInv
  <2>2. mark.seq <= Len(log) /\ (sub.pc # "none" => sub.seq <= Len(log))
    BY DEF LiveIInv, MarkInv, SubInv
  <2>3. Len(log') \in Nat /\ logs' \in Nat
    BY <1>1, <1>4, <2>1
  <2> QED
    BY <2>1, <2>2, <2>3 DEF MarkType, SubType
<1>7. /\ logs' = logs \/ (logs' = logs + 1 /\ due' = "plain")
      /\ exts' = exts \/ (exts' = exts + 1 /\ due' = "extensions")
      /\ due' # "none"
  BY <1>1, <1>6
<1>8. MarkInv' /\ SubInv' /\ SleepInv'
  <2>1. MarkInv'
    BY <1>2, <1>4, <1>6, <1>7 DEF MarkInv, LiveIInv
  <2>2. SubInv'
    <3>1. SubInv /\ Own \subseteq Own' /\ Len(log) <= Len(log')
      BY <1>4 DEF LiveIInv
    <3> QED
      BY <1>2, <1>4, <1>6, <3>1 DEF SubInv
  <2>3. SleepInv'
    <3>1. \A i \in Own' : i \in Own \/ i > mark.seq
      BY <1>4, <1>6
    <3> QED
      BY <1>2, <3>1 DEF LiveIInv, SleepInv, WithLogs
  <2> QED
    BY <2>1, <2>2, <2>3
<1>9. ASSUME NEW v, Known(v)
      PROVE  Known(v)'
  <2>1. Untold => Untold'
    <3>1. CASE page.of = "operations"
      BY <1>2, <1>4, <3>1 DEF Untold
    <3>2. CASE page.of = "extensions"
      BY <1>2, <3>2 DEF Untold
    <3>3. CASE page.of = "log"
      BY <1>2, <1>6, <1>7, <3>3 DEF Untold, LiveIInv, MarkInv
    <3> QED
      BY <3>1, <3>2, <3>3 DEF Untold
  <2>2. InFlight' = InFlight /\ sub' = sub /\ page' = page
    BY <1>2 DEF InFlight, Marks
  <2>3. Truth' # Truth /\ sub.pc # "none" => Untold'
    <3>1. CASE page.of = "operations"
      <4>1. page' = page /\ sub' = sub /\ (Own' = Own => Truth' = Truth)
        BY <1>2, <3>1, TruthIs, TruthNext
      <4> QED
        BY <1>4, <1>6, <3>1, <4>1 DEF Untold
    <3>2. CASE page.of = "extensions"
      BY <1>2, <1>7, <3>2, TruthIs, TruthNext DEF Untold
    <3>3. CASE page.of = "log"
      <4>1. page' = page /\ mark' = mark /\ (logs' = logs => Truth' = Truth)
        BY <1>2, <3>3, TruthIs, TruthNext
      <4>2. mark.logSeq <= logs
        BY DEF LiveIInv, MarkInv
      <4> QED
        BY <1>6, <1>7, <3>3, <4>1, <4>2 DEF Untold
    <3> QED
      BY <3>1, <3>2, <3>3, LiveTypes DEF LiveIInv, PageType, Pages
  <2> QED
    BY <1>9, <2>1, <2>2, <2>3 DEF Known
<1>10. PageInv'
  BY <1>2, <1>9 DEF LiveIInv, PageInv, WithLogs
<1> QED
  BY <1>2, <1>5, <1>8, <1>10 DEF LiveIInv

\* Announcing it: the subscription is woken, or the change stays ahead of the channel.
LEMMA AnnounceInv == ASSUME LiveIInv, Announce PROVE LiveIInv'
<1>1. /\ due # "none" /\ due' = "none" /\ process = "up"
      /\ UNCHANGED <<log, exts, logs, inst, process, commits, wire, gui, page>>
  BY DEF Announce, view
<1>2. Own' = Own /\ Truth' = Truth /\ InFlight' = InFlight
  BY <1>1 DEF Own, Truth, InFlight, Marks
<1>3. PICK m \in MarkType :
         /\ Tell(m)
         /\ lost' \in BOOLEAN /\ mishaps' \in Nat /\ (lost => lost')
         /\ m.seq <= Len(log) /\ m.logSeq <= logs /\ m.exts <= m.res /\ m.logs <= m.res
         /\ m.available => m.seq = Len(log) /\ m.logSeq = logs
         /\ mark.res <= m.res
         /\ mark.exts <= m.exts /\ mark.logs <= m.logs
         /\ due = "extensions" => m.exts = mark.res + 1 \/ lost'
         /\ mark.logSeq # logs => m.logs = mark.res + 1 \/ m.logSeq # logs
  <2>1. CASE Tell(Announced(mark, due = "extensions")) /\ UNCHANGED <<lost, mishaps>>
    <3> DEFINE a == Announced(mark, due = "extensions")
    <3>1. /\ a \in MarkType
          /\ a.seq = Len(log) /\ a.logSeq = logs /\ a.available
          /\ mark.res <= a.res /\ a.exts <= a.res /\ a.logs <= a.res
          /\ IF due = "extensions" THEN a.exts = mark.res + 1 ELSE a.exts = mark.exts
          /\ IF mark.logSeq # logs THEN a.logs = mark.res + 1 ELSE a.logs = mark.logs
      <4>1. /\ LiveTypeOK /\ mark \in MarkType /\ mark.exts <= mark.res
            /\ mark.logs <= mark.res /\ (due = "extensions") \in BOOLEAN
        BY LiveTypes DEF LiveIInv, MarkInv
      <4> QED
        BY <4>1, AnnouncedFacts, Zenon
    <3>2. Len(log) \in Nat /\ logs \in Nat /\ mark \in MarkType /\ mark.exts <= mark.res
          /\ mark.logs <= mark.res /\ lost \in BOOLEAN /\ mishaps \in Nat
      BY LiveTypes DEF LiveIInv, MarkInv
    <3> HIDE DEF a
    <3>3. Tell(a) /\ lost' = lost /\ mishaps' = mishaps
      BY <2>1 DEF a
    <3>4. /\ mark.res \in Nat /\ mark.exts \in Nat /\ mark.logs \in Nat
          /\ a.res \in Nat /\ a.exts \in Nat /\ a.logs \in Nat
      BY <3>1, <3>2 DEF MarkType
    <3>5. mark.exts <= a.exts /\ mark.logs <= a.logs
      BY <3>1, <3>2, <3>4
    <3>6. /\ a.seq <= Len(log) /\ a.logSeq <= logs
          /\ lost' \in BOOLEAN /\ mishaps' \in Nat /\ (lost => lost')
      BY <3>1, <3>2, <3>3
    <3> QED
      BY <3>1, <3>3, <3>5, <3>6
  <2>2. CASE /\ Mishap /\ Tell([mark EXCEPT !.available = FALSE])
             /\ lost' = (lost \/ due = "extensions")
    <3> DEFINE a == [mark EXCEPT !.available = FALSE]
    <3>1. /\ a \in MarkType /\ a.seq = mark.seq /\ a.logSeq = mark.logSeq /\ a.exts = mark.exts
          /\ a.logs = mark.logs /\ a.res = mark.res /\ ~a.available
      BY LiveTypes DEF LiveIInv, MarkType
    <3>2. mark \in MarkType /\ mark.seq <= Len(log) /\ mark.logSeq <= logs
          /\ mark.exts <= mark.res /\ mark.logs <= mark.res
      BY LiveTypes DEF LiveIInv, MarkInv
    <3>3. Tell(a) /\ lost' \in BOOLEAN /\ (lost => lost') /\ (due = "extensions" => lost')
      BY <2>2
    <3>4. mishaps' \in Nat
      BY <2>2, LiveTypes DEF LiveIInv, Mishap
    <3> HIDE DEF a
    <3> QED
      BY <3>1, <3>2, <3>3, <3>4 DEF MarkType
  <2> QED
    BY <2>1, <2>2 DEF Announce
<1>4. /\ mark' = m /\ sub' \in SubType
      /\ sub'.pc = sub.pc /\ sub'.seq = sub.seq /\ sub'.rev = sub.rev /\ sub'.found = sub.found
      /\ sub.pc # "none" /\ ~sub'.unseen => ~sub.unseen /\ m = mark
  BY <1>3, TellFacts, LiveTypes DEF LiveIInv
<1>5. LiveTypeOK'
  BY <1>1, <1>3, <1>4, LiveTypesBack, LiveTypes DEF LiveIInv
<1>6. MarkInv'
  BY <1>1, <1>3, <1>4 DEF MarkInv
<1>7. SubInv'
  <2>1. sub.rev \in Nat /\ mark.res \in Nat /\ m.res \in Nat
    BY <1>3, LiveTypes DEF LiveIInv, SubType, MarkType
  <2> SUFFICES ASSUME sub'.pc # "none"
               PROVE  /\ process' = "up" /\ sub'.rev <= m.res /\ sub'.seq <= Len(log)
                      /\ sub'.found \subseteq Own /\ (~sub'.unseen => m.available)
    BY <1>1, <1>2, <1>4 DEF SubInv
  <2>2. /\ sub.pc # "none" /\ sub.rev <= mark.res /\ sub.seq <= Len(log) /\ sub.found \subseteq Own
        /\ ~sub.unseen => mark.available
    BY <1>4 DEF LiveIInv, SubInv
  <2>3. sub'.rev <= m.res
    BY <1>3, <1>4, <2>1, <2>2
  <2> QED
    BY <1>1, <1>4, <2>2, <2>3
<1>8. SleepInv'
  BY <1>1, <1>2, <1>4 DEF LiveIInv, SleepInv, WithLogs
<1>9. ASSUME NEW v, Known(v)
      PROVE  Known(v)'
  <2>1. /\ sub.rev \in Nat /\ mark.res \in Nat /\ mark.exts \in Nat /\ mark.logs \in Nat
        /\ m.exts \in Nat /\ m.logs \in Nat
        /\ sub.pc # "none" => sub.rev <= mark.res
    BY <1>3, LiveTypes DEF LiveIInv, SubInv, MarkType, SubType
  <2>2. Untold /\ sub.pc # "none" => Untold'
    <3>1. sub'.seq = sub.seq /\ sub'.rev = sub.rev /\ mark' = m /\ page' = page /\ logs' = logs
      BY <1>1, <1>4
    <3>2. CASE page.of = "operations"
      BY <1>2, <3>1, <3>2 DEF Untold
    <3>3. CASE page.of = "extensions" /\ sub.pc # "none"
      BY <1>3, <2>1, <3>1, <3>3 DEF Untold
    <3>4. CASE page.of = "log" /\ sub.pc # "none"
      BY <1>3, <2>1, <3>1, <3>4 DEF Untold
    <3> QED
      BY <3>2, <3>3, <3>4 DEF Untold
  <2> QED
    BY <1>2, <1>4, <1>9, <2>2 DEF Known
<1>10. PageInv'
  BY <1>1, <1>9 DEF LiveIInv, PageInv, WithLogs
<1> QED
  BY <1>1, <1>5, <1>6, <1>7, <1>8, <1>10 DEF LiveIInv

\* A new opening of the store, or the end of one: there is no subscription.
LEMMA StartInv == ASSUME LiveIInv, Start PROVE LiveIInv'
<1> DEFINE zero == [seq |-> 0, res |-> 0, exts |-> 0, logs |-> 0, logSeq |-> 0,
                    available |-> FALSE]
           a == Announced(zero, FALSE)
<1>1. /\ process' = "up" /\ inst' = inst + 1 /\ mark' = a
      /\ UNCHANGED <<log, exts, logs, due, commits, sub, wire, gui, page, lost, mishaps>>
      /\ sub.pc = "none"
  BY DEF Start, view, LiveIInv, SubInv
<1>2. zero \in MarkType /\ zero.res = 0 /\ zero.exts = 0 /\ zero.logs = 0
  BY DEF MarkType
<1> HIDE DEF zero
<1>3. a \in MarkType /\ a.seq = Len(log) /\ a.logSeq = logs /\ a.exts <= a.res /\ a.logs <= a.res
  <2>1. LiveTypeOK /\ FALSE \in BOOLEAN /\ zero.exts <= zero.res /\ zero.logs <= zero.res
    BY <1>2 DEF LiveIInv
  <2> QED
    BY <1>2, <2>1, AnnouncedFacts, Zenon
<1> HIDE DEF a
<1>4. LiveTypeOK'
  BY <1>1, <1>3, LiveTypesBack, LiveTypes DEF LiveIInv
<1>5. MarkInv' /\ SubInv' /\ SleepInv'
  BY <1>1, <1>3, LiveTypes DEF MarkInv, SubInv, SleepInv, LiveIInv
<1>6. PageInv'
  BY <1>1 DEF LiveIInv, PageInv, WithLogs, Known
<1> QED
  BY <1>1, <1>4, <1>5, <1>6 DEF LiveIInv

LEMMA CrashInv == ASSUME LiveIInv, Crash PROVE LiveIInv'
<1>1. /\ process' = "down" /\ due' = "none" /\ sub' = NoSub /\ mishaps' = mishaps + 1
      /\ UNCHANGED <<log, exts, logs, mark, inst, commits, gui, page, lost>>
      /\ wire' \in Seq(Message)
  BY DEF Crash, Mishap, view, LiveIInv
<1>2. LiveTypeOK'
  BY <1>1, NoSubFacts, LiveTypesBack, LiveTypes DEF LiveIInv
<1>3. MarkInv' /\ SubInv' /\ SleepInv'
  BY <1>1, NoSubFacts DEF MarkInv, SubInv, SleepInv, LiveIInv
<1>4. PageInv'
  BY <1>1, NoSubFacts DEF LiveIInv, PageInv, WithLogs, Known
<1> QED
  BY <1>1, <1>2, <1>3, <1>4 DEF LiveIInv

\* Steps of the subscription, the GUI and the page: the store has what it had.
LEMMA CoreStays ==
    ASSUME LiveTypeOK, MarkInv, UNCHANGED core
    PROVE  /\ UNCHANGED <<log, exts, logs, due, mark, inst, process, commits>>
           /\ Own' = Own /\ MarkInv'
           /\ page'.of = page.of => Truth' = Truth
<1>1. UNCHANGED <<log, exts, logs, due, mark, inst, process, commits>>
  BY DEF core
<1>2. Own' = Own /\ MarkInv'
  BY <1>1 DEF Own, MarkInv
<1>3. page'.of = page.of => Truth' = Truth
  BY <1>1, <1>2, LiveTypes, TruthIs, TruthNext DEF PageType, Pages
<1> QED
  BY <1>1, <1>2, <1>3

\* The type invariant after a step that leaves the store alone.
LEMMA CoreTypes ==
    ASSUME LiveTypeOK, UNCHANGED core, sub' \in SubType, gui' \in GuiType, page' \in PageType,
           lost' \in BOOLEAN, mishaps' \in Nat
    PROVE  LiveTypeOK'
BY LiveTypes, LiveTypesBack DEF core

\* Without a subscription only the types and the page's kind are left to show.
LEMMA NoSubInv ==
    ASSUME LiveIInv, UNCHANGED core, sub' = NoSub, gui' \in GuiType, page' \in PageType,
           gui'.logs = gui.logs, page'.of = page.of, wire' \in Seq(Message),
           lost' \in BOOLEAN, mishaps' \in Nat
    PROVE  LiveIInv'
<1>1. LiveTypeOK' /\ MarkInv'
  BY CoreTypes, CoreStays, NoSubFacts DEF LiveIInv
<1>2. SubInv' /\ SleepInv' /\ PageInv'
  BY NoSubFacts DEF LiveIInv, SubInv, SleepInv, PageInv, Known, WithLogs
<1> QED
  BY <1>1, <1>2 DEF LiveIInv

LEMMA ConnectInv == ASSUME LiveIInv, Connect PROVE LiveIInv'
<1> DEFINE resync == MustResync(gui.accepted)
           base   == IF resync THEN [inst |-> inst, seq |-> mark.seq, rev |-> ResourcesFor(mark)]
                               ELSE gui.accepted
<1>1. /\ process = "up" /\ mark.available
      /\ sub' = [NoSub EXCEPT !.pc = "sample", !.seq = base.seq, !.rev = base.rev]
      /\ wire' = <<[type |-> "ready", resync |-> resync, cursor |-> base]>>
      /\ gui' = [gui EXCEPT !.link = "opening"]
      /\ UNCHANGED core /\ page' = page /\ lost' = lost /\ mishaps' = mishaps
  BY DEF Connect
<1>2. resync \in BOOLEAN
  BY DEF MustResync
<1>3. mark \in MarkType /\ gui \in GuiType /\ inst \in Nat /\ Len(log) \in Nat
  BY LiveTypes, OwnFacts DEF LiveIInv
<1>4. ResourcesFor(mark) \in Nat /\ ResourcesFor(mark) <= mark.res
  BY <1>3 DEF ResourcesFor, MarkType, LiveIInv, MarkInv
<1>5. base \in Cursor /\ base.seq <= Len(log) /\ base.rev <= mark.res
  <2>1. CASE resync
    BY <1>3, <1>4, <2>1 DEF Cursor, MarkType, LiveIInv, MarkInv
  <2>2. CASE ~resync
    BY <1>3, <1>4, <2>2 DEF Cursor, MarkType, GuiType, MustResync, LiveIInv, MarkInv
  <2> QED
    BY <2>1, <2>2
<1> HIDE DEF base, resync
<1>6. /\ sub' \in SubType /\ sub'.pc = "sample" /\ sub'.seq = base.seq /\ sub'.rev = base.rev
      /\ sub'.found = {}
  BY <1>1, <1>5 DEF NoSub, SubType, Cursor
<1>7. gui' \in GuiType /\ gui'.link = "opening" /\ gui'.logs = gui.logs
  BY <1>1, <1>3 DEF GuiType
<1>8. wire' \in Seq(Message)
  <2>1. [type |-> "ready", resync |-> resync, cursor |-> base] \in Message
    BY <1>2, <1>5, MessageFacts
  <2> HIDE DEF Message
  <2> QED
    BY <1>1, <2>1
<1>9. LiveTypeOK' /\ MarkInv'
  BY <1>1, <1>6, <1>7, CoreTypes, CoreStays, LiveTypes DEF LiveIInv
<1>10. SubInv' /\ SleepInv'
  BY <1>1, <1>5, <1>6 DEF core, SubInv, SleepInv
<1>11. PageInv'
  BY <1>1, <1>7 DEF LiveIInv, PageInv, WithLogs
<1> QED
  BY <1>8, <1>9, <1>10, <1>11 DEF LiveIInv

\* Steps that move the subscription and send nothing.
LEMMA SubMoves ==
    ASSUME LiveIInv, UNCHANGED <<core, wire, view, lost, mishaps>>,
           sub' \in SubType, sub.pc # "none", sub'.seq = sub.seq, sub'.rev = sub.rev,
           SubInv', SleepInv'
    PROVE  LiveIInv'
<1>1. UNCHANGED <<wire, gui, page, lost, mishaps>> /\ UNCHANGED core
  BY DEF view
<1>2. LiveTypeOK' /\ MarkInv'
  BY <1>1, CoreTypes, CoreStays, LiveTypes DEF LiveIInv
<1>3. /\ UNCHANGED <<log, exts, logs, due, mark, inst, process, commits>>
      /\ Own' = Own /\ Truth' = Truth
  BY <1>1, CoreStays DEF LiveIInv
<1>4. ASSUME NEW v, Known(v)
      PROVE  Known(v)'
  <2>1. InFlight' = InFlight /\ Untold' = Untold
    BY <1>1, <1>3 DEF InFlight, Untold, Marks
  <2> QED
    BY <1>3, <1>4, <2>1 DEF Known
<1>5. PageInv'
  BY <1>1, <1>4 DEF LiveIInv, PageInv, WithLogs
<1> QED
  BY <1>1, <1>2, <1>5 DEF LiveIInv

LEMMA SampleInv == ASSUME LiveIInv, Sample PROVE LiveIInv'
<1>1. sub \in SubType /\ sub.pc # "none" /\ UNCHANGED <<core, wire, view, lost, mishaps>>
  BY LiveTypes DEF LiveIInv, Sample
<1>2. CASE mark.available
  <2>1. sub' = [sub EXCEPT !.pc = "read", !.unseen = FALSE]
    BY <1>2 DEF Sample
  <2>2. sub' \in SubType /\ sub'.pc = "read" /\ sub'.seq = sub.seq /\ sub'.rev = sub.rev
        /\ sub'.found = sub.found
    BY <1>1, <2>1 DEF SubType
  <2>3. SubInv' /\ SleepInv'
    BY <1>1, <1>2, <2>2, CoreStays DEF LiveIInv, SubInv, SleepInv
  <2> QED
    BY <1>1, <2>2, <2>3, SubMoves
<1>3. CASE ~mark.available
  <2>1. sub' = NoSub
    BY <1>3 DEF Sample
  <2> QED
    BY <1>1, <2>1, NoSubInv, LiveTypes DEF LiveIInv, view
<1> QED
  BY <1>2, <1>3

\* list_events returns nothing only if there is nothing.
LEMMA FoundFacts ==
    ASSUME LiveTypeOK, NEW after \in Nat
    PROVE  /\ Found(after) \subseteq Own
           /\ Found(after) = {} => \A i \in Own : ~(i > after)
<1> DEFINE R == OpToRel(<, Nat)
           Later == {i \in Own : i > after}
<1>1. IsWellFoundedOn(R, Nat)
  BY NatLessThanWellFounded
<1>2. \A i \in Own : i \in Nat
  BY OwnFacts
<1>3. ASSUME Later # {}
      PROVE  Found(after) # {}
  <2>1. PICK i \in Later : \A j \in Later : ~(<<j, i>> \in R)
    <3> HIDE DEF R
    <3> QED
      BY <1>1, <1>2, <1>3, WFMin
  <2>2. \A j \in Own : ~(after < j /\ j < i)
    BY <1>2, <2>1 DEF OpToRel
  <2>3. {j \in Own : after < j /\ j < i} = {}
    BY <2>2
  <2>4. Cardinality({j \in Own : after < j /\ j < i}) = 0
    BY <2>3, FS_EmptySet
  <2>5. i \in Own /\ i > after
    BY <2>1
  <2>6. Cardinality({j \in Own : after < j /\ j < i}) < Limit
    BY <2>4 DEF Limit
  <2>7. i \in Found(after)
    BY <2>5, <2>6, Zenon DEF Found
  <2> QED
    BY <2>7
<1> QED
  BY <1>3 DEF Found

LEMMA ReadInv == ASSUME LiveIInv, Read PROVE LiveIInv'
<1>1. sub \in SubType /\ sub.pc = "read" /\ UNCHANGED <<core, wire, view, lost, mishaps>>
      /\ due = "none" /\ sub' = [sub EXCEPT !.pc = "resample", !.found = Found(sub.seq)]
  BY LiveTypes DEF LiveIInv, Read
<1>2. Found(sub.seq) \subseteq Own /\ (Found(sub.seq) = {} => \A i \in Own : ~(i > sub.seq))
      /\ Own \subseteq Nat
  BY <1>1, FoundFacts, OwnFacts DEF SubType, LiveIInv
<1>3. sub' \in SubType /\ sub'.pc = "resample" /\ sub'.seq = sub.seq /\ sub'.rev = sub.rev
      /\ sub'.unseen = sub.unseen /\ sub'.found = Found(sub.seq)
  BY <1>1, <1>2 DEF SubType
<1>4. SubInv' /\ SleepInv'
  BY <1>1, <1>2, <1>3, CoreStays DEF LiveIInv, SubInv, SleepInv
<1> QED
  BY <1>1, <1>3, <1>4, SubMoves

\* The subscription sleeps only on a watermark it has sent.
LEMMA ResampleInv == ASSUME LiveIInv, Resample PROVE LiveIInv'
<1>1. sub \in SubType /\ sub.pc = "resample" /\ sub.found = {} /\ ResourcesFor(mark) = sub.rev
      /\ UNCHANGED <<core, wire, view, lost, mishaps>> /\ sub' = [sub EXCEPT !.pc = "wait"]
  BY LiveTypes DEF LiveIInv, Resample
<1>2. sub' \in SubType /\ sub'.pc = "wait" /\ sub'.seq = sub.seq /\ sub'.rev = sub.rev
      /\ sub'.unseen = sub.unseen /\ sub'.found = sub.found
  BY <1>1 DEF SubType
<1>3. /\ UNCHANGED <<mark, process, log, gui>> /\ Own' = Own
  BY <1>1, CoreStays DEF LiveIInv, view
<1>4. mark.exts <= sub.rev /\ (WithLogs => mark.logs <= sub.rev)
  BY <1>1, LiveTypes DEF LiveIInv, MarkInv, ResourcesFor, MarkType
<1>5. SubInv' /\ SleepInv'
  BY <1>1, <1>2, <1>3, <1>4 DEF LiveIInv, SubInv, SleepInv, WithLogs
<1> QED
  BY <1>1, <1>2, <1>5, SubMoves

LEMMA ResampleClosedInv == ASSUME LiveIInv, ResampleClosed PROVE LiveIInv'
BY NoSubInv, LiveTypes DEF LiveIInv, ResampleClosed, view

LEMMA ToldFacts ==
    /\ Told \subseteq Scopes
    /\ mark.exts > sub.rev => "extensions" \in Told
    /\ WithLogs /\ mark.logs > sub.rev => "log" \in Told
<1>1. ASSUME mark.exts > sub.rev PROVE "extensions" \in Told
  BY <1>1, Zenon DEF Told, Scopes
<1>2. ASSUME WithLogs, mark.logs > sub.rev PROVE "log" \in Told
  <2>1. "log" # "extensions"
    OBVIOUS
  <2> QED
    BY <1>2, <2>1, Zenon DEF Told, Scopes
<1> QED
  BY <1>1, <1>2 DEF Told

\* A batch: what the page has to be told of is in it, or still ahead of it.
LEMMA SendInv == ASSUME LiveIInv, Send PROVE LiveIInv'
<1>1. sub \in SubType /\ sub.pc = "resample" /\ UNCHANGED <<core, view, lost, mishaps>>
  BY LiveTypes DEF LiveIInv, Send
<1>2. PICK end \in sub.found \cup IF Told # {} \/ sub.found = {} THEN {sub.seq} ELSE {} :
         /\ wire' = Append(wire,
               [type |-> "batch", events |-> {i \in sub.found : i <= end}, scopes |-> Told,
                cursor |-> [inst |-> inst, seq |-> end, rev |-> ResourcesFor(mark)]])
         /\ sub' = [sub EXCEPT !.pc = "sample", !.seq = end, !.rev = ResourcesFor(mark),
                               !.found = {}]
  BY DEF Send
<1> DEFINE c == [inst |-> inst, seq |-> end, rev |-> ResourcesFor(mark)]
<1>3. /\ UNCHANGED <<log, exts, logs, due, mark, inst, process, gui, page, lost, mishaps>>
      /\ Own' = Own /\ Truth' = Truth /\ MarkInv'
  BY <1>1, CoreStays DEF LiveIInv, view
<1>4. /\ ResourcesFor(mark) \in Nat /\ ResourcesFor(mark) <= mark.res
      /\ inst \in Nat /\ end \in Nat /\ end <= Len(log)
  <2>1. mark \in MarkType /\ inst \in Nat /\ \A i \in Own : i \in Nat /\ i <= Len(log)
    BY LiveTypes, OwnFacts DEF LiveIInv
  <2> QED
    BY <1>1, <1>2, <2>1 DEF ResourcesFor, MarkType, SubType, LiveIInv, MarkInv, SubInv
<1>5. /\ sub' \in SubType /\ sub'.pc = "sample" /\ sub'.seq = end
      /\ sub'.rev = ResourcesFor(mark) /\ sub'.unseen = sub.unseen /\ sub'.found = {}
  BY <1>1, <1>2, <1>4 DEF SubType
<1>6. PICK m : m = [type |-> "batch", events |-> {i \in sub.found : i <= end},
                   scopes |-> Told, cursor |-> c]
  OBVIOUS
<1>7. /\ m \in Message /\ m.type = "batch" /\ m.scopes = Told
      /\ m.events = {i \in sub.found : i <= end}
  <2>1. {i \in sub.found : i <= end} \in SUBSET Nat /\ Told \in SUBSET Scopes
    BY <1>1, ToldFacts DEF SubType
  <2>2. c \in Cursor
    BY <1>4 DEF Cursor
  <2> HIDE DEF c
  <2> QED
    BY <1>6, <2>1, <2>2, MessageFacts
<1>8. wire' = Append(wire, m) /\ wire \in Seq(Message)
  BY <1>2, <1>6 DEF LiveIInv
<1> HIDE DEF c, Message
<1>9. /\ wire' \in Seq(Message)
      /\ DOMAIN wire' = DOMAIN wire \cup {Len(wire) + 1}
      /\ \A i \in DOMAIN wire : wire'[i] = wire[i]
      /\ wire'[Len(wire) + 1] = m
  BY <1>7, <1>8
<1>10. LiveTypeOK'
  BY <1>1, <1>3, <1>5, CoreTypes, LiveTypes DEF LiveIInv
<1>11. SubInv' /\ SleepInv'
  BY <1>1, <1>3, <1>4, <1>5 DEF LiveIInv, SubInv, SleepInv
<1>12. InFlight => InFlight'
  BY <1>3, <1>9 DEF InFlight, Marks
<1>13. Marks(m)' => InFlight'
  BY <1>7, <1>9 DEF InFlight
<1>14. ASSUME Untold
       PROVE  Untold' \/ Marks(m)'
  <2>1. CASE page.of = "operations"
    <3>1. PICK i \in Own : i > sub.seq
      BY <1>14, <2>1 DEF Untold
    <3>2. CASE end = sub.seq
      BY <1>3, <1>5, <2>1, <3>1, <3>2 DEF Untold
    <3>3. CASE end \in sub.found
      <4>1. end \in m.events
        BY <1>4, <1>7, <3>3
      <4> QED
        BY <1>3, <2>1, <4>1 DEF Marks
    <3> QED
      BY <1>2, <3>2, <3>3
  <2>2. CASE page.of = "extensions"
    BY <1>3, <1>7, <1>14, <2>2, ToldFacts DEF Untold, Marks
  <2>3. CASE page.of = "log"
    BY <1>3, <1>7, <1>14, <2>3, ToldFacts DEF Untold, Marks, LiveIInv, PageInv
  <2> QED
    BY <1>14, <2>1, <2>2, <2>3 DEF Untold
<1>15. ASSUME NEW v, Known(v)
       PROVE  Known(v)'
  BY <1>1, <1>3, <1>12, <1>13, <1>14, <1>15 DEF Known
<1>16. PageInv'
  BY <1>3, <1>15 DEF LiveIInv, PageInv, WithLogs
<1> QED
  BY <1>3, <1>9, <1>10, <1>11, <1>16 DEF LiveIInv

-----------------------------------------------------------------------------
(* The GUI *)

LEMMA FailedInv ==
    ASSUME LiveIInv, UNCHANGED core, NEW link \in {"off", "stopped"},
           NEW c \in Cursor \cup {None}, Failed(link, c), lost' \in BOOLEAN, mishaps' \in Nat
    PROVE  LiveIInv'
<1>1. /\ gui' \in GuiType /\ gui'.logs = gui.logs
      /\ page' \in PageType /\ page'.of = page.of
      /\ sub' = NoSub /\ wire' = <<>>
  BY FailedFacts, LiveTypes DEF LiveIInv
<1> QED
  BY <1>1, NoSubInv

\* The first of the messages is taken.
LEMMA TakenFacts ==
    ASSUME wire \in Seq(Message), wire # <<>>
    PROVE  /\ Head(wire) \in Message /\ Head(wire).cursor \in Cursor
           /\ Tail(wire) \in Seq(Message)
           /\ Head(wire) = wire[1] /\ 1 \in DOMAIN wire
           /\ \A i \in DOMAIN wire : i # 1 => i - 1 \in DOMAIN Tail(wire)
                                              /\ Tail(wire)[i - 1] = wire[i]
<1>1. /\ Head(wire) \in Message /\ Tail(wire) \in Seq(Message)
      /\ Head(wire) = wire[1] /\ 1 \in DOMAIN wire
  OBVIOUS
<1>2. \A i \in DOMAIN wire : i # 1 => i - 1 \in DOMAIN Tail(wire) /\ Tail(wire)[i - 1] = wire[i]
  OBVIOUS
<1> QED
  BY <1>1, <1>2, MessageFacts

\* Steps of the GUI that leave the subscription alone.
LEMMA GuiMoves ==
    ASSUME LiveIInv, UNCHANGED <<core, sub>>, gui' \in GuiType, gui'.logs = gui.logs,
           page' \in PageType, page'.of = page.of, wire' \in Seq(Message),
           lost' \in BOOLEAN, mishaps' \in Nat, PageInv'
    PROVE  LiveIInv'
<1>1. LiveTypeOK' /\ MarkInv'
  BY CoreTypes, CoreStays, LiveTypes DEF LiveIInv
<1>2. SubInv' /\ SleepInv'
  BY CoreStays DEF LiveIInv, SubInv, SleepInv, WithLogs
<1> QED
  BY <1>1, <1>2 DEF LiveIInv

LEMMA ReceiveReadyInv == ASSUME LiveIInv, ReceiveReady PROVE LiveIInv'
<1> DEFINE m == Head(wire)
<1>1. UNCHANGED core /\ mishaps' = mishaps /\ lost \in BOOLEAN /\ mishaps \in Nat
      /\ gui \in GuiType /\ page \in PageType /\ wire \in Seq(Message) /\ wire # <<>>
  BY LiveTypes DEF LiveIInv, ReceiveReady
<1>2. CASE ~m.resync /\ m.cursor # gui.accepted
  <2>1. Failed("stopped", gui.accepted) /\ lost' = lost
    BY <1>2 DEF ReceiveReady
  <2>2. gui.accepted \in Cursor \cup {None}
    BY <1>1 DEF GuiType
  <2> QED
    BY <1>1, <2>1, <2>2, FailedInv
<1>3. CASE ~(~m.resync /\ m.cursor # gui.accepted)
  <2>1. /\ gui' = [gui EXCEPT !.link = "up", !.accepted = m.cursor, !.inst = m.cursor.inst,
                              !.seq = m.cursor.seq, !.rev = m.cursor.rev]
        /\ page' = Marked /\ wire' = Tail(wire) /\ lost' = FALSE /\ sub' = sub
    BY <1>3 DEF ReceiveReady
  <2>2. m.cursor \in Cursor /\ wire' \in Seq(Message)
    BY <1>1, <2>1, TakenFacts
  <2> HIDE DEF m
  <2>3. gui' \in GuiType /\ gui'.logs = gui.logs
    BY <1>1, <2>1, <2>2 DEF GuiType, Cursor
  <2>4. page' \in PageType /\ page'.of = page.of /\ page'.dirty
    BY <1>1, <2>1, RejectedFacts
  <2>5. PageInv'
    BY <2>3, <2>4 DEF LiveIInv, PageInv, WithLogs
  <2> QED
    BY <1>1, <2>1, <2>2, <2>3, <2>4, <2>5, GuiMoves
<1> QED
  BY <1>2, <1>3

\* A batch marks the page, unless it says nothing of it.
LEMMA ReceiveBatchInv == ASSUME LiveIInv, ReceiveBatch PROVE LiveIInv'
<1> DEFINE m == Head(wire)
<1>1. UNCHANGED <<core, lost, mishaps>> /\ lost \in BOOLEAN /\ mishaps \in Nat
      /\ gui \in GuiType /\ page \in PageType /\ wire \in Seq(Message) /\ wire # <<>>
      /\ gui.link = "up"
  BY LiveTypes DEF LiveIInv, ReceiveBatch
<1>2. CASE ~Acceptable(m)
  <2>1. Failed("stopped", gui.accepted)
    BY <1>2 DEF ReceiveBatch
  <2>2. gui.accepted \in Cursor \cup {None}
    BY <1>1 DEF GuiType
  <2> QED
    BY <1>1, <2>1, <2>2, FailedInv
<1>3. CASE Acceptable(m)
  <2>1. /\ gui' = [gui EXCEPT !.link = "acking", !.seq = m.cursor.seq, !.rev = m.cursor.rev]
        /\ page' = IF Marks(m) THEN [Marked EXCEPT !.stale = page.read # "idle"] ELSE page
        /\ wire' = Tail(wire) /\ sub' = sub
    BY <1>3 DEF ReceiveBatch, Marks
  <2>2. /\ m.cursor \in Cursor /\ wire' \in Seq(Message) /\ m = wire[1]
        /\ \A i \in DOMAIN wire : i # 1 => i - 1 \in DOMAIN wire' /\ wire'[i - 1] = wire[i]
    BY <1>1, <2>1, TakenFacts
  <2> HIDE DEF m
  <2>3. gui' \in GuiType /\ gui'.logs = gui.logs
    BY <1>1, <2>1, <2>2 DEF GuiType, Cursor
  <2>4. /\ page' \in PageType /\ page'.of = page.of
        /\ IF Marks(m) THEN page'.dirty ELSE page' = page
    <3>1. [Marked EXCEPT !.stale = page.read # "idle"] \in PageType
          /\ [Marked EXCEPT !.stale = page.read # "idle"].of = page.of
          /\ [Marked EXCEPT !.stale = page.read # "idle"].dirty
      BY <1>1, RejectedFacts DEF PageType
    <3> QED
      BY <1>1, <2>1, <3>1
  <2>5. PageInv'
    <3>1. CASE Marks(m)
      BY <2>3, <2>4, <3>1 DEF LiveIInv, PageInv, WithLogs
    <3>2. CASE ~Marks(m)
      <4>1. page' = page /\ UNCHANGED <<sub, mark, due, logs, lost>> /\ Own' = Own
            /\ Truth' = Truth
        BY <1>1, <2>1, <2>4, <3>2, CoreStays DEF LiveIInv
      <4>2. InFlight => InFlight'
        BY <2>2, <3>2, <4>1 DEF InFlight, Marks
      <4>3. Untold => Untold'
        BY <4>1 DEF Untold
      <4>4. ASSUME NEW v, Known(v)
            PROVE  Known(v)'
        BY <4>1, <4>2, <4>3, <4>4 DEF Known
      <4> QED
        BY <1>1, <2>3, <4>1, <4>4 DEF LiveIInv, PageInv, WithLogs
    <3> QED
      BY <3>1, <3>2
  <2> QED
    BY <1>1, <2>1, <2>2, <2>3, <2>4, <2>5, GuiMoves
<1> QED
  BY <1>2, <1>3

LEMMA AcknowledgedInv == ASSUME LiveIInv, Acknowledged PROVE LiveIInv'
<1>1. /\ gui.link = "acking"
      /\ gui' = [gui EXCEPT !.link = "up",
                            !.accepted = [inst |-> gui.inst, seq |-> gui.seq, rev |-> gui.rev]]
      /\ UNCHANGED <<core, sub, wire, page, lost, mishaps>>
  BY DEF Acknowledged
<1>2. gui \in GuiType /\ page \in PageType /\ lost \in BOOLEAN /\ mishaps \in Nat
  BY LiveTypes DEF LiveIInv
<1>3. [inst |-> gui.inst, seq |-> gui.seq, rev |-> gui.rev] \in Cursor
  BY <1>2 DEF GuiType, Cursor
<1>4. gui' \in GuiType /\ gui'.logs = gui.logs
  BY <1>1, <1>2, <1>3 DEF GuiType
<1>5. UNCHANGED <<mark, due, logs>> /\ Own' = Own /\ Truth' = Truth
  BY <1>1, CoreStays DEF LiveIInv
<1>6. ASSUME NEW v, Known(v)
      PROVE  Known(v)'
  <2>1. InFlight' = InFlight /\ Untold' = Untold
    BY <1>1, <1>5 DEF InFlight, Untold, Marks
  <2> QED
    BY <1>1, <1>5, <1>6, <2>1 DEF Known
<1>7. PageInv'
  BY <1>1, <1>4, <1>6 DEF LiveIInv, PageInv, WithLogs
<1> QED
  BY <1>1, <1>2, <1>4, <1>7, GuiMoves DEF LiveIInv

\* The connection is given up or lost, or the page is loaded again.
LEMMA EndInv ==
    ASSUME LiveIInv, AckTimeout \/ Ended \/ Reload \/ Drop
    PROVE  LiveIInv'
<1>1. /\ gui \in GuiType /\ page \in PageType /\ wire \in Seq(Message)
      /\ lost \in BOOLEAN /\ mishaps \in Nat
  BY LiveTypes DEF LiveIInv
<1>2. CASE AckTimeout
  BY <1>1, <1>2, FailedInv DEF AckTimeout, Mishap
<1>3. CASE Ended
  <2>1. gui.accepted \in Cursor \cup {None}
    BY <1>1 DEF GuiType
  <2> QED
    BY <1>1, <1>3, <2>1, FailedInv DEF Ended
<1>4. CASE Reload
  <2>1. gui' \in GuiType /\ gui'.logs = gui.logs
    BY <1>1, <1>4 DEF Reload, GuiType
  <2>2. page' \in PageType /\ page'.of = page.of
    BY <1>1, <1>4 DEF Reload, Fresh, PageType
  <2>3. /\ UNCHANGED core /\ sub' = NoSub /\ wire' = <<>>
        /\ lost' = lost /\ mishaps' = mishaps + 1
    BY <1>4 DEF Reload, Mishap
  <2> QED
    BY <1>1, <2>1, <2>2, <2>3, NoSubInv
<1>5. CASE Drop
  <2>1. wire' \in Seq(Message)
    BY <1>1, <1>5 DEF Drop
  <2>2. /\ UNCHANGED <<core, gui, page>> /\ sub' = NoSub /\ lost' = lost
        /\ mishaps' = mishaps + 1
    BY <1>5 DEF Drop, Mishap, view
  <2> QED
    BY <1>1, <2>1, <2>2, NoSubInv
<1> QED
  BY <1>2, <1>3, <1>4, <1>5

\* Steps of the page alone.
LEMMA PageMoves ==
    ASSUME LiveIInv, UNCHANGED <<core, sub, wire, gui, lost>>, mishaps' \in Nat,
           page' \in PageType, page'.of = page.of,
           ~page'.dirty /\ page'.read = "idle" =>
              \/ page'.shown = Truth
              \/ page.read = "answered" /\ ~page.stale /\ ~page.dirty /\ page'.shown = page.value
              \/ page.read = "idle" /\ ~page.dirty /\ page'.shown = page.shown,
           ~page'.dirty /\ page'.read = "answered" /\ ~page'.stale =>
              \/ page'.value = Truth
              \/ page.read = "answered" /\ ~page.stale /\ ~page.dirty /\ page'.value = page.value
    PROVE  LiveIInv'
<1>1. UNCHANGED <<mark, due, logs>> /\ Own' = Own /\ Truth' = Truth
  BY CoreStays DEF LiveIInv
<1>2. ASSUME NEW v
      PROVE  Known(v) => Known(v)'
  <2>1. InFlight' = InFlight /\ Untold' = Untold
    BY <1>1 DEF InFlight, Untold, Marks
  <2> QED
    BY <1>1, <2>1 DEF Known
<1>3. ASSUME NEW v
      PROVE  v = Truth => Known(v)'
  BY <1>1 DEF Known
<1>4. gui \in GuiType /\ lost \in BOOLEAN
  BY LiveTypes DEF LiveIInv
<1>5. PageInv'
  <2> SUFFICES ASSUME gui.link \in {"up", "acking"}, ~page'.dirty
               PROVE  /\ page'.read = "idle" => Known(page.shown)'
                      /\ page'.read = "answered" /\ ~page'.stale => Known(page.value)'
    BY DEF LiveIInv, PageInv, WithLogs
  <2>1. PICK s, u : s = page'.shown /\ u = page'.value
    OBVIOUS
  <2>2. page'.read = "idle" => s = Truth \/ Known(s)
    BY <2>1 DEF LiveIInv, PageInv
  <2>3. page'.read = "answered" /\ ~page'.stale => u = Truth \/ Known(u)
    BY <2>1 DEF LiveIInv, PageInv
  <2>4. page'.read = "idle" => Known(s)'
    BY <1>2, <1>3, <2>2
  <2>5. page'.read = "answered" /\ ~page'.stale => Known(u)'
    BY <1>2, <1>3, <2>3
  <2> QED
    BY <2>1, <2>4, <2>5 DEF Known
<1> QED
  BY <1>4, <1>5, GuiMoves DEF LiveIInv

LEMMA ReadsInv ==
    ASSUME LiveIInv, StartRead \/ Take \/ ReadFails \/ RetryRead
    PROVE  LiveIInv'
<1>1. page \in PageType /\ Truth \in Nat /\ mishaps \in Nat
  BY LiveTypes, OwnFacts DEF LiveIInv
<1>2. UNCHANGED <<core, sub, wire, gui, lost>> /\ mishaps' \in Nat
  BY <1>1 DEF StartRead, Take, ReadFails, RetryRead, Mishap
<1>3. CASE StartRead
  <2>1. page' = [page EXCEPT !.dirty = FALSE, !.stale = FALSE, !.read = "answered",
                             !.value = Truth]
    BY <1>3 DEF StartRead
  <2>2. /\ page' \in PageType /\ page'.of = page.of /\ page'.read = "answered"
        /\ page'.value = Truth
    BY <1>1, <2>1 DEF PageType
  <2>3. ~(page'.read = "idle")
    BY <2>2
  <2> QED
    BY <1>2, <2>2, <2>3, PageMoves
<1>4. CASE Take
  <2>1. CASE /\ ~page.stale /\ page.read = "answered"
             /\ page' = [page EXCEPT !.read = "idle", !.value = 0, !.shown = page.value]
    <3>1. /\ page' \in PageType /\ page'.of = page.of /\ page'.read = "idle"
          /\ page'.shown = page.value /\ page'.dirty = page.dirty
      BY <1>1, <2>1 DEF PageType
    <3>2. ~(page'.read = "answered")
      BY <3>1
    <3> QED
      BY <1>2, <2>1, <3>1, <3>2, PageMoves
  <2>2. CASE page' = [page EXCEPT !.value = Truth, !.stale = FALSE] /\ page.read = "answered"
    <3>1. /\ page' \in PageType /\ page'.of = page.of /\ page'.read = "answered"
          /\ page'.value = Truth
      BY <1>1, <2>2 DEF PageType
    <3>2. ~(page'.read = "idle")
      BY <3>1
    <3> QED
      BY <1>2, <3>1, <3>2, PageMoves
  <2> QED
    BY <1>4, <2>1, <2>2 DEF Take
<1>5. CASE ReadFails
  <2>1. page' \in PageType /\ page'.of = page.of /\ page'.dirty
    BY <1>1, <1>5, RejectedFacts DEF ReadFails
  <2> QED
    BY <1>2, <2>1, PageMoves
<1>6. CASE RetryRead
  <2>1. page' = [page EXCEPT !.blocked = FALSE]
    BY <1>6 DEF RetryRead
  <2>2. /\ page' \in PageType /\ page'.of = page.of /\ page'.read = page.read
        /\ page'.shown = page.shown /\ page'.value = page.value
        /\ page'.dirty = page.dirty /\ page'.stale = page.stale
    BY <1>1, <2>1 DEF PageType
  <2> QED
    BY <1>2, <2>2, PageMoves
<1> QED
  BY <1>3, <1>4, <1>5, <1>6

LEMMA LiveStepInv == LiveIInv /\ [LiveNext]_liveVars => LiveIInv'
<1> SUFFICES ASSUME LiveIInv, [LiveNext]_liveVars PROVE LiveIInv'
  OBVIOUS
<1>1. CASE StoreStep \/ Commit \/ Crash
  BY <1>1, AnnounceInv, StartInv, CommitInv, CrashInv DEF StoreStep
<1>2. CASE SubStep
  BY <1>2, SampleInv, ReadInv, ResampleInv, SendInv, ResampleClosedInv DEF SubStep
<1>3. CASE GuiStep \/ AckTimeout \/ Reload \/ Drop
  BY <1>3, ConnectInv, ReceiveReadyInv, ReceiveBatchInv, AcknowledgedInv, EndInv DEF GuiStep
<1>4. CASE PageStep \/ ReadFails \/ RetryRead
  BY <1>4, ReadsInv DEF PageStep
<1>5. CASE UNCHANGED liveVars
  <2>1. UNCHANGED <<core, sub, wire, gui, page, lost, mishaps>>
    BY <1>5 DEF liveVars, view
  <2>2. gui \in GuiType /\ page \in PageType /\ mishaps \in Nat
    BY LiveTypes DEF LiveIInv
  <2> QED
    BY <2>1, <2>2, PageMoves
<1> QED
  BY <1>1, <1>2, <1>3, <1>4, <1>5 DEF LiveNext

\* The inductive invariant of the way from the store to the page, for any number of
\* transactions, deaths, lost connections, failures and reloads.
THEOREM LiveInvariance == LiveSpec => []LiveIInv
BY LiveInitInv, LiveStepInv, PTL DEF LiveSpec

\* The tables, the channel, the subscription, the GUI and its page stay well typed.
THEOREM LiveTypeCorrect == LiveSpec => []LiveTypeOK
<1>1. LiveIInv => LiveTypeOK
  BY DEF LiveIInv
<1> QED
  BY <1>1, LiveInvariance, PTL

\* A page at rest shows what the store has; nothing is lost between commit, channel,
\* subscription, batch, acknowledgement and read but an extension's change whose
\* announcement failed.
THEOREM QuietPagesAreCurrent == LiveSpec => []QuietIsCurrent
<1>1. LiveIInv => QuietIsCurrent
  <2> SUFFICES ASSUME LiveIInv, AtRest, ~(page.shown = Truth)
               PROVE  page.of = "extensions" /\ lost
    BY DEF QuietIsCurrent
  <2>1. /\ wire = <<>> /\ sub.pc = "wait" /\ ~sub.unseen /\ due = "none"
        /\ Known(page.shown)
    BY DEF AtRest, LiveIInv, PageInv
  <2>2. process = "up" /\ mark.available /\ mark.seq = Len(log) /\ mark.logSeq = logs
    BY <2>1 DEF LiveIInv, SubInv, MarkInv
  <2>3. Untold
    BY <2>1 DEF Known, InFlight
  <2>4. ~(page.of = "operations" /\ \E i \in Own : i > sub.seq)
    BY <2>1, <2>2, OwnFacts DEF LiveIInv, SleepInv
  <2>5. mark.exts <= sub.rev /\ (page.of = "log" => mark.logs <= sub.rev)
    BY <2>1 DEF LiveIInv, SleepInv, PageInv
  <2>6. mark \in MarkType /\ sub \in SubType
    BY LiveTypes DEF LiveIInv
  <2> QED
    BY <2>1, <2>2, <2>3, <2>4, <2>5, <2>6 DEF Untold, MarkType, SubType
<1> QED
  BY <1>1, LiveInvariance, PTL
=============================================================================
