--------------------------- MODULE OperationsProofs ---------------------------
(***************************************************************************)
(* Theorems about Operations for every set of Operations, keys and tasks,  *)
(* and for any number of crashes and store faults.                         *)
(*                                                                         *)
(* The inductive invariant IInv says, per lifecycle state, which evidence  *)
(* the rows hold, and per program counter of a worker, in which states its *)
(* Operation can be.  UnfinishedIsRecoverable, TasksAreSerialised,         *)
(* WorkerCanPublish and InterruptedIsHidden are consequences of it, and    *)
(* under it every step is a step of the public contract or a stutter.      *)
(***************************************************************************)
EXTENDS Operations, TLAPS

\* What the durable row of an Operation says about its journal and its cancel flag.
RowInv ==
    \A o \in Ops :
        /\ state[o] = "absent" => journal[o] = "none" /\ ~cancelReq[o]
        /\ Live(o) => journal[o] = "prepared"
        /\ state[o] \in Terminal => journal[o] = "applied"
        /\ state[o] \in {"queued", "running"} => ~cancelReq[o]
        /\ state[o] = "cancelling" => cancelReq[o]

\* A task owns one Operation from spawn to end, alone; the guard has one holder.
TaskInv ==
    /\ \A t \in Tasks : task[t].op = None <=> task[t].pc = "free"
    /\ \A t, u \in Tasks : task[t].op # None /\ task[t].op = task[u].op => t = u
    /\ \A t \in Tasks : InSection(t) <=> storeLock = t

\* Where a worker stands bounds the states its row can be in.
WorkerInv ==
    \A t \in Tasks :
        /\ task[t].pc \in {"waiting", "check", "begin"}
              => state[task[t].op] \in {"queued", "recovering", "cancelling", "cancelled"}
        /\ task[t].pc \in {"integrity", "check1", "foreignKeys", "check2",
                           "finish", "finishFailed"}
              => state[task[t].op] \in {"running", "cancelling"}
        /\ task[t].pc = "finishCancelled"
              => state[task[t].op] \in {"cancelling", "recovering", "cancelled"}

\* What recovery has done and has still to do before the daemon is ready.
DaemonInv ==
    /\ daemon # "up" => \A t \in Tasks : task[t] = FreeTask
    /\ daemon # "recovering" => pending = {} /\ toSchedule = {}
    /\ \A o \in pending : Live(o)
    /\ \A o \in toSchedule : state[o] \in {"queued", "recovering"}
    /\ daemon # "down" => \A o \in Ops : state[o] = "interrupted" => o \in pending

IInv == TypeOK /\ RowInv /\ TaskInv /\ WorkerInv /\ DaemonInv

-----------------------------------------------------------------------------
\* The names the leaves below expand.
USE DEF Terminal, States, Contract!Terminal, Contract!States

LEMMA InitInv == Init => IInv
BY OperationsAssumption DEF Init, IInv, TypeOK, RowInv, TaskInv, WorkerInv, DaemonInv,
   FreeTask, PCs, Live, InSection

LEMMA StutterInv == IInv /\ UNCHANGED vars => IInv'
BY DEF IInv, TypeOK, RowInv, TaskInv, WorkerInv, DaemonInv, vars, durable,
   volatile, bounds, Live, InSection, FreeTask

\* A commit keeps the rows and the Event streams well typed.
LEMMA CommitType ==
    ASSUME TypeOK, NEW o \in Ops, NEW next \in States, Commit(o, next)
    PROVE  /\ state' \in [Ops -> States \cup {"absent"}]
           /\ rev' \in [Ops -> Nat]
           /\ events' \in [Ops -> Seq(Event)]
<1>1. [rev |-> rev[o] + 1, state |-> next] \in Event
  BY DEF TypeOK, Event
<1>2. Append(events[o], [rev |-> rev[o] + 1, state |-> next]) \in Seq(Event)
  BY <1>1 DEF TypeOK
<1> QED
  BY <1>2 DEF TypeOK, Commit

\* A worker step moves one task between known places.
LEMMA GotoType ==
    ASSUME TypeOK, NEW t \in Tasks, NEW pc \in PCs, Goto(t, pc) \/ EndTask(t)
    PROVE  task' \in [Tasks -> [op : Ops \cup {None}, pc : PCs]]
<1>1. CASE Goto(t, pc)
  <2>1. [task[t] EXCEPT !.pc = pc] \in [op : Ops \cup {None}, pc : PCs]
    BY DEF TypeOK
  <2> QED
    BY <1>1, <2>1 DEF TypeOK, Goto
<1>2. CASE EndTask(t)
  BY <1>2 DEF TypeOK, EndTask, FreeTask, PCs
<1> QED
  BY <1>1, <1>2

LEMMA TargetType ==
    ASSUME TypeOK, NEW o \in Ops
    PROVE  /\ state[o] \notin {"absent", "cancelled"} => CancelTarget(o) \in States
           /\ BeginTarget(o) \in {"running", "cancelling", "corrupt"}
           /\ state[o] # "absent" => RecoverTarget(o) \in States
BY DEF TypeOK, CancelTarget, BeginTarget, RecoverTarget

LEMMA StateCheckInv ==
    ASSUME IInv, NEW k \in Keys, NEW o \in Ops, StateCheck(k, o)
    PROVE  IInv'
<1>1. TypeOK'
  BY OperationsAssumption DEF IInv, TypeOK, RowInv, TaskInv, WorkerInv, DaemonInv,
     StateCheck, Spawn, Commit, bounds, PCs, FreeTask, Event, Cancel
<1>2. RowInv'
  BY OperationsAssumption DEF IInv, TypeOK, RowInv, TaskInv, WorkerInv, DaemonInv,
     StateCheck, Spawn, Commit, bounds, Live
<1>3. TaskInv'
  <2>1. ASSUME NEW t \in Tasks, task[t].op = o
        PROVE  FALSE
    <3>1. state[o] = "absent"
      BY DEF StateCheck
    <3>2. task[t].pc \in PCs \ {"free"}
      BY <2>1, OperationsAssumption DEF IInv, TypeOK, TaskInv
    <3>3. state[o] \in {"queued", "recovering", "cancelling", "cancelled", "running"}
      BY <2>1, <3>2 DEF IInv, WorkerInv, PCs
    <3> QED
      BY <3>1, <3>3
  <2>2. PICK t \in Tasks : task[t].pc = "free" /\ Spawn(o, t)
    BY DEF StateCheck
  <2> QED
    BY <2>1, <2>2, OperationsAssumption DEF IInv, TypeOK, TaskInv, StateCheck, Spawn, InSection
<1>4. WorkerInv'
  BY OperationsAssumption DEF IInv, TypeOK, RowInv, TaskInv, WorkerInv, DaemonInv,
     StateCheck, Spawn, Commit, bounds, FreeTask, PCs
<1>5. DaemonInv'
  BY OperationsAssumption DEF IInv, TypeOK, RowInv, TaskInv, WorkerInv, DaemonInv,
     StateCheck, Spawn, Commit, bounds, Live, FreeTask
<1>6. QED BY <1>1, <1>2, <1>3, <1>4, <1>5 DEF IInv

LEMMA CancelOperationInv ==
    ASSUME IInv, NEW k \in CancelKeys, NEW o \in Ops, CancelOperation(k, o)
    PROVE  IInv'
<1>1. TypeOK'
  <2>1. o \in Ops /\ state[o] \notin Terminal \cup {"absent"} /\ CancelTarget(o) \in States
    BY TargetType DEF IInv, CancelOperation
  <2>2. /\ state' \in [Ops -> States \cup {"absent"}]
        /\ rev' \in [Ops -> Nat]
        /\ events' \in [Ops -> Seq(Event)]
    BY <2>1, CommitType DEF IInv, TypeOK, CancelOperation, NoCommit
  <2>3. cancelIdem' \in [CancelKeys -> Cancel \cup {None}]
    BY <2>1 DEF IInv, TypeOK, CancelOperation, Cancel
  <2>4. /\ cancelReq' \in [Ops -> BOOLEAN]
        /\ journal' \in [Ops -> {"none", "prepared", "applied"}]
    BY <2>1 DEF IInv, TypeOK, CancelOperation, NoCommit
  <2> QED
    BY <2>2, <2>3, <2>4 DEF IInv, TypeOK, CancelOperation, volatile, bounds
<1>2. RowInv'
  BY OperationsAssumption DEF IInv, TypeOK, RowInv, TaskInv, WorkerInv, DaemonInv,
     CancelOperation, CancelTarget, Commit, NoCommit, volatile, bounds, Live
<1>3. TaskInv'
  BY OperationsAssumption DEF IInv, TypeOK, RowInv, TaskInv, WorkerInv, DaemonInv,
     CancelOperation, CancelTarget, Commit, NoCommit, volatile, bounds, InSection, FreeTask
<1>4. WorkerInv'
  <2>1. /\ \A p \in Ops \ {o} : state'[p] = state[p]
        /\ state'[o] = CancelTarget(o)
    BY DEF IInv, TypeOK, CancelOperation, Commit, NoCommit
  <2>2. state[o] \notin {"cancelled", "absent"}
    BY DEF CancelOperation
  <2>3. CancelTarget(o) \in {"cancelled", "cancelling", state[o]}
        /\ (state[o] = "queued" <=> CancelTarget(o) = "cancelled")
        /\ (state[o] \in {"running", "recovering"} => CancelTarget(o) = "cancelling")
    BY <2>2 DEF CancelTarget
  <2>4. task' = task
    BY DEF CancelOperation, volatile
  <2>5. \A t \in Tasks : task[t].pc # "free" => task[t].op \in Ops
    BY OperationsAssumption DEF IInv, TypeOK, TaskInv
  <2> QED
    BY <2>1, <2>3, <2>4, <2>5 DEF IInv, WorkerInv, PCs
<1>5. DaemonInv'
  <2>1. /\ daemon = "up" /\ daemon' = daemon /\ pending' = pending
        /\ toSchedule' = toSchedule
    BY DEF CancelOperation, volatile
  <2>2. pending = {} /\ toSchedule = {} /\ \A p \in Ops : state[p] # "interrupted"
    BY <2>1 DEF IInv, DaemonInv
  <2>3. \A p \in Ops : state'[p] # "interrupted"
    BY <2>2 DEF CancelOperation, CancelTarget, Commit, NoCommit, IInv, TypeOK
  <2> QED
    BY <2>1, <2>2, <2>3 DEF DaemonInv
<1>6. QED BY <1>1, <1>2, <1>3, <1>4, <1>5 DEF IInv

LEMMA AcquireStoreInv ==
    ASSUME IInv, NEW t \in Tasks, AcquireStore(t)
    PROVE  IInv'
<1>1. TypeOK'
  <2>1. task' \in [Tasks -> [op : Ops \cup {None}, pc : PCs]]
    BY GotoType DEF IInv, AcquireStore, PCs
  <2> QED
    BY <2>1 DEF IInv, TypeOK, AcquireStore, durable, bounds
<1>2. RowInv'
  BY OperationsAssumption DEF IInv, TypeOK, RowInv, TaskInv, WorkerInv, DaemonInv,
     AcquireStore, At, Goto, durable, bounds, Live
<1>3. TaskInv'
  BY OperationsAssumption DEF IInv, TypeOK, RowInv, TaskInv, WorkerInv, DaemonInv,
     AcquireStore, At, Goto, durable, bounds, InSection, FreeTask
<1>4. WorkerInv'
  BY OperationsAssumption DEF IInv, TypeOK, RowInv, TaskInv, WorkerInv, DaemonInv,
     AcquireStore, At, Goto, durable, bounds, FreeTask, PCs
<1>5. DaemonInv'
  BY OperationsAssumption DEF IInv, TypeOK, RowInv, TaskInv, WorkerInv, DaemonInv,
     AcquireStore, At, Goto, durable, bounds, Live, FreeTask
<1>6. QED BY <1>1, <1>2, <1>3, <1>4, <1>5 DEF IInv

LEMMA CheckCancelledInv ==
    ASSUME IInv, NEW t \in Tasks, NEW here, NEW onward,
           <<here, onward>> \in {<<"check", "begin">>, <<"check1", "foreignKeys">>,
                               <<"check2", "finish">>}, CheckCancelled(t, here, onward)
    PROVE  IInv'
<1>1. TypeOK'
  <2>1. task' \in [Tasks -> [op : Ops \cup {None}, pc : PCs]]
    BY GotoType DEF IInv, CheckCancelled, PCs
  <2> QED
    BY <2>1 DEF IInv, TypeOK, CheckCancelled, durable, bounds
<1>2. RowInv'
  BY OperationsAssumption DEF IInv, TypeOK, RowInv, TaskInv, WorkerInv, DaemonInv,
     CheckCancelled, At, Goto, durable, bounds, Live
<1>3. TaskInv'
  BY OperationsAssumption DEF IInv, TypeOK, RowInv, TaskInv, WorkerInv, DaemonInv,
     CheckCancelled, At, Goto, durable, bounds, InSection, FreeTask
<1>4. WorkerInv'
  BY OperationsAssumption DEF IInv, TypeOK, RowInv, TaskInv, WorkerInv, DaemonInv,
     CheckCancelled, At, Goto, durable, bounds, FreeTask, PCs
<1>5. DaemonInv'
  BY OperationsAssumption DEF IInv, TypeOK, RowInv, TaskInv, WorkerInv, DaemonInv,
     CheckCancelled, At, Goto, durable, bounds, Live, FreeTask
<1>6. QED BY <1>1, <1>2, <1>3, <1>4, <1>5 DEF IInv

LEMMA BeginInv ==
    ASSUME IInv, NEW t \in Tasks, Begin(t)
    PROVE  IInv'
<1>1. TypeOK'
  <2>1. task[t].op \in Ops
    BY DEF IInv, TypeOK, TaskInv, Begin, At
  <2>2. task' \in [Tasks -> [op : Ops \cup {None}, pc : PCs]]
    BY GotoType DEF IInv, Begin, PCs
  <2>3. /\ state' \in [Ops -> States \cup {"absent"}]
        /\ rev' \in [Ops -> Nat]
        /\ events' \in [Ops -> Seq(Event)]
    BY <2>1, CommitType, TargetType DEF IInv, TypeOK, Begin, NoCommit
  <2> QED
    BY <2>2, <2>3 DEF IInv, TypeOK, Begin, NoCommit, EndTask, bounds
<1>2. RowInv'
  BY OperationsAssumption DEF IInv, TypeOK, RowInv, TaskInv, WorkerInv, DaemonInv,
     Begin, BeginTarget, Commit, NoCommit, At, Goto, EndTask, bounds, Live
<1>3. TaskInv'
  <2>1. CASE BeginTarget(task[t].op) = "corrupt"
    <3>1. EndTask(t) /\ task[t].pc = "begin"
      BY <2>1 DEF Begin, At
    <3>2. task' = [task EXCEPT ![t] = FreeTask] /\ storeLock' = None
      BY <3>1 DEF EndTask
    <3>3. task'[t] = FreeTask /\ \A u \in Tasks \ {t} : task'[u] = task[u]
      BY <3>2 DEF IInv, TypeOK
    <3>4. storeLock = t
      BY <3>1 DEF IInv, TaskInv, InSection
    <3> QED
      BY <3>2, <3>3, <3>4, OperationsAssumption DEF IInv, TaskInv, FreeTask, InSection
  <2>2. CASE BeginTarget(task[t].op) # "corrupt"
    <3>1. Goto(t, "integrity") /\ task[t].pc = "begin" /\ storeLock' = storeLock
      BY <2>2 DEF Begin, At
    <3> QED
      BY <3>1, OperationsAssumption DEF IInv, TypeOK, TaskInv, Goto, InSection
  <2> QED
    BY <2>1, <2>2
<1>4. WorkerInv'
  <2>1. task[t].op \in Ops
    BY DEF IInv, TypeOK, TaskInv, Begin, At
  <2>2. \A u \in Tasks : u # t => task'[u] = task[u] /\ task[u].op # task[t].op
    BY <2>1, OperationsAssumption DEF IInv, TypeOK, TaskInv, Begin, Goto, EndTask
  <2>3. \A p \in Ops : p # task[t].op => state'[p] = state[p]
    BY <2>1 DEF IInv, TypeOK, Begin, Commit, NoCommit
  <2>4. \A u \in Tasks : task[u].pc # "free" => task[u].op \in Ops
    BY OperationsAssumption DEF IInv, TypeOK, TaskInv
  <2>5. \/ task'[t].pc = "free"
        \/ task'[t].pc = "integrity" /\ task'[t].op = task[t].op
           /\ state'[task[t].op] \in {"running", "cancelling"}
    BY <2>1, TargetType DEF IInv, TypeOK, Begin, Commit, Goto, EndTask, FreeTask
  <2> QED
    BY <2>2, <2>3, <2>4, <2>5 DEF IInv, WorkerInv, PCs
<1>5. DaemonInv'
  BY OperationsAssumption DEF IInv, TypeOK, RowInv, TaskInv, WorkerInv, DaemonInv,
     Begin, BeginTarget, Commit, NoCommit, At, Goto, EndTask, bounds, Live, FreeTask
<1>6. QED BY <1>1, <1>2, <1>3, <1>4, <1>5 DEF IInv

LEMMA RunPhaseInv ==
    ASSUME IInv, NEW t \in Tasks, NEW here, NEW onward,
           <<here, onward>> \in {<<"integrity", "check1">>, <<"foreignKeys", "check2">>}, RunPhase(t, here, onward)
    PROVE  IInv'
<1>1. TypeOK'
  <2>1. task' \in [Tasks -> [op : Ops \cup {None}, pc : PCs]]
    BY GotoType DEF IInv, RunPhase, PCs
  <2> QED
    BY <2>1, OperationsAssumption DEF IInv, TypeOK, RunPhase, durable
<1>2. RowInv'
  BY OperationsAssumption DEF IInv, TypeOK, RowInv, TaskInv, WorkerInv, DaemonInv,
     RunPhase, At, Goto, durable, Live
<1>3. TaskInv'
  <2>1. PICK pc \in PCs \ {"free", "waiting"} : Goto(t, pc)
    BY DEF RunPhase, PCs
  <2>2. task[t].pc \notin {"free", "waiting"}
    BY DEF RunPhase, At
  <2> QED
    BY <2>1, <2>2, OperationsAssumption DEF IInv, TypeOK, TaskInv, RunPhase, Goto, InSection, PCs
<1>4. WorkerInv'
  <2>1. PICK pc \in {"check1", "check2", "finishFailed"} : Goto(t, pc)
    BY DEF RunPhase
  <2>2. task[t].pc \in {"integrity", "foreignKeys"} /\ state' = state
    BY DEF RunPhase, At, durable
  <2> QED
    BY <2>1, <2>2 DEF IInv, TypeOK, WorkerInv, Goto, PCs
<1>5. DaemonInv'
  BY OperationsAssumption DEF IInv, TypeOK, RowInv, TaskInv, WorkerInv, DaemonInv,
     RunPhase, At, Goto, durable, Live, FreeTask
<1>6. QED BY <1>1, <1>2, <1>3, <1>4, <1>5 DEF IInv

LEMMA FinishInv ==
    ASSUME IInv, NEW t \in Tasks, NEW here, NEW terminal,
           <<here, terminal>> \in {<<"finish", "succeeded">>, <<"finishCancelled", "cancelled">>,
                                 <<"finishFailed", "failed">>}, Finish(t, here, terminal)
    PROVE  IInv'
<1>1. TypeOK'
  <2>1. task[t].op \in Ops /\ terminal \in States
    BY DEF IInv, TypeOK, TaskInv, Finish, At
  <2>2. task' \in [Tasks -> [op : Ops \cup {None}, pc : PCs]]
    BY GotoType DEF IInv, Finish, PCs
  <2>3. /\ state' \in [Ops -> States \cup {"absent"}]
        /\ rev' \in [Ops -> Nat]
        /\ events' \in [Ops -> Seq(Event)]
    BY <2>1, CommitType DEF IInv, TypeOK, Finish, FinishOperation, NoCommit
  <2> QED
    BY <2>1, <2>2, <2>3 DEF IInv, TypeOK, Finish, FinishOperation, NoCommit, EndTask, bounds
<1>2. RowInv'
  BY OperationsAssumption DEF IInv, TypeOK, RowInv, TaskInv, WorkerInv, DaemonInv,
     Finish, FinishOperation, Commit, NoCommit, At, EndTask, bounds, Live
<1>3. TaskInv'
  BY OperationsAssumption DEF IInv, TypeOK, RowInv, TaskInv, WorkerInv, DaemonInv,
     Finish, FinishOperation, Commit, NoCommit, At, EndTask, bounds, InSection, FreeTask
<1>4. WorkerInv'
  BY OperationsAssumption DEF IInv, TypeOK, RowInv, TaskInv, WorkerInv, DaemonInv,
     Finish, FinishOperation, Commit, NoCommit, At, EndTask, bounds, FreeTask, PCs
<1>5. DaemonInv'
  BY OperationsAssumption DEF IInv, TypeOK, RowInv, TaskInv, WorkerInv, DaemonInv,
     Finish, FinishOperation, Commit, NoCommit, At, EndTask, bounds, Live, FreeTask
<1>6. QED BY <1>1, <1>2, <1>3, <1>4, <1>5 DEF IInv

LEMMA StoreErrorInv ==
    ASSUME IInv, NEW t \in Tasks, StoreError(t)
    PROVE  IInv'
<1>1. TypeOK'
  BY OperationsAssumption DEF IInv, TypeOK, RowInv, TaskInv, WorkerInv, DaemonInv,
     StoreError, EndTask, durable, PCs, FreeTask, Event, Cancel
<1>2. RowInv'
  BY OperationsAssumption DEF IInv, TypeOK, RowInv, TaskInv, WorkerInv, DaemonInv,
     StoreError, EndTask, durable, Live
<1>3. TaskInv'
  BY OperationsAssumption DEF IInv, TypeOK, RowInv, TaskInv, WorkerInv, DaemonInv,
     StoreError, EndTask, durable, InSection, FreeTask
<1>4. WorkerInv'
  BY OperationsAssumption DEF IInv, TypeOK, RowInv, TaskInv, WorkerInv, DaemonInv,
     StoreError, EndTask, durable, FreeTask, PCs
<1>5. DaemonInv'
  BY OperationsAssumption DEF IInv, TypeOK, RowInv, TaskInv, WorkerInv, DaemonInv,
     StoreError, EndTask, durable, Live, FreeTask
<1>6. QED BY <1>1, <1>2, <1>3, <1>4, <1>5 DEF IInv

LEMMA CrashInv ==
    ASSUME IInv, Crash
    PROVE  IInv'
<1>1. TypeOK'
  BY OperationsAssumption DEF IInv, TypeOK, RowInv, TaskInv, WorkerInv, DaemonInv,
     Crash, durable, PCs, FreeTask, Event, Cancel
<1>2. RowInv'
  BY OperationsAssumption DEF IInv, TypeOK, RowInv, TaskInv, WorkerInv, DaemonInv,
     Crash, durable, Live
<1>3. TaskInv'
  BY OperationsAssumption DEF IInv, TypeOK, RowInv, TaskInv, WorkerInv, DaemonInv,
     Crash, durable, InSection, FreeTask
<1>4. WorkerInv'
  BY OperationsAssumption DEF IInv, TypeOK, RowInv, TaskInv, WorkerInv, DaemonInv,
     Crash, durable, FreeTask, PCs
<1>5. DaemonInv'
  BY OperationsAssumption DEF IInv, TypeOK, RowInv, TaskInv, WorkerInv, DaemonInv,
     Crash, durable, Live, FreeTask
<1>6. QED BY <1>1, <1>2, <1>3, <1>4, <1>5 DEF IInv

LEMMA StartInv ==
    ASSUME IInv, Start
    PROVE  IInv'
<1>1. TypeOK'
  BY OperationsAssumption DEF IInv, TypeOK, RowInv, TaskInv, WorkerInv, DaemonInv,
     Start, durable, bounds, PCs, FreeTask, Event, Cancel
<1>2. RowInv'
  BY OperationsAssumption DEF IInv, TypeOK, RowInv, TaskInv, WorkerInv, DaemonInv,
     Start, durable, bounds, Live
<1>3. TaskInv'
  BY OperationsAssumption DEF IInv, TypeOK, RowInv, TaskInv, WorkerInv, DaemonInv,
     Start, durable, bounds, InSection, FreeTask
<1>4. WorkerInv'
  BY OperationsAssumption DEF IInv, TypeOK, RowInv, TaskInv, WorkerInv, DaemonInv,
     Start, durable, bounds, FreeTask, PCs
<1>5. DaemonInv'
  BY OperationsAssumption DEF IInv, TypeOK, RowInv, TaskInv, WorkerInv, DaemonInv,
     Start, durable, bounds, Live, FreeTask
<1>6. QED BY <1>1, <1>2, <1>3, <1>4, <1>5 DEF IInv

LEMMA RecoverOneInv ==
    ASSUME IInv, NEW o \in Ops, RecoverOne(o)
    PROVE  IInv'
<1>1. TypeOK'
  <2>1. RecoverTarget(o) \in States
    BY TargetType DEF IInv, DaemonInv, RecoverOne, Live
  <2>2. /\ state' \in [Ops -> States \cup {"absent"}]
        /\ rev' \in [Ops -> Nat]
        /\ events' \in [Ops -> Seq(Event)]
    BY <2>1, CommitType DEF IInv, TypeOK, RecoverOne
  <2> QED
    BY <2>2 DEF IInv, TypeOK, RecoverOne, bounds
<1>2. RowInv'
  BY OperationsAssumption DEF IInv, TypeOK, RowInv, TaskInv, WorkerInv, DaemonInv,
     RecoverOne, RecoverTarget, JournalRecoverable, Commit, bounds, Live
<1>3. TaskInv'
  BY OperationsAssumption DEF IInv, TypeOK, RowInv, TaskInv, WorkerInv, DaemonInv,
     RecoverOne, RecoverTarget, JournalRecoverable, Commit, bounds, InSection, FreeTask
<1>4. WorkerInv'
  BY OperationsAssumption DEF IInv, TypeOK, RowInv, TaskInv, WorkerInv, DaemonInv,
     RecoverOne, RecoverTarget, JournalRecoverable, Commit, bounds, FreeTask, PCs
<1>5. DaemonInv'
  BY OperationsAssumption DEF IInv, TypeOK, RowInv, TaskInv, WorkerInv, DaemonInv,
     RecoverOne, RecoverTarget, JournalRecoverable, Commit, bounds, Live, FreeTask
<1>6. QED BY <1>1, <1>2, <1>3, <1>4, <1>5 DEF IInv

LEMMA ReadyInv ==
    ASSUME IInv, Ready
    PROVE  IInv'
<1>1. TypeOK'
  BY OperationsAssumption DEF IInv, TypeOK, RowInv, TaskInv, WorkerInv, DaemonInv,
     Ready, durable, bounds, PCs, FreeTask, Event, Cancel
<1>2. RowInv'
  BY OperationsAssumption DEF IInv, TypeOK, RowInv, TaskInv, WorkerInv, DaemonInv,
     Ready, durable, bounds, Live
<1>3. TaskInv'
  BY OperationsAssumption DEF IInv, TypeOK, RowInv, TaskInv, WorkerInv, DaemonInv,
     Ready, durable, bounds, InSection, FreeTask
<1>4. WorkerInv'
  BY OperationsAssumption DEF IInv, TypeOK, RowInv, TaskInv, WorkerInv, DaemonInv,
     Ready, durable, bounds, FreeTask, PCs
<1>5. DaemonInv'
  BY OperationsAssumption DEF IInv, TypeOK, RowInv, TaskInv, WorkerInv, DaemonInv,
     Ready, durable, bounds, Live, FreeTask
<1>6. QED BY <1>1, <1>2, <1>3, <1>4, <1>5 DEF IInv

-----------------------------------------------------------------------------
(* The invariant *)

LEMMA TaskStepInv ==
    ASSUME IInv, NEW t \in Tasks, TaskStep(t)
    PROVE  IInv'
BY AcquireStoreInv, CheckCancelledInv, BeginInv, RunPhaseInv, FinishInv DEF TaskStep

LEMMA NextInv == IInv /\ [Next]_vars => IInv'
<1> SUFFICES ASSUME IInv, [Next]_vars PROVE IInv'
  OBVIOUS
<1>1. CASE Request
  BY <1>1, StateCheckInv, CancelOperationInv DEF Request
<1>2. CASE Worker
  BY <1>2, TaskStepInv DEF Worker
<1>3. CASE Fault
  BY <1>3, CrashInv, StoreErrorInv DEF Fault
<1>4. CASE Restart
  BY <1>4, StartInv, RecoverOneInv, ReadyInv DEF Restart
<1>5. CASE UNCHANGED vars
  BY <1>5, StutterInv
<1> QED
  BY <1>1, <1>2, <1>3, <1>4, <1>5 DEF Next

\* The inductive invariant holds in every reachable state, for any number of
\* Operations, tasks, crashes and store faults.
THEOREM Invariance == Spec => []IInv
<1>1. Init => IInv
  BY InitInv
<1>2. IInv /\ [Next]_vars => IInv'
  BY NextInv
<1> QED
  BY <1>1, <1>2, PTL DEF Spec

\* Every row, journal entry, Event, saved answer and task stays well typed.
THEOREM TypeCorrect == Spec => []TypeOK
<1>1. IInv => TypeOK
  BY DEF IInv
<1> QED
  BY <1>1, Invariance, PTL

\* recover never finds an unfinished row without a prepared journal step
\* (journal_is_recoverable), so a restart never fails an accepted check.
THEOREM Recoverable == Spec => []UnfinishedIsRecoverable
<1>1. IInv => UnfinishedIsRecoverable
  BY DEF IInv, RowInv, UnfinishedIsRecoverable, JournalRecoverable
<1> QED
  BY <1>1, Invariance, PTL

\* One task per Operation and one task in the StateStore section, whatever is
\* replayed, recovered or restarted (Application::schedule, run_state_check).
THEOREM Serialised == Spec => []TasksAreSerialised
<1>1. IInv => TasksAreSerialised
  BY DEF IInv, TaskInv, TasksAreSerialised
<1> QED
  BY <1>1, Invariance, PTL

\* finish_operation accepts the outcome of every worker that got past
\* begin_state_check, whatever cancels landed since.
THEOREM Publishable == Spec => []WorkerCanPublish
<1>1. IInv => WorkerCanPublish
  BY DEF IInv, WorkerInv, WorkerCanPublish, At
<1> QED
  BY <1>1, Invariance, PTL

\* A ready daemon never shows a client an `interrupted' Operation.
THEOREM Hidden == Spec => []InterruptedIsHidden
<1>1. IInv => InterruptedIsHidden
  BY DEF IInv, TypeOK, DaemonInv, InterruptedIsHidden
<1> QED
  BY <1>1, Invariance, PTL

-----------------------------------------------------------------------------
(* The public contract and the Event stream *)

\* A step leaves the published rows alone, or commits one legal change of one row.
Published(o, next) ==
    /\ Commit(o, next)
    /\ \/ state[o] = "absent" /\ next = "queued"
       \/ Contract!CanTransition(state[o], next)

LEMMA BeginMoves ==
    ASSUME NEW o \in Ops, BeginTarget(o) # "corrupt"
    PROVE  BeginTarget(o) \in States /\ Contract!CanTransition(state[o], BeginTarget(o))
BY DEF BeginTarget, Contract!CanTransition

LEMMA StepPublishes ==
    ASSUME IInv, [Next]_vars
    PROVE  \/ UNCHANGED <<state, rev, events>>
           \/ \E o \in Ops, next \in States : Published(o, next)
<1> USE DEF Contract!CanTransition
<1>1. ASSUME NEW k \in Keys, NEW o \in Ops, StateCheck(k, o)
      PROVE  Published(o, "queued")
  BY <1>1 DEF StateCheck, Published
<1>2. ASSUME NEW k \in CancelKeys, NEW o \in Ops, CancelOperation(k, o)
      PROVE  UNCHANGED <<state, rev, events>> \/ \E next \in States : Published(o, next)
  <2>1. \/ state[o] \in {"queued", "running", "recovering"}
        \/ state[o] = "cancelling" /\ cancelReq[o]
    <3>1. state[o] \in States \ Terminal /\ daemon = "up"
      BY <1>2 DEF IInv, TypeOK, CancelOperation
    <3>2. state[o] # "interrupted"
      BY <3>1 DEF IInv, DaemonInv
    <3>3. state[o] = "cancelling" => cancelReq[o]
      BY DEF IInv, RowInv
    <3> QED
      BY <3>1, <3>2, <3>3
  <2>2. \/ CancelTarget(o) = state[o] /\ cancelReq[o]
        \/ CancelTarget(o) \in States /\ Contract!CanTransition(state[o], CancelTarget(o))
    BY <2>1 DEF CancelTarget
  <2> QED
    <3>1. \/ UNCHANGED <<state, rev, events>>
          \/ Commit(o, CancelTarget(o)) /\ (~cancelReq[o] \/ CancelTarget(o) # state[o])
      BY <1>2 DEF CancelOperation, NoCommit
    <3> QED
      BY <3>1, <2>2 DEF Published
<1>3. ASSUME NEW t \in Tasks, TaskStep(t)
      PROVE  \/ UNCHANGED <<state, rev, events>>
             \/ \E o \in Ops, next \in States : Published(o, next)
  <2>1. CASE Begin(t)
    <3>1. task[t].op \in Ops
      BY <2>1 DEF IInv, TypeOK, TaskInv, Begin, At
    <3> QED
      BY <2>1, <3>1, BeginMoves DEF Begin, NoCommit, Published
  <2>2. ASSUME NEW here, NEW terminal \in Terminal, here # "free", Finish(t, here, terminal)
        PROVE  \/ UNCHANGED <<state, rev, events>>
               \/ \E o \in Ops, next \in States : Published(o, next)
    <3>1. task[t].op \in Ops
      BY <2>2 DEF IInv, TypeOK, TaskInv, Finish, At
    <3> QED
      BY <2>2, <3>1 DEF Finish, FinishOperation, NoCommit, Published
  <2> QED
    BY <1>3, <2>1, <2>2 DEF TaskStep, AcquireStore, CheckCancelled, RunPhase, durable
<1>4. CASE Fault
  BY <1>4 DEF Fault, Crash, StoreError, durable
<1>5. ASSUME NEW o \in Ops, RecoverOne(o)
      PROVE  UNCHANGED <<state, rev, events>> \/ \E next \in States : Published(o, next)
  <2>1. Live(o) /\ JournalRecoverable(o)
    BY <1>5 DEF IInv, DaemonInv, RowInv, RecoverOne, JournalRecoverable
  <2>2. \/ state[o] \in {"running", "cancelling"} /\ RecoverTarget(o) = "interrupted"
        \/ state[o] = "interrupted" /\ RecoverTarget(o) = "recovering"
        \/ RecoverTarget(o) = state[o]
    BY <2>1 DEF RecoverTarget
  <2> QED
    BY <1>5, <2>2 DEF RecoverOne, Published
<1>6. CASE Restart
  BY <1>6, <1>5 DEF Restart, Start, Ready, durable
<1>7. CASE UNCHANGED vars
  BY <1>7 DEF vars, durable
<1> QED
  BY <1>1, <1>2, <1>3, <1>4, <1>6, <1>7 DEF Next, Request, Worker

\* The daemon implements the public contract: every step, crash and recovery
\* included, is one legal transition of one Operation with the next revision,
\* or changes nothing a client can see.
THEOREM Refinement == Spec => ImplementsContract
<1>1. Init => Contract!ContractInit
  BY DEF Init, Contract!ContractInit
<1>2. IInv /\ [Next]_vars => [Contract!ContractNext]_(Contract!contractVars)
  BY StepPublishes DEF Published, Commit, Contract!ContractNext, Contract!Accept,
     Contract!Advance, Contract!Publish, Contract!contractVars
<1> QED
  BY <1>1, <1>2, Invariance, PTL DEF Spec, ImplementsContract, Contract!ContractSpec

EventInv ==
    /\ EventsTellTheRow
    /\ \A o \in Ops : state[o] = "absent" => rev[o] = 0

LEMMA EventStep ==
    ASSUME IInv, EventInv, [Next]_vars
    PROVE  EventInv'
<1>1. CASE UNCHANGED <<state, rev, events>>
  BY <1>1 DEF EventInv, EventsTellTheRow, Live
<1>2. ASSUME NEW o \in Ops, NEW next \in States, Published(o, next)
      PROVE  EventInv'
  <2> DEFINE e == [rev |-> rev[o] + 1, state |-> next]
  <2>1. /\ \A p \in Ops \ {o} : /\ state'[p] = state[p] /\ rev'[p] = rev[p]
                                /\ events'[p] = events[p]
        /\ state'[o] = next /\ rev'[o] = rev[o] + 1
        /\ events'[o] = Append(events[o], e)
    BY <1>2 DEF IInv, TypeOK, Published, Commit
  <2>2. events[o] \in Seq(Event) /\ rev[o] \in Nat /\ Len(events[o]) = rev[o]
    BY DEF IInv, TypeOK, EventInv, EventsTellTheRow
  <2>3. /\ Len(events'[o]) = rev[o] + 1
        /\ events'[o][rev[o] + 1] = e
        /\ \A i \in 1..rev[o] : events'[o][i] = events[o][i]
    BY <2>1, <2>2
  <2>4. IF rev[o] = 0 THEN next = "queued"
        ELSE Contract!CanTransition(events[o][rev[o]].state, next)
    <3>1. state[o] = "absent" => rev[o] = 0
      BY DEF EventInv
    <3>2. state[o] # "absent" => rev[o] > 0 /\ events[o][rev[o]].state = state[o]
      BY DEF EventInv, EventsTellTheRow, Live
    <3>3. ~Contract!CanTransition("absent", next)
      BY DEF Contract!CanTransition
    <3> QED
      BY <1>2, <2>2, <3>1, <3>2, <3>3 DEF Published
  <2>5. \A i \in 1..Len(events'[o]) :
            /\ events'[o][i].rev = i
            /\ IF i = 1 THEN events'[o][i].state = "queued"
               ELSE Contract!CanTransition(events'[o][i-1].state, events'[o][i].state)
    <3> SUFFICES ASSUME NEW i \in 1..(rev[o] + 1)
                 PROVE  /\ events'[o][i].rev = i
                        /\ IF i = 1 THEN events'[o][i].state = "queued"
                           ELSE Contract!CanTransition(events'[o][i-1].state, events'[o][i].state)
      BY <2>3
    <3>1. CASE i = rev[o] + 1
      <4>1. events'[o][i].rev = i /\ events'[o][i].state = next
        BY <3>1, <2>3
      <4>2. i = 1 <=> rev[o] = 0
        BY <3>1, <2>2
      <4>3. i # 1 => events'[o][i-1] = events[o][rev[o]]
        <5>1. i # 1 => rev[o] \in 1..rev[o]
          BY <4>2, <2>2
        <5>2. i - 1 = rev[o]
          BY <3>1, <2>2
        <5> QED
          BY <5>1, <5>2, <2>3
      <4> QED
        BY <4>1, <4>2, <4>3, <2>4
    <3>2. CASE i \in 1..rev[o]
      <4>1. /\ events[o][i].rev = i
            /\ IF i = 1 THEN events[o][i].state = "queued"
               ELSE Contract!CanTransition(events[o][i-1].state, events[o][i].state)
        BY <3>2, <2>2 DEF EventInv, EventsTellTheRow
      <4>2. events'[o][i] = events[o][i] /\ (i # 1 => events'[o][i-1] = events[o][i-1])
        BY <3>2, <2>2, <2>3
      <4> QED
        BY <4>1, <4>2
    <3> QED
      BY <3>1, <3>2, <2>2
  <2>6. ASSUME NEW p \in Ops
        PROVE  /\ Len(events'[p]) = rev'[p]
               /\ \A i \in 1..Len(events'[p]) :
                     /\ events'[p][i].rev = i
                     /\ IF i = 1 THEN events'[p][i].state = "queued"
                        ELSE Contract!CanTransition(events'[p][i-1].state, events'[p][i].state)
               /\ Live(p)' \/ state'[p] \in Terminal =>
                     rev'[p] > 0 /\ events'[p][rev'[p]].state = state'[p]
               /\ state'[p] = "absent" => rev'[p] = 0
    <3>1. CASE p = o
      <4>1. next # "absent" /\ Len(events'[o]) = rev'[o] /\ rev'[o] > 0
            /\ events'[o][rev'[o]].state = state'[o]
        BY <2>1, <2>2, <2>3
      <4> QED
        BY <3>1, <4>1, <2>1, <2>5
    <3>2. CASE p # o
      <4>1. state'[p] = state[p] /\ rev'[p] = rev[p] /\ events'[p] = events[p]
        BY <3>2, <2>1
      <4> QED
        BY <4>1 DEF EventInv, EventsTellTheRow, Live
    <3> QED
      BY <3>1, <3>2
  <2> QED
    BY <2>6 DEF EventInv, EventsTellTheRow
<1> QED
  BY <1>1, <1>2, StepPublishes

\* A client that replays an Operation's Events sees revisions 1, 2, ... without
\* gap or repeat, each a legal transition, ending at the row it can query.
THEOREM EventStream == Spec => []EventsTellTheRow
<1>1. Init => EventInv
  BY DEF Init, EventInv, EventsTellTheRow, Live
<1>2. IInv /\ EventInv /\ [Next]_vars => EventInv'
  BY EventStep
<1>3. EventInv => EventsTellTheRow
  BY DEF EventInv
<1> QED
  BY <1>1, <1>2, <1>3, Invariance, PTL DEF Spec

-----------------------------------------------------------------------------
(* Acceptance keys *)

\* Only an accepted check names a row and brings it into being: no other step
\* touches a key, and none makes a row absent or takes it out of "absent".
LEMMA OnlyAcceptanceNames ==
    ASSUME IInv, [Next]_vars, \A k \in Keys, o \in Ops : ~StateCheck(k, o)
    PROVE  /\ createIdem' = createIdem
           /\ \A o \in Ops : state'[o] = "absent" <=> state[o] = "absent"
<1> DEFINE Kept == /\ createIdem' = createIdem
                   /\ \A o \in Ops : state'[o] = "absent" <=> state[o] = "absent"
<1>1. ASSUME NEW o \in Ops, NEW next \in States, state[o] # "absent", Commit(o, next)
      PROVE  \A p \in Ops : state'[p] = "absent" <=> state[p] = "absent"
  BY <1>1 DEF IInv, TypeOK, Commit
<1>2. ASSUME NEW k \in CancelKeys, NEW o \in Ops, CancelOperation(k, o)
      PROVE  Kept
  <2>1. state[o] \notin {"absent", "cancelled"} /\ createIdem' = createIdem
    BY <1>2 DEF CancelOperation
  <2>2. CancelTarget(o) \in States
    BY <2>1, TargetType DEF IInv
  <2>3. Commit(o, CancelTarget(o)) \/ state' = state
    BY <1>2 DEF CancelOperation, NoCommit
  <2> QED
    BY <1>1, <2>1, <2>2, <2>3
<1>3. ASSUME NEW t \in Tasks, Begin(t)
      PROVE  Kept
  <2>1. /\ task[t].op \in Ops /\ state[task[t].op] # "absent"
        /\ createIdem' = createIdem
    BY <1>3 DEF IInv, TypeOK, TaskInv, WorkerInv, Begin, At
  <2>2. \/ state' = state
        \/ BeginTarget(task[t].op) \in States /\ Commit(task[t].op, BeginTarget(task[t].op))
    BY <1>3, <2>1, TargetType DEF IInv, Begin, NoCommit
  <2> QED
    BY <1>1, <2>1, <2>2
<1>4. ASSUME NEW t \in Tasks, NEW here \in {"finish", "finishCancelled", "finishFailed"},
             NEW terminal \in Terminal, Finish(t, here, terminal)
      PROVE  Kept
  <2>1. /\ task[t].op \in Ops /\ state[task[t].op] # "absent"
        /\ createIdem' = createIdem
    BY <1>4 DEF IInv, TypeOK, TaskInv, WorkerInv, Finish, At
  <2>2. state' = state \/ (terminal \in States /\ Commit(task[t].op, terminal))
    BY <1>4 DEF Finish, FinishOperation, NoCommit
  <2> QED
    BY <1>1, <2>1, <2>2
<1>5. ASSUME NEW t \in Tasks, TaskStep(t)
      PROVE  Kept
  BY <1>5, <1>3, <1>4 DEF TaskStep, AcquireStore, CheckCancelled, RunPhase, durable
<1>6. ASSUME NEW o \in Ops, RecoverOne(o)
      PROVE  Kept
  <2>1. state[o] # "absent" /\ createIdem' = createIdem
    BY <1>6 DEF IInv, DaemonInv, RecoverOne, Live
  <2>2. state' = state \/ Commit(o, RecoverTarget(o))
    BY <1>6 DEF RecoverOne
  <2> QED
    BY <1>1, <2>1, <2>2, TargetType DEF IInv
<1>7. CASE Crash \/ Start \/ Ready \/ UNCHANGED vars \/ \E t \in Tasks : StoreError(t)
  BY <1>7 DEF Crash, Start, Ready, StoreError, vars, durable
<1> QED
  BY <1>2, <1>5, <1>6, <1>7 DEF Next, Request, Worker, Fault, Restart

LEMMA KeyStep ==
    ASSUME IInv, KeyNamesOneOperation, [Next]_vars
    PROVE  KeyNamesOneOperation'
<1>1. CASE \A k \in Keys, o \in Ops : ~StateCheck(k, o)
  BY <1>1, OnlyAcceptanceNames DEF KeyNamesOneOperation
<1>2. ASSUME NEW k \in Keys, NEW o \in Ops, StateCheck(k, o)
      PROVE  KeyNamesOneOperation'
  <2>1. /\ createIdem'[k] = o
        /\ \A j \in Keys \ {k} : createIdem'[j] = createIdem[j]
        /\ state'[o] = "queued"
        /\ \A p \in Ops \ {o} : state'[p] = state[p]
    BY <1>2 DEF IInv, TypeOK, StateCheck, Commit
  <2>2. \A j \in Keys : createIdem[j] # o
    BY <1>2 DEF StateCheck, KeyNamesOneOperation
  <2>3. createIdem[k] = None
    BY <1>2 DEF StateCheck
  <2>4. \A i, j \in Keys : createIdem'[i] = createIdem'[j] /\ createIdem'[i] # None => i = j
    BY <2>1, <2>2 DEF KeyNamesOneOperation
  <2>5. ASSUME NEW p \in Ops
        PROVE  state'[p] # "absent" <=> \E j \in Keys : createIdem'[j] = p
    <3>1. CASE p = o
      BY <3>1, <2>1
    <3>2. CASE p # o
      <4>1. state[p] # "absent" <=> \E j \in Keys : createIdem[j] = p
        BY DEF KeyNamesOneOperation
      <4>2. \A j \in Keys : createIdem[j] = p <=> createIdem'[j] = p
        BY <3>2, <2>1, <2>3, OperationsAssumption
      <4> QED
        BY <3>2, <2>1, <4>1, <4>2
    <3> QED
      BY <3>1, <3>2
  <2> QED
    BY <2>4, <2>5 DEF KeyNamesOneOperation
<1> QED
  BY <1>1, <1>2

\* An accepted key names its Operation for ever and no other key names it; every
\* row has the key it was accepted with, whatever crashes came between.
THEOREM KeysNameRows == Spec => []KeyNamesOneOperation
<1>1. Init => KeyNamesOneOperation
  BY OperationsAssumption DEF Init, KeyNamesOneOperation
<1>2. IInv /\ KeyNamesOneOperation /\ [Next]_vars => KeyNamesOneOperation'
  BY KeyStep
<1> QED
  BY <1>1, <1>2, Invariance, PTL DEF Spec

-----------------------------------------------------------------------------
(* Abandoned Operations *)

\* An unfinished row of a ready daemon has its task, or one of the two reasons not to;
\* while the daemon recovers, it is among those recovery still handles or will schedule.
TendedInv ==
    /\ daemon = "up" => \A o \in Ops : Live(o) /\ state[o] # "cancelling"
                            => HasTask(o) \/ faults > 0
    /\ daemon = "recovering" => \A o \in Ops : Live(o) => o \in pending \cup toSchedule

LEMMA StateCheckTended ==
    ASSUME IInv, TendedInv, NEW k \in Keys, NEW o \in Ops, StateCheck(k, o)
    PROVE  TendedInv'
<1>1. PICK t \in Tasks : task[t].pc = "free" /\ Spawn(o, t)
  BY DEF StateCheck
<1>2. task'[t].op = o /\ \A u \in Tasks \ {t} : task'[u] = task[u]
  BY <1>1 DEF IInv, TypeOK, Spawn
<1>3. task[t].op = None
  BY <1>1 DEF IInv, TaskInv
<1>4. \A p \in Ops \ {o} : state'[p] = state[p] /\ (HasTask(p) => HasTask(p)')
  BY <1>2, <1>3, OperationsAssumption DEF IInv, TypeOK, StateCheck, Commit, HasTask
<1>5. HasTask(o)'
  BY <1>2 DEF HasTask
<1> QED
  BY <1>4, <1>5 DEF StateCheck, TendedInv, Live, bounds

LEMMA CancelTended ==
    ASSUME IInv, TendedInv, NEW k \in CancelKeys, NEW o \in Ops, CancelOperation(k, o)
    PROVE  TendedInv'
<1>1. /\ \A p \in Ops \ {o} : state'[p] = state[p]
      /\ state'[o] = CancelTarget(o)
  BY DEF IInv, TypeOK, CancelOperation, Commit, NoCommit
<1>2. \/ CancelTarget(o) \in {"cancelled", "cancelling"}
      \/ CancelTarget(o) = state[o]
  BY DEF CancelTarget
<1>3. daemon = "up" /\ UNCHANGED volatile /\ UNCHANGED bounds
  BY DEF CancelOperation
<1> QED
  BY <1>1, <1>2, <1>3 DEF TendedInv, Live, HasTask, volatile, bounds

\* A task that only moves on keeps its Operation tended.
LEMMA MoveTended ==
    ASSUME IInv, TendedInv, NEW t \in Tasks, NEW here, Goto(t, here),
           UNCHANGED <<daemon, pending, toSchedule>>, faults' \in Nat, faults' >= faults,
           \A o \in Ops : Live(o)' /\ state'[o] # "cancelling"
                => Live(o) /\ state[o] # "cancelling",
           \A o \in Ops : Live(o)' => Live(o)
    PROVE  TendedInv'
<1>1. \A u \in Tasks : task'[u].op = task[u].op
  BY DEF IInv, TypeOK, Goto
<1>2. \A o \in Ops : HasTask(o) => HasTask(o)'
  BY <1>1 DEF HasTask
<1>3. faults > 0 => faults' > 0
  BY DEF IInv, TypeOK
<1> QED
  BY <1>2, <1>3 DEF TendedInv

\* A task may go when its row is finished or waits for the worker it refused.
LEMMA EndTended ==
    ASSUME IInv, TendedInv, NEW t \in Tasks, EndTask(t), daemon' = "up", faults' = faults,
           daemon = "up", NEW o \in Ops, task[t].op = o,
           state'[o] \in Terminal \cup {"cancelling"},
           \A p \in Ops \ {o} : state'[p] = state[p]
    PROVE  TendedInv'
<1>1. \A u \in Tasks \ {t} : task'[u] = task[u]
  BY DEF IInv, TypeOK, EndTask
<1>2. \A p \in Ops \ {o} : HasTask(p) => HasTask(p)'
  BY <1>1 DEF HasTask
<1> QED
  BY <1>2 DEF TendedInv, Live

LEMMA TaskTended ==
    ASSUME IInv, TendedInv, NEW t \in Tasks, TaskStep(t)
    PROVE  TendedInv'
<1>a. task[t].pc # "free"
  BY DEF TaskStep, AcquireStore, CheckCancelled, Begin, RunPhase, Finish, At
<1>b. daemon = "up"
  BY <1>a, OperationsAssumption DEF IInv, TypeOK, TaskInv, DaemonInv, FreeTask
<1>0. PICK o \in Ops : task[t].op = o
  BY <1>a DEF IInv, TypeOK, TaskInv
<1>c. ASSUME NEW there, Goto(t, there), UNCHANGED <<state, daemon, pending, toSchedule>>,
             faults' = faults \/ faults' = faults + 1
      PROVE  TendedInv'
  <2>1. faults' \in Nat /\ faults' >= faults
    BY <1>c DEF IInv, TypeOK
  <2>2. \A p \in Ops : (Live(p) <=> Live(p)') /\ state'[p] = state[p]
    BY <1>c DEF Live
  <2>3. /\ \A p \in Ops : Live(p)' => Live(p)
        /\ \A p \in Ops : Live(p)' /\ state'[p] # "cancelling"
              => Live(p) /\ state[p] # "cancelling"
    BY <2>2
  <2> QED
    BY <1>c, <2>1, <2>3, MoveTended
<1>1. CASE AcquireStore(t)
  BY <1>1, <1>c DEF AcquireStore, durable, bounds
<1>2. ASSUME NEW here, NEW onward, CheckCancelled(t, here, onward)
      PROVE  TendedInv'
  BY <1>2, <1>c DEF CheckCancelled, durable, bounds
<1>3. ASSUME NEW here, NEW onward, RunPhase(t, here, onward)
      PROVE  TendedInv'
  BY <1>3, <1>c DEF RunPhase, durable
<1>4. CASE Begin(t)
  <2>1. /\ state[o] \in {"queued", "recovering", "cancelling", "cancelled"}
        /\ state[o] = "queued" => ~cancelReq[o]
    BY <1>0, <1>4 DEF IInv, WorkerInv, RowInv, Begin, At
  <2>2. CASE BeginTarget(o) = "corrupt"
    <3>1. state[o] \in {"cancelling", "cancelled"}
      BY <2>1, <2>2 DEF BeginTarget
    <3>2. state' = state /\ EndTask(t) /\ daemon' = daemon /\ faults' = faults
      BY <1>0, <1>4, <2>2 DEF Begin, NoCommit, bounds
    <3>3. /\ state'[o] \in Terminal \cup {"cancelling"} /\ daemon' = "up"
          /\ \A p \in Ops \ {o} : state'[p] = state[p]
      BY <1>b, <3>1, <3>2
    <3> QED
      BY <1>0, <1>b, <3>2, <3>3, EndTended
  <2>3. CASE BeginTarget(o) # "corrupt"
    <3>1. /\ Commit(o, BeginTarget(o)) /\ Goto(t, "integrity")
          /\ UNCHANGED <<daemon, pending, toSchedule>> /\ faults' = faults
      BY <1>0, <1>4, <2>3 DEF Begin, bounds
    <3>2. state[o] \in {"queued", "recovering"}
      BY <2>1, <2>3 DEF BeginTarget
    <3>3. \A p \in Ops \ {o} : state'[p] = state[p]
      BY <3>1 DEF IInv, TypeOK, Commit
    <3>4. /\ \A p \in Ops : Live(p)' => Live(p)
          /\ \A p \in Ops : Live(p)' /\ state'[p] # "cancelling"
                => Live(p) /\ state[p] # "cancelling"
      BY <3>2, <3>3 DEF Live
    <3>5. faults' \in Nat /\ faults' >= faults
      BY <3>1 DEF IInv, TypeOK
    <3> QED
      BY <3>1, <3>4, <3>5, MoveTended
  <2> QED
    BY <2>2, <2>3
<1>5. ASSUME NEW here, NEW terminal,
             <<here, terminal>> \in {<<"finish", "succeeded">>, <<"finishCancelled", "cancelled">>,
                                    <<"finishFailed", "failed">>}, Finish(t, here, terminal)
      PROVE  TendedInv'
  <2>1. /\ here \in {"finish", "finishFailed"} =>
              state[o] \in {"running", "cancelling"}
        /\ here = "finishCancelled" =>
              state[o] \in {"cancelling", "recovering", "cancelled"}
    BY <1>0, <1>5 DEF IInv, WorkerInv, Finish, At
  <2>2. \/ state[o] \in Terminal
        \/ Contract!CanTransition(state[o], terminal)
    BY <1>5, <2>1 DEF Contract!CanTransition
  <2>3. /\ state'[o] \in Terminal
        /\ \A p \in Ops \ {o} : state'[p] = state[p]
    BY <1>0, <1>5, <2>2 DEF IInv, TypeOK, Finish, FinishOperation, Commit, NoCommit
  <2>4. EndTask(t) /\ daemon' = daemon /\ faults' = faults
    BY <1>5 DEF Finish, bounds
  <2> QED
    BY <1>0, <1>b, <2>3, <2>4, EndTended
<1> QED
  BY <1>1, <1>2, <1>3, <1>4, <1>5 DEF TaskStep

LEMMA RecoverOneTended ==
    ASSUME IInv, TendedInv, NEW o \in Ops, RecoverOne(o)
    PROVE  TendedInv'
<1>1. /\ \A p \in Ops \ {o} : state'[p] = state[p]
      /\ state'[o] = RecoverTarget(o)
  BY DEF IInv, TypeOK, RecoverOne, Commit
<1>2. RecoverTarget(o) \in {"interrupted", "queued", "recovering"}
  <2>1. state[o] \in States \ Terminal /\ JournalRecoverable(o)
    BY DEF IInv, TypeOK, DaemonInv, RowInv, RecoverOne, Live, JournalRecoverable
  <2> QED
    BY <2>1 DEF RecoverTarget
<1>3. /\ daemon = "recovering" /\ daemon' = "recovering"
      /\ o \in pending' \cup toSchedule'
      /\ \A p \in Ops : p # o /\ p \in pending \cup toSchedule => p \in pending' \cup toSchedule'
  BY <1>2 DEF RecoverOne
<1> QED
  BY <1>1, <1>3 DEF TendedInv, Live

LEMMA ReadyTended ==
    ASSUME IInv, TendedInv, Ready
    PROVE  TendedInv'
<1>1. PICK start \in [toSchedule -> Tasks] :
          /\ \A o, p \in toSchedule : o # p => start[o] # start[p]
          /\ task' = [t \in Tasks |->
                 IF \E o \in toSchedule : start[o] = t
                 THEN [op |-> CHOOSE o \in toSchedule : start[o] = t,
                       pc |-> "waiting"]
                 ELSE task[t]]
  BY DEF Ready
<1>2. ASSUME NEW o \in toSchedule
      PROVE  HasTask(o)'
  <2>1. (CHOOSE p \in toSchedule : start[p] = start[o]) = o
    BY <1>1
  <2>2. task'[start[o]].op = o /\ start[o] \in Tasks
    BY <1>1, <2>1
  <2> QED
    BY <2>2 DEF HasTask
<1>3. \A o \in Ops : Live(o) => o \in toSchedule
  BY DEF TendedInv, Ready
<1> QED
  BY <1>2, <1>3 DEF TendedInv, Ready, Live, durable

LEMMA TendedStep ==
    ASSUME IInv, TendedInv, [Next]_vars
    PROVE  TendedInv'
<1>1. CASE Request
  BY <1>1, StateCheckTended, CancelTended DEF Request
<1>2. CASE Worker
  BY <1>2, TaskTended DEF Worker
<1>3. CASE Crash
  BY <1>3 DEF Crash, TendedInv
<1>4. ASSUME NEW t \in Tasks, StoreError(t)
      PROVE  TendedInv'
  <2>1. task[t].pc # "free"
    BY <1>4 DEF StoreError
  <2>2. daemon = "up"
    BY <2>1, OperationsAssumption DEF IInv, TypeOK, DaemonInv, FreeTask
  <2>3. faults' > 0 /\ daemon' = daemon
    BY <1>4 DEF IInv, TypeOK, StoreError
  <2> QED
    BY <2>2, <2>3 DEF TendedInv
<1>5. CASE Start
  BY <1>5 DEF Start, TendedInv, Live, durable
<1>6. CASE Restart
  BY <1>5, <1>6, RecoverOneTended, ReadyTended DEF Restart
<1>7. CASE UNCHANGED vars
  BY <1>7 DEF vars, durable, volatile, bounds, TendedInv, Live, HasTask
<1> QED
  BY <1>1, <1>2, <1>3, <1>4, <1>6, <1>7 DEF Next, Fault

\* An accepted check of a ready daemon is worked on; it loses its worker only by a
\* failed store request, or by a cancel that reached a recovered worker between its
\* first look and begin_state_check.
THEOREM AbandonedForAReason == Spec => []AbandonedOnlyByRaceOrFault
<1>1. Init => TendedInv
  BY DEF Init, TendedInv, Live
<1>2. IInv /\ TendedInv /\ [Next]_vars => TendedInv'
  BY TendedStep
<1>3. TendedInv => AbandonedOnlyByRaceOrFault
  BY DEF TendedInv, AbandonedOnlyByRaceOrFault, Abandoned
<1> QED
  BY <1>1, <1>2, <1>3, Invariance, PTL DEF Spec
=============================================================================
