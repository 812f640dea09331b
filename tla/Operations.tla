------------------------------ MODULE Operations ------------------------------
(***************************************************************************)
(* The durable Operation of alcomd and its one reference worker,           *)
(* `state.check': acceptance with an idempotency key, cooperative          *)
(* cancellation, the worker task, and restart recovery.                    *)
(*                                                                         *)
(*   crates/alcomd-store/src/sqlite.rs        one SQL transaction per step *)
(*   crates/alcomd-application/src/lib.rs     handlers and worker task     *)
(*                                                                         *)
(* Every SQL transaction is one atomic action: a single store thread runs  *)
(* the commands one at a time.  What is between two store requests of a    *)
(* task is a point where other tasks, cancels and crashes interleave.      *)
(***************************************************************************)
EXTENDS Naturals, Sequences, FiniteSets

CONSTANTS
    Ops,          \* OperationIds the daemon may draw
    Keys,         \* idempotency keys of state.check requests
    CancelKeys,   \* idempotency keys of operations.cancel requests
    Tasks,        \* identities of spawned worker tasks
    None,         \* "no operation", "no task", "no record"
    MaxCrashes,   \* bound: how often the daemon process dies
    MaxFaults     \* bound: how many store requests of workers fail

ASSUME OperationsAssumption ==
    /\ None \notin Ops /\ None \notin Tasks
    /\ MaxCrashes \in Nat /\ MaxFaults \in Nat

VARIABLES
    \* durable: state.db
    state, rev, cancelReq, journal, events, createIdem, cancelIdem,
    \* volatile: the daemon process
    daemon, pending, toSchedule, task, storeLock,
    \* bounds
    crashes, faults

durable  == <<state, rev, cancelReq, journal, events, createIdem, cancelIdem>>
volatile == <<daemon, pending, toSchedule, task, storeLock>>
bounds   == <<crashes, faults>>
vars     == <<durable, volatile, bounds>>

\* The public contract, read off the `operations' rows.
Contract == INSTANCE OperationContract WITH phase <- state, version <- rev

Terminal == Contract!Terminal
States   == Contract!States

\* Where a worker task stands in run_state_check; each is an await point.
PCs == {"free", "waiting", "check", "begin", "integrity", "check1",
        "foreignKeys", "check2", "finish", "finishCancelled", "finishFailed"}

FreeTask == [op |-> None, pc |-> "free"]

Event  == [rev : Nat, state : States]
Cancel == [op : Ops, expected : Nat, rev : Nat, state : States]

TypeOK ==
    /\ state \in [Ops -> States \cup {"absent"}]
    /\ rev \in [Ops -> Nat]
    /\ cancelReq \in [Ops -> BOOLEAN]
    /\ journal \in [Ops -> {"none", "prepared", "applied"}]
    /\ events \in [Ops -> Seq(Event)]
    /\ createIdem \in [Keys -> Ops \cup {None}]
    /\ cancelIdem \in [CancelKeys -> Cancel \cup {None}]
    /\ daemon \in {"down", "recovering", "up"}
    /\ pending \subseteq Ops
    /\ toSchedule \subseteq Ops
    /\ task \in [Tasks -> [op : Ops \cup {None}, pc : PCs]]
    /\ storeLock \in Tasks \cup {None}
    /\ crashes \in Nat
    /\ faults \in Nat

Init ==
    /\ state = [o \in Ops |-> "absent"]
    /\ rev = [o \in Ops |-> 0]
    /\ cancelReq = [o \in Ops |-> FALSE]
    /\ journal = [o \in Ops |-> "none"]
    /\ events = [o \in Ops |-> <<>>]
    /\ createIdem = [k \in Keys |-> None]
    /\ cancelIdem = [k \in CancelKeys |-> None]
    /\ daemon = "up"
    /\ pending = {}
    /\ toSchedule = {}
    /\ task = [t \in Tasks |-> FreeTask]
    /\ storeLock = None
    /\ crashes = 0
    /\ faults = 0

-----------------------------------------------------------------------------
(* The store *)

\* A committed change: new state, next revision, and its Event, in one transaction.
Commit(o, next) ==
    /\ state' = [state EXCEPT ![o] = next]
    /\ rev' = [rev EXCEPT ![o] = @ + 1]
    /\ events' = [events EXCEPT ![o] =
                    Append(@, [rev |-> rev[o] + 1, state |-> next])]

NoCommit == UNCHANGED <<state, rev, events, journal>>

\* journal_is_recoverable: step 1 of the operation_journal is still prepared.
JournalRecoverable(o) == journal[o] = "prepared"

\* Mutant: the journal step is not closed with the row.
FinishLeavesJournal(o, terminal) ==
    IF state[o] \notin Terminal /\ Contract!CanTransition(state[o], terminal)
    THEN Commit(o, terminal) /\ UNCHANGED journal
    ELSE NoCommit

\* finish_operation: a terminal row is left alone, an illegal move is CorruptState.
FinishOperation(o, terminal) ==
    IF state[o] \notin Terminal /\ Contract!CanTransition(state[o], terminal)
    THEN /\ Commit(o, terminal)
         /\ journal' = [journal EXCEPT ![o] = "applied"]
    ELSE NoCommit

\* begin_state_check: what a queued or recovering row becomes; "corrupt" is an error.
BeginTarget(o) ==
    CASE state[o] \in {"queued", "recovering"} /\ ~cancelReq[o] -> "running"
      [] state[o] = "recovering" /\ cancelReq[o]                -> "cancelling"
      [] OTHER                                                  -> "corrupt"

\* Mutant: a queued row is sent to the worker instead of being cancelled.
CancelTargetQueuedWaits(o) == "cancelling"

\* The state a cancel request moves a non-terminal Operation to.
CancelTarget(o) ==
    CASE state[o] = "queued"                      -> "cancelled"
      [] state[o] \in {"running", "recovering"}   -> "cancelling"
      [] OTHER                                    -> state[o]

-----------------------------------------------------------------------------
(* Client requests: any number of connections, so no fairness. *)

\* Application::schedule: spawn a task that starts by waiting for StateStore.
Spawn(o, t) == task' = [task EXCEPT ![t] = [op |-> o, pc |-> "waiting"]]

\* Mutant: the key is not looked up before the row is created.
StateCheckForgetsKey(k, o) ==
    /\ daemon = "up"
    /\ storeLock = None
    /\ state[o] = "absent"
    /\ Commit(o, "queued")
    /\ journal' = [journal EXCEPT ![o] = "prepared"]
    /\ createIdem' = [createIdem EXCEPT ![k] = o]
    /\ \E t \in Tasks : task[t].pc = "free" /\ Spawn(o, t)
    /\ UNCHANGED <<cancelReq, cancelIdem, daemon, pending, toSchedule,
                   storeLock, bounds>>

\* Application::state_check with a fresh key: the StateStore guard is held for
\* one store request, so the handler is one step.  A known key replays the
\* saved outcome, schedules nothing, and changes nothing.
StateCheck(k, o) ==
    /\ daemon = "up"
    /\ storeLock = None
    /\ createIdem[k] = None
    /\ state[o] = "absent"
    /\ Commit(o, "queued")
    /\ journal' = [journal EXCEPT ![o] = "prepared"]
    /\ createIdem' = [createIdem EXCEPT ![k] = o]
    /\ \E t \in Tasks : task[t].pc = "free" /\ Spawn(o, t)
    /\ UNCHANGED <<cancelReq, cancelIdem, daemon, pending, toSchedule,
                   storeLock, bounds>>

\* Application::cancel_operation with a fresh key.  It takes Operation(o), which
\* no worker of this service takes, so it lands between any two worker steps.
\* A stale revision, a terminal row or a known key changes nothing.
CancelOperation(k, o) ==
    LET next    == CancelTarget(o)
        changed == ~cancelReq[o] \/ next # state[o]
        newRev  == IF changed THEN rev[o] + 1 ELSE rev[o]
    IN  /\ daemon = "up"
        /\ cancelIdem[k] = None
        /\ state[o] \notin Terminal \cup {"absent"}
        /\ cancelIdem' = [cancelIdem EXCEPT ![k] =
              [op |-> o, expected |-> rev[o], rev |-> newRev, state |-> next]]
        /\ IF changed
           THEN /\ Commit(o, next)
                /\ cancelReq' = [cancelReq EXCEPT ![o] = TRUE]
                /\ journal' = IF next = "cancelled"
                              THEN [journal EXCEPT ![o] = "applied"]
                              ELSE journal
           ELSE NoCommit /\ UNCHANGED cancelReq
        /\ UNCHANGED <<createIdem, volatile, bounds>>

-----------------------------------------------------------------------------
(* The worker task: Application::run_state_check *)

At(t, pc)   == task[t].pc = pc
Goto(t, pc) == task' = [task EXCEPT ![t].pc = pc]

\* Mutant: the guard outlives the task.
EndTaskKeepsGuard(t) ==
    /\ task' = [task EXCEPT ![t] = FreeTask]
    /\ UNCHANGED storeLock

\* The task returns and its RAII guard releases StateStore.
EndTask(t) ==
    /\ task' = [task EXCEPT ![t] = FreeTask]
    /\ storeLock' = None

\* The StateStore guard is granted.
AcquireStore(t) ==
    /\ At(t, "waiting") /\ storeLock = None
    /\ storeLock' = t
    /\ Goto(t, "check")
    /\ UNCHANGED <<durable, daemon, pending, toSchedule, bounds>>

\* cancellation_requested, before the check, between its two phases and after it.
CheckCancelled(t, here, onward) ==
    /\ At(t, here)
    /\ Goto(t, IF cancelReq[task[t].op] THEN "finishCancelled" ELSE onward)
    /\ UNCHANGED <<durable, daemon, pending, toSchedule, storeLock, bounds>>

\* begin_state_check; CorruptState ends the task and leaves the row as it is.
Begin(t) ==
    LET o == task[t].op
        next == BeginTarget(o)
    IN  /\ At(t, "begin")
        /\ IF next = "corrupt"
           THEN NoCommit /\ EndTask(t)
           ELSE /\ Commit(o, next) /\ UNCHANGED journal
                /\ Goto(t, "integrity") /\ UNCHANGED storeLock
        /\ UNCHANGED <<cancelReq, createIdem, cancelIdem, daemon, pending,
                       toSchedule, bounds>>

\* check_integrity and check_foreign_keys: read-only, and a store error there is
\* persisted as a failed Operation.
RunPhase(t, here, onward) ==
    /\ At(t, here)
    /\ \/ Goto(t, onward) /\ UNCHANGED faults
       \/ faults < MaxFaults /\ faults' = faults + 1 /\ Goto(t, "finishFailed")
    /\ UNCHANGED <<durable, daemon, pending, toSchedule, storeLock, crashes>>

Finish(t, here, terminal) ==
    /\ At(t, here)
    /\ FinishOperation(task[t].op, terminal)
    /\ EndTask(t)
    /\ UNCHANGED <<cancelReq, createIdem, cancelIdem, daemon, pending,
                   toSchedule, bounds>>

\* Any other store request of the task fails: `?' ends it, nobody is told.
StoreError(t) ==
    /\ task[t].pc \in {"check", "begin", "check1", "check2", "finish",
                       "finishCancelled", "finishFailed"}
    /\ faults < MaxFaults
    /\ faults' = faults + 1
    /\ EndTask(t)
    /\ UNCHANGED <<durable, daemon, pending, toSchedule, crashes>>

TaskStep(t) ==
    \/ AcquireStore(t)
    \/ CheckCancelled(t, "check", "begin")
    \/ Begin(t)
    \/ RunPhase(t, "integrity", "check1")
    \/ CheckCancelled(t, "check1", "foreignKeys")
    \/ RunPhase(t, "foreignKeys", "check2")
    \/ CheckCancelled(t, "check2", "finish")
    \/ Finish(t, "finish", "succeeded")
    \/ Finish(t, "finishCancelled", "cancelled")
    \/ Finish(t, "finishFailed", "failed")

-----------------------------------------------------------------------------
(* The daemon process *)

\* The process dies: every task, guard and queue is gone, state.db stays.
Crash ==
    /\ daemon # "down"
    /\ crashes < MaxCrashes
    /\ crashes' = crashes + 1
    /\ daemon' = "down"
    /\ pending' = {}
    /\ toSchedule' = {}
    /\ task' = [t \in Tasks |-> FreeTask]
    /\ storeLock' = None
    /\ UNCHANGED <<durable, faults>>

\* A new process opens the store and reads the non-terminal rows.
Start ==
    /\ daemon = "down"
    /\ daemon' = "recovering"
    /\ pending' = {o \in Ops : state[o] \notin Terminal \cup {"absent"}}
    /\ UNCHANGED <<durable, toSchedule, task, storeLock, bounds>>

\* Mutant: a running row goes straight to recovering.
RecoverTargetInOneStep(o) ==
    IF ~JournalRecoverable(o) THEN "failed"
    ELSE IF state[o] \in {"running", "cancelling", "interrupted"} THEN "recovering"
    ELSE state[o]

\* Which transaction recover runs next for a row.
RecoverTarget(o) ==
    IF ~JournalRecoverable(o) THEN "failed"
    ELSE CASE state[o] \in {"running", "cancelling"} -> "interrupted"
           [] state[o] = "interrupted"               -> "recovering"
           [] OTHER                                  -> state[o]

\* Mutant: a row found queued is not scheduled.
RecoverOneForgetsQueued(o) ==
    LET next == RecoverTarget(o) IN
    /\ daemon = "recovering"
    /\ o \in pending
    /\ IF next = state[o] THEN UNCHANGED <<state, rev, events>>
                          ELSE Commit(o, next)
    /\ pending' = IF next = "interrupted" THEN pending ELSE pending \ {o}
    /\ toSchedule' = IF next = "recovering" THEN toSchedule \cup {o} ELSE toSchedule
    /\ UNCHANGED <<cancelReq, journal, createIdem, cancelIdem, daemon, task,
                   storeLock, bounds>>

\* One transaction of recover.  A running row takes two: it stays pending until
\* it is `recovering', and a crash in between leaves it `interrupted'.
RecoverOne(o) ==
    LET next == RecoverTarget(o) IN
    /\ daemon = "recovering"
    /\ o \in pending
    /\ IF next = state[o] THEN UNCHANGED <<state, rev, events>>
                          ELSE Commit(o, next)
    /\ pending' = IF next = "interrupted" THEN pending ELSE pending \ {o}
    /\ toSchedule' = IF next \in {"queued", "recovering"}
                     THEN toSchedule \cup {o} ELSE toSchedule
    /\ UNCHANGED <<cancelReq, journal, createIdem, cancelIdem, daemon, task,
                   storeLock, bounds>>

\* Application::recover hands every id to its own task; then RPC opens.
Ready ==
    /\ daemon = "recovering"
    /\ pending = {}
    /\ \E start \in [toSchedule -> Tasks] :
          /\ \A o, p \in toSchedule : o # p => start[o] # start[p]
          /\ task' = [t \in Tasks |->
                 IF \E o \in toSchedule : start[o] = t
                 THEN [op |-> CHOOSE o \in toSchedule : start[o] = t,
                       pc |-> "waiting"]
                 ELSE task[t]]
    /\ daemon' = "up"
    /\ toSchedule' = {}
    /\ UNCHANGED <<durable, pending, storeLock, bounds>>

-----------------------------------------------------------------------------
Request == \/ \E k \in Keys, o \in Ops : StateCheck(k, o)
           \/ \E k \in CancelKeys, o \in Ops : CancelOperation(k, o)

Worker == \E t \in Tasks : TaskStep(t)

Fault == Crash \/ \E t \in Tasks : StoreError(t)

Restart == Start \/ (\E o \in Ops : RecoverOne(o)) \/ Ready

Next == Request \/ Worker \/ Fault \/ Restart

Spec == Init /\ [][Next]_vars

\* tokio polls every runnable task and its mutexes are first come first served;
\* the next client call starts a dead daemon.  Requests and failures are not forced.
Fairness == /\ \A t \in Tasks : WF_vars(TaskStep(t))
            /\ WF_vars(Restart)

FairSpec == Spec /\ Fairness

-----------------------------------------------------------------------------
(* Safety *)

Live(o)     == state[o] \notin Terminal \cup {"absent"}
HasTask(o)  == \E t \in Tasks : task[t].op = o
InSection(t) == task[t].pc \notin {"free", "waiting"}

\* A client that replays operation Events sees every committed revision exactly
\* once, in order, along legal transitions, ending at the row it can query.
EventsTellTheRow ==
    \A o \in Ops :
        /\ Len(events[o]) = rev[o]
        /\ \A i \in 1..Len(events[o]) :
              /\ events[o][i].rev = i
              /\ IF i = 1 THEN events[o][i].state = "queued"
                 ELSE Contract!CanTransition(events[o][i-1].state, events[o][i].state)
        /\ Live(o) \/ state[o] \in Terminal =>
              rev[o] > 0 /\ events[o][rev[o]].state = state[o]

\* Whatever crashes and cancels did, recovery still finds step 1 of the journal
\* prepared for every unfinished row, so it never fails an Operation for lack
\* of evidence; a finished row never looks unfinished to it.
UnfinishedIsRecoverable ==
    \A o \in Ops : /\ Live(o) => JournalRecoverable(o)
                   /\ state[o] \in Terminal => journal[o] = "applied"

\* Replays, recovery and restarts never put two tasks on one Operation, and at
\* most one task is inside the StateStore section: the lock serialises checks.
TasksAreSerialised ==
    /\ \A t, u \in Tasks :
          task[t].op # None /\ task[t].op = task[u].op => t = u
    /\ \A t, u \in Tasks : InSection(t) /\ InSection(u) => t = u

\* Past begin_state_check the row stays where the worker can publish any of the
\* three outcomes, whatever cancels land meanwhile: finish_operation never
\* answers CorruptState to a worker that did the work.
WorkerCanPublish ==
    \A t \in Tasks :
        /\ task[t].pc \in {"integrity", "check1", "foreignKeys", "check2",
                           "finish", "finishFailed"}
              => state[task[t].op] \in {"running", "cancelling"}
        /\ At(t, "finishCancelled")
              => state[task[t].op] \in {"cancelling", "recovering", "cancelled"}

\* An acceptance key names the Operation it created, for ever, and no other: the
\* key and the row are one transaction, so no crash separates them.
KeyNamesOneOperation ==
    /\ \A j, k \in Keys : createIdem[j] = createIdem[k] /\ createIdem[j] # None => j = k
    /\ \A o \in Ops : state[o] # "absent" <=> \E k \in Keys : createIdem[k] = o

\* `interrupted' lives between two transactions of recover: no request handled
\* by a ready daemon ever meets it.
InterruptedIsHidden ==
    daemon = "up" => \A o \in Ops : state[o] # "interrupted"

\* An unfinished Operation that no task of a ready daemon works on.
Abandoned(o) == daemon = "up" /\ Live(o) /\ ~HasTask(o)

\* In a ready daemon an unfinished Operation has a task.  It loses it in two ways
\* only: a store request of the task failed, or a cancel landed between a
\* recovered worker's first look and its begin_state_check (CorruptState).
AbandonedOnlyByRaceOrFault ==
    \A o \in Ops : Abandoned(o) => faults > 0 \/ state[o] = "cancelling"

-----------------------------------------------------------------------------
(* Behaviour *)

\* Every step of the daemon, its failures included, is a step or a stutter of
\* the public contract: legal transitions, one revision each.
ImplementsContract == Contract!ContractSpec

\* An accepted check ends, unless it is abandoned (see above for how).
SettlesUnlessAbandoned ==
    \A o \in Ops : state[o] = "queued" ~> (state[o] \in Terminal \/ Abandoned(o))


=============================================================================
