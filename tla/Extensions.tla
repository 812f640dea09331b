------------------------------- MODULE Extensions -------------------------------
(***************************************************************************)
(* The runtime of one extension: its desired state and grants, the row of  *)
(* its newest instance with the lease that gives a Host its authority, the *)
(* Host process, and those who start and stop it.                          *)
(*                                                                         *)
(*   crates/alcomd-application/src/m6.rs   requests, restarts, maintenance *)
(*   crates/alcomd-application/src/m7.rs   a guest that fails a UI call    *)
(*   crates/alcomd-store/src/m6.rs         the transactions                *)
(*   apps/alcomd/src/m6_runtime.rs         the map of Host processes       *)
(*   apps/alcomd/src/lib.rs                the loop that maintains them    *)
(*                                                                         *)
(* Grant revision and lifecycle generation only ever grow and are always   *)
(* compared together: their sum stands for both and is called the era.     *)
(* The time at which a lease expires is left out: a lease is due for       *)
(* renewal or not.                                                         *)
(***************************************************************************)
EXTENDS Naturals, FiniteSets

CONSTANTS
    Tasks,        \* tasks of the daemon that may work on the extension at once
    MaxStarts,    \* bound: instances that are prepared
    MaxEra,       \* bound: commits that change grants or lifecycle
    MaxKills      \* bound: deaths of the daemon process

ASSUME ExtensionsAssumption ==
    /\ Tasks \subseteq Nat /\ 1 \in Tasks
    /\ MaxStarts \in Nat /\ MaxEra \in Nat /\ MaxKills \in Nat

VARIABLES
    ext,        \* durable: extensions and extension_grants
    row,        \* durable: extension_instances
    crashes,    \* durable: crashes on record in the window of 300 s
    uninstall,  \* durable: an uninstall Operation is unfinished
    sent,       \* a disable was answered, and may be sent once more with its key
    daemon,     \* "down", "recovering" (before it serves), "up"
    host,       \* the entry in the runtime's map of processes
    task,       \* the tasks
    maint,      \* maintain_runtime, run every 250 ms by the daemon's loop
    sleepers,   \* delayed restarts that still sleep
    last,       \* instances prepared so far
    displaced,  \* history: a step for another instance took the process of the one on record
    exited,     \* history: the daemon's loop ended with an error
    kills

store == <<ext, row, crashes, uninstall, sent>>
vars  == <<store, daemon, host, task, maint, sleepers, last, displaced, exited, kills>>

Insts  == 1..MaxStarts
NoRow  == [inst |-> 0, era |-> 0, state |-> "stopped", cancelled |-> TRUE]
NoHost == [inst |-> 0, alive |-> FALSE, due |-> FALSE]
Idle   == [pc |-> "idle", inst |-> 0, then |-> "done"]
Quiet  == [pc |-> "idle", inst |-> 0]

TypeOK ==
    /\ ext \in [desired : {"enabled", "disabled", "uninstalling", "absent"},
                quarantined : BOOLEAN, granted : BOOLEAN, era : Nat]
    /\ row \in [inst : Insts \cup {0}, era : Nat, cancelled : BOOLEAN,
                state : {"stopped", "starting", "running", "stopping", "crashed"}]
    /\ crashes \in 0..3 /\ uninstall \in BOOLEAN /\ sent \in BOOLEAN
    /\ daemon \in {"down", "recovering", "up"}
    /\ host \in [inst : Insts \cup {0}, alive : BOOLEAN, due : BOOLEAN]
    /\ task \in [Tasks -> [pc : {"idle", "check", "prepare", "start", "ready", "crashed",
                                 "stop", "delete", "reread", "purge", "terminate"},
                           inst : Insts \cup {0}, then : {"done", "restart", "purge"}]]
    /\ maint \in [pc : {"idle", "renew", "update", "stop", "crash"},
                  inst : Insts \cup {0}]
    /\ sleepers \in Nat /\ last \in 0..MaxStarts /\ displaced \in BOOLEAN
    /\ exited \in BOOLEAN /\ kills \in Nat

\* Installed and disabled; the grants may have been set before, one crash is on record.
Init ==
    /\ ext \in [desired : {"disabled"}, quarantined : {FALSE}, granted : BOOLEAN, era : {0}]
    /\ row = NoRow /\ crashes = 1 /\ uninstall = FALSE /\ sent = FALSE
    /\ daemon = "up" /\ host = NoHost
    /\ task = [t \in Tasks |-> Idle] /\ maint = Quiet
    /\ sleepers = 0 /\ last = 0 /\ displaced = FALSE /\ exited = FALSE /\ kills = 0

-----------------------------------------------------------------------------
(* Requests *)

\* A client's request, or the worker of an uninstall, gets a task.
Request(t) == /\ daemon = "up" /\ task[t].pc = "idle"
              /\ ext.desired # "absent" /\ ext.era < MaxEra

Put(t, where, inst, then) ==
    task' = [task EXCEPT ![t] = [pc |-> where, inst |-> inst, then |-> then]]

Go(t, where) == Put(t, where, task[t].inst, task[t].then)
Done(t)      == task' = [task EXCEPT ![t] = Idle]

StopThen(t, next) == Put(t, "stop", 0, next)

\* Every commit that changes what an instance was bound to cancels its lease.
NewEra(changed) == ext' = [changed EXCEPT !.era = ext.era + 1]

CancelLease(state) ==
    row' = IF row.inst = 0 THEN row ELSE [row EXCEPT !.cancelled = TRUE, !.state = state]

Untouched == UNCHANGED <<daemon, host, maint, sleepers, last, displaced, exited, kills>>

\* enable: set_desired clears the quarantine and asks only for the grants.
Enable(t) ==
    /\ Request(t) /\ ext.granted
    /\ NewEra([ext EXCEPT !.desired = "enabled", !.quarantined = FALSE])
    /\ CancelLease("stopping")
    /\ Go(t, "check")
    /\ UNCHANGED <<crashes, uninstall, sent>> /\ Untouched

Disable(t) ==
    /\ Request(t)
    /\ NewEra([ext EXCEPT !.desired = "disabled"])
    /\ CancelLease("stopping")
    /\ sent' = TRUE
    /\ StopThen(t, "done")
    /\ UNCHANGED <<crashes, uninstall>> /\ Untouched

\* Mutant: the instance keeps the lease bound to the grants of before.
SetGrantKeepsLease(t) ==
    /\ Request(t)
    /\ \E granted \in BOOLEAN : NewEra([ext EXCEPT !.granted = granted])
    /\ StopThen(t, "restart")
    /\ UNCHANGED <<row, crashes, uninstall, sent>> /\ Untouched

\* setGrant and revokeGrant of background.run
SetGrant(t) ==
    /\ Request(t)
    /\ \E granted \in BOOLEAN : NewEra([ext EXCEPT !.granted = granted])
    /\ CancelLease(row.state)
    /\ StopThen(t, "restart")
    /\ UNCHANGED <<crashes, uninstall, sent>> /\ Untouched

\* The same disable with the same key: the store answers from its record, and the
\* handler goes on to stop the Host as it did the first time.
Resend(t) ==
    /\ Request(t)
    /\ sent /\ StopThen(t, "done")
    /\ UNCHANGED store /\ Untouched

\* begin_apply of an uninstall plan: grants and lease are revoked first.
Uninstall(t) ==
    /\ Request(t) /\ ~uninstall
    /\ NewEra([ext EXCEPT !.desired = "uninstalling", !.granted = FALSE])
    /\ CancelLease("stopping")
    /\ uninstall' = TRUE
    /\ StopThen(t, "purge")
    /\ UNCHANGED <<crashes, sent>> /\ Untouched

-----------------------------------------------------------------------------
(* Steps of a task *)

At(t, where) == daemon # "down" /\ task[t].pc = where

\* stop_host takes the entry out of the map, whatever instance it belongs to.
Stop(t) ==
    /\ At(t, "stop")
    /\ host' = NoHost
    /\ Go(t, "delete")
    /\ UNCHANGED <<store, daemon, maint, sleepers, last, displaced, exited, kills>>

\* mark_instance_stopped deletes the row, whatever instance it belongs to.
Delete(t) ==
    /\ At(t, "delete")
    /\ row' = NoRow
    /\ \/ task[t].then = "done" /\ Done(t)
       \/ task[t].then = "restart" /\ Put(t, "reread", 0, "done")
       \/ task[t].then = "purge" /\ Go(t, "purge")
    /\ UNCHANGED <<ext, crashes, uninstall, sent>> /\ Untouched

Reread(t) ==
    /\ At(t, "reread")
    /\ Go(t, IF ext.desired = "enabled" THEN "check" ELSE "idle")
    /\ UNCHANGED store /\ Untouched

\* finish_uninstall
Purge(t) ==
    /\ At(t, "purge")
    /\ ext' = [ext EXCEPT !.desired = "absent", !.granted = FALSE]
    /\ row' = NoRow /\ uninstall' = FALSE
    /\ Done(t)
    /\ UNCHANGED <<crashes, sent>> /\ Untouched

\* start_enabled, first of all: has_background_authority
Check(t) ==
    /\ At(t, "check")
    /\ Go(t, IF ext.granted THEN "prepare" ELSE "idle")
    /\ UNCHANGED store /\ Untouched

\* prepare_instance: one row per extension, the newest instance takes it over.
Prepare(t) ==
    /\ At(t, "prepare")
    /\ IF ext.desired = "enabled" /\ ~ext.quarantined /\ ext.granted
       THEN /\ last < MaxStarts /\ last' = last + 1
            /\ row' = [inst |-> last', era |-> ext.era, state |-> "starting",
                       cancelled |-> FALSE]
            /\ displaced' = FALSE
            /\ Put(t, "start", last', task[t].then)
       ELSE Go(t, "idle") /\ UNCHANGED <<row, last, displaced>>
    /\ UNCHANGED <<ext, crashes, uninstall, sent, daemon, host, maint, sleepers, exited,
                   kills>>

Displace == displaced' = (displaced \/ (host.inst # 0 /\ host.inst = row.inst))

\* start_host, all of it under the lock of the map: another process of the extension is
\* terminated first, then this one starts or does not; an unreadable component fails
\* before that.
StartHost(t) ==
    /\ At(t, "start")
    /\ \/ /\ host' = [inst |-> task[t].inst, alive |-> TRUE, due |-> FALSE]
          /\ Displace /\ Go(t, "ready")
       \/ host' = NoHost /\ Displace /\ Go(t, "crashed")
       \/ Go(t, "crashed") /\ UNCHANGED <<host, displaced>>
    /\ UNCHANGED <<store, daemon, maint, sleepers, last, exited, kills>>

\* mark_instance_running; an instance that is stale by now is an error, no more.
MarkRunning(t) ==
    /\ At(t, "ready")
    /\ row' = IF row.inst = task[t].inst /\ ~row.cancelled /\ row.state = "starting"
              THEN [row EXCEPT !.state = "running"] ELSE row
    /\ Done(t)
    /\ UNCHANGED <<ext, crashes, uninstall, sent>> /\ Untouched

\* record_instance_crash: the third crash in the window quarantines the extension, an
\* earlier one asks for a restart after a delay.  A stale instance changes nothing.
RecordCrash(inst) ==
    LET count == IF crashes = 3 THEN 3 ELSE crashes + 1
        third == count = 3 /\ ~ext.quarantined
    IN IF row.inst # inst THEN UNCHANGED <<ext, row, crashes, sleepers>>
       ELSE /\ crashes' = count
            /\ IF third
               THEN row' = NoRow /\ NewEra([ext EXCEPT !.quarantined = TRUE])
               ELSE /\ row' = [row EXCEPT !.state = "crashed", !.cancelled = TRUE]
                    /\ UNCHANGED ext
            /\ sleepers' = IF ext.desired = "enabled" /\ ~ext.quarantined /\ ~third
                           THEN sleepers + 1 ELSE sleepers

StartCrashed(t) ==
    /\ At(t, "crashed")
    /\ RecordCrash(task[t].inst)
    /\ Done(t)
    /\ UNCHANGED <<uninstall, sent, daemon, host, maint, last, displaced, exited, kills>>

\* schedule_restart: the delay is over.
Wake(t) ==
    /\ daemon # "down" /\ task[t].pc = "idle"
    /\ sleepers > 0 /\ sleepers' = sleepers - 1
    /\ Go(t, "check")
    /\ UNCHANGED <<store, daemon, host, maint, last, displaced, exited, kills>>

\* A guest traps or overruns in a call of its UI session.
GuestFails(t) ==
    /\ daemon = "up" /\ task[t].pc = "idle"
    /\ host.inst # 0 /\ host.alive
    /\ Put(t, "terminate", host.inst, task[t].then)
    /\ UNCHANGED store /\ Untouched

\* Mutant: the guest is terminated and nothing is recorded.
TerminateSilently(t) ==
    /\ At(t, "terminate")
    /\ host' = NoHost
    /\ displaced' = (displaced \/ (host.inst \notin {0, task[t].inst} /\ host.inst = row.inst))
    /\ Done(t)
    /\ UNCHANGED <<store, daemon, maint, sleepers, last, exited, kills>>

\* terminate_host takes the entry out of the map, whatever instance it belongs to.
Terminate(t) ==
    /\ At(t, "terminate")
    /\ host' = NoHost
    /\ displaced' = (displaced \/ (host.inst \notin {0, task[t].inst} /\ host.inst = row.inst))
    /\ Go(t, "crashed")
    /\ UNCHANGED <<store, daemon, maint, sleepers, last, exited, kills>>

TaskStep(t) ==
    \/ Stop(t) \/ Delete(t) \/ Reread(t) \/ Purge(t)
    \/ Check(t) \/ Prepare(t) \/ StartHost(t) \/ MarkRunning(t) \/ StartCrashed(t)
    \/ Terminate(t)

-----------------------------------------------------------------------------
(* The Host process, the clock and maintain_runtime *)

HostExits ==
    /\ host.inst # 0 /\ host.alive
    /\ host' = [host EXCEPT !.alive = FALSE]
    /\ UNCHANGED <<store, daemon, task, maint, sleepers, last, displaced, exited, kills>>

\* Less than 30 s of the lease are left.
LeaseRunsOut ==
    /\ host.inst # 0 /\ host.alive /\ ~host.due
    /\ host' = [host EXCEPT !.due = TRUE]
    /\ UNCHANGED <<store, daemon, task, maint, sleepers, last, displaced, exited, kills>>

\* Crashes leave the window, and the sixteen that are kept, one by one.
Forget ==
    /\ crashes > 0
    /\ crashes' = crashes - 1
    /\ UNCHANGED <<ext, row, uninstall, sent, task>> /\ Untouched

InLoop(where) == daemon = "up" /\ maint.pc = where
Next250ms == maint' = Quiet

\* poll_hosts; leases with time left are left alone.
Poll ==
    /\ InLoop("idle") /\ host.inst # 0
    /\ \/ /\ ~host.alive /\ host' = NoHost
          /\ maint' = [pc |-> "crash", inst |-> host.inst]
       \/ /\ host.alive /\ host.due
          /\ maint' = [pc |-> "renew", inst |-> host.inst]
          /\ UNCHANGED host
    /\ UNCHANGED <<store, daemon, task, sleepers, last, displaced, exited, kills>>

Renewable == /\ row.inst = maint.inst /\ ~row.cancelled /\ row.state = "running"

\* Mutant: a lease that cannot be renewed is left to its Host.
RenewOrForget ==
    /\ InLoop("renew")
    /\ IF Renewable THEN maint' = [maint EXCEPT !.pc = "update"] ELSE Next250ms
    /\ UNCHANGED <<store, daemon, host, task, sleepers, last, displaced, exited, kills>>

\* renew_instance
Renew ==
    /\ InLoop("renew")
    /\ maint' = [maint EXCEPT !.pc = IF Renewable THEN "update" ELSE "stop"]
    /\ UNCHANGED <<store, daemon, host, task, sleepers, last, displaced, exited, kills>>

\* The process is gone, and the Hosts with it: their pipes close.
Die == /\ daemon' = "down"
       /\ host' = NoHost /\ task' = [t \in Tasks |-> Idle] /\ maint' = Quiet
       /\ sleepers' = 0

\* update_lease: the entry must still be that of the instance; if it is not, the error
\* leaves maintain_runtime and ends the loop of the daemon.
UpdateLease ==
    /\ InLoop("update")
    /\ IF host.inst = maint.inst
       THEN /\ host' = [host EXCEPT !.due = FALSE]
            /\ Next250ms
            /\ UNCHANGED <<daemon, task, sleepers, exited>>
       ELSE Die /\ exited' = TRUE
    /\ UNCHANGED <<store, last, displaced, kills>>

\* A lease that is not current any more: its Host is stopped, by the extension's name.
StopStale ==
    /\ InLoop("stop")
    /\ host' = NoHost /\ Displace
    /\ Next250ms
    /\ UNCHANGED <<store, daemon, task, sleepers, last, exited, kills>>

HostCrashed ==
    /\ InLoop("crash")
    /\ RecordCrash(maint.inst)
    /\ Next250ms
    /\ UNCHANGED <<uninstall, sent, daemon, host, task, last, displaced, exited, kills>>

Maintain == Poll \/ Renew \/ UpdateLease \/ StopStale \/ HostCrashed

-----------------------------------------------------------------------------
(* The daemon process *)

Kill ==
    /\ daemon # "down"
    /\ kills < MaxKills /\ kills' = kills + 1
    /\ Die
    /\ UNCHANGED <<store, last, displaced, exited>>

\* recover_instances, and start_enabled before anything else is served.  What follows
\* after the loop ended with an error is what follows after a death: it is left out.
Recover ==
    /\ daemon = "down" /\ ~exited /\ daemon' = "recovering"
    /\ row' = IF row.state \in {"starting", "running", "stopping"}
              THEN [row EXCEPT !.state = "crashed", !.cancelled = TRUE] ELSE row
    /\ IF ext.desired = "enabled" /\ ~ext.quarantined /\ ext.granted
       THEN Go(1, "check") ELSE UNCHANGED task
    /\ UNCHANGED <<ext, crashes, uninstall, sent, host, maint, sleepers, last, displaced,
                   exited, kills>>

\* recover_operations, and the daemon serves.
Serve ==
    /\ daemon = "recovering" /\ task[1].pc = "idle"
    /\ daemon' = "up"
    /\ IF uninstall THEN \E t \in Tasks : task[t].pc = "idle" /\ StopThen(t, "purge")
                    ELSE UNCHANGED task
    /\ UNCHANGED <<store, host, maint, sleepers, last, displaced, exited, kills>>

Next ==
    \/ \E t \in Tasks : \/ Enable(t) \/ Disable(t) \/ SetGrant(t) \/ Resend(t)
                        \/ Uninstall(t) \/ TaskStep(t) \/ Wake(t) \/ GuestFails(t)
    \/ HostExits \/ LeaseRunsOut \/ Forget
    \/ Maintain
    \/ Kill \/ Recover \/ Serve

Spec == Init /\ [][Next]_vars

\* The loop ticks every 250 ms, and time passes.
FairSpec == Spec /\ WF_vars(Maintain) /\ WF_vars(LeaseRunsOut)

-----------------------------------------------------------------------------
(* Properties *)

\* Whatever starts, restarts and requests overlap, a lease that a capability call may
\* use or come to use belongs to an extension that is enabled, granted and not in
\* quarantine, and was issued under its present grants and generation.
AuthorityIsCurrent ==
    row.state \in {"starting", "running"} /\ ~row.cancelled =>
        /\ ext.desired = "enabled" /\ ext.granted /\ ~ext.quarantined
        /\ row.era = ext.era

\* The instance on record as running has its process in the map, or a step that will
\* change the record is under way, or its process was taken by a step for another
\* instance: that is the only way a phantom stays.
Pending(inst) ==
    \/ \E t \in Tasks : \/ task[t].pc = "delete"
                        \/ task[t].pc = "crashed" /\ task[t].inst = inst
    \/ maint.pc = "crash" /\ maint.inst = inst

PhantomForAReason ==
    daemon # "down" /\ row.state = "running" /\ host.inst # row.inst =>
        displaced \/ Pending(row.inst)

\* A Host whose instance lost its row or its lease is stopped in the end, also when the
\* request that should have stopped it came too early.
Stale == host.inst # 0 /\ (host.inst # row.inst \/ row.cancelled)
StaleHostIsStopped == Stale ~> ~Stale


=============================================================================
