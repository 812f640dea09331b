----------------------------- MODULE ResourceLocks -----------------------------
(***************************************************************************)
(* ResourceLockCoordinator of crates/alcomd-application: named locks made  *)
(* on demand.  The coordinator keeps one Weak reference per ResourceKey;   *)
(* the strong references are those of the tasks that wait for or hold the  *)
(* lock.  A request locks its keys one at a time in canonical order, and   *)
(* its guards are dropped one at a time; an aborted task drops them too.   *)
(*                                                                         *)
(* The mutex itself is tokio's: first come, first served, a release hands  *)
(* the lock straight to the first waiter.  A task asks again only once it  *)
(* has dropped its guards, as every caller of one coordinator does.        *)
(***************************************************************************)
EXTENDS Naturals, Sequences, FiniteSets

CONSTANTS
    Tasks,   \* RPC handlers and worker tasks
    Keys,    \* ResourceKeys
    Locks,   \* heap cells a lock object may occupy
    Nil,     \* "no lock", "no task"
    Rank     \* Rank[k]: position of ResourceKey::canonical_bytes of k

ASSUME ResourceLocksAssumption ==
    /\ Nil \notin Locks /\ Nil \notin Tasks
    /\ Rank \in [Keys -> Nat]
    /\ \A j, k \in Keys : Rank[j] = Rank[k] => j = k

VARIABLES
    entries,   \* entries[k]: the lock the Weak of k names, dead or alive
    stage,     \* where a task stands
    want,      \* want[t]: the keys of t's request it has not dropped yet
    ref,       \* ref[t][k]: the strong reference t has to the lock of k
    held,      \* held[t]: the keys t has the guard of
    holder,    \* holder[l]: the task lock l is granted to
    queue      \* queue[l]: the waiters of l, first come first

locksVars == <<entries, stage, want, ref, held, holder, queue>>

Stages == {"idle", "resolving", "locking", "parked", "holding", "dropping"}

LocksTypeOK ==
    /\ entries \in [Keys -> Locks \cup {Nil}]
    /\ stage \in [Tasks -> Stages]
    /\ want \in [Tasks -> SUBSET Keys]
    /\ ref \in [Tasks -> [Keys -> Locks \cup {Nil}]]
    /\ held \in [Tasks -> SUBSET Keys]
    /\ holder \in [Locks -> Tasks \cup {Nil}]
    /\ queue \in [Locks -> Seq(Tasks)]

LocksInit ==
    /\ entries = [k \in Keys |-> Nil]
    /\ stage = [t \in Tasks |-> "idle"]
    /\ want = [t \in Tasks |-> {}]
    /\ ref = [t \in Tasks |-> [k \in Keys |-> Nil]]
    /\ held = [t \in Tasks |-> {}]
    /\ holder = [l \in Locks |-> Nil]
    /\ queue = [l \in Locks |-> <<>>]

-----------------------------------------------------------------------------
Referenced(l) == \E t \in Tasks, k \in Keys : ref[t][k] = l

\* Mutant: every request makes its own lock.
NeverUpgrades(k) == FALSE

\* Weak::upgrade succeeds while a task still has the lock.
Upgrades(k) == entries[k] # Nil /\ Referenced(entries[k])

\* A new Arc: no task refers to the cell and no Weak pins it.
FreshLock(l) == ~Referenced(l) /\ \A k \in Keys : entries[k] # l

Unresolved(t) == {k \in want[t] : ref[t][k] = Nil}

\* Mutant: the keys are locked in the order of the request.
AnyOrder(S, k) == k \in S

\* The first of S in canonical byte order.
Least(S, k) == k \in S /\ \A j \in S : Rank[k] <= Rank[j]

-----------------------------------------------------------------------------
(* acquire *)

\* The task gets the mutex over `entries', which nobody else then has.
Enter(t, ks) ==
    /\ stage[t] = "idle"
    /\ \A u \in Tasks : stage[u] # "resolving"
    /\ stage' = [stage EXCEPT ![t] = "resolving"]
    /\ want' = [want EXCEPT ![t] = ks]
    /\ UNCHANGED <<entries, ref, held, holder, queue>>

\* Upgrade the Weak of the next key, or replace it by a new lock.  Other tasks
\* may drop their references in between: only `entries' is locked.
Resolve(t, k) ==
    /\ stage[t] = "resolving"
    /\ Least(Unresolved(t), k)
    /\ \E l \in Locks :
          /\ IF Upgrades(k) THEN l = entries[k] ELSE FreshLock(l)
          /\ ref' = [ref EXCEPT ![t][k] = l]
          /\ entries' = [entries EXCEPT ![k] = l]
    /\ UNCHANGED <<stage, want, held, holder, queue>>

\* Every key is resolved: the mutex over `entries' is released.
Leave(t) ==
    /\ stage[t] = "resolving"
    /\ Unresolved(t) = {}
    /\ stage' = [stage EXCEPT ![t] = "locking"]
    /\ UNCHANGED <<entries, want, ref, held, holder, queue>>

\* Task t has the guard of k: on to the next key, or to its work.
Got(t, k) ==
    /\ held' = [held EXCEPT ![t] = @ \cup {k}]
    /\ stage' = [stage EXCEPT ![t] = IF want[t] = held[t] \cup {k} THEN "holding" ELSE "locking"]

\* lock_owned on the next key: granted at once, or the task joins the queue.
LockNext(t, k) ==
    LET l == ref[t][k] IN
    /\ stage[t] = "locking"
    /\ Least(want[t] \ held[t], k)
    /\ IF holder[l] = Nil
       THEN holder' = [holder EXCEPT ![l] = t] /\ Got(t, k) /\ UNCHANGED queue
       ELSE /\ queue' = [queue EXCEPT ![l] = Append(@, t)]
            /\ stage' = [stage EXCEPT ![t] = "parked"]
            /\ UNCHANGED <<held, holder>>
    /\ UNCHANGED <<entries, want, ref>>

\* The task is polled after a release handed it the lock.
Wake(t, k) ==
    /\ stage[t] = "parked"
    /\ Least(want[t] \ held[t], k)
    /\ holder[ref[t][k]] = t
    /\ Got(t, k)
    /\ UNCHANGED <<entries, want, ref, holder, queue>>

-----------------------------------------------------------------------------
(* Dropping the guards *)

\* A release passes the lock to the first waiter.
HandOver(l) ==
    IF queue[l] = <<>>
    THEN holder' = [holder EXCEPT ![l] = Nil] /\ UNCHANGED queue
    ELSE /\ holder' = [holder EXCEPT ![l] = Head(queue[l])]
         /\ queue' = [queue EXCEPT ![l] = Tail(@)]

\* A sequence without its i-th element.
Without(q, i) == SubSeq(q, 1, i - 1) \o SubSeq(q, i + 1, Len(q))

\* Task t keeps only the keys S, references included.
Keep(t, S) ==
    /\ want' = [want EXCEPT ![t] = S]
    /\ ref' = [ref EXCEPT ![t] = [k \in Keys |-> IF k \in S THEN ref[t][k] ELSE Nil]]
    /\ stage' = [stage EXCEPT ![t] = IF S = {} THEN "idle" ELSE "dropping"]

\* ResourceLockGuards is dropped guard by guard, in the order of locking.
Release(t, k) ==
    /\ stage[t] \in {"holding", "dropping"}
    /\ Least(held[t], k)
    /\ HandOver(ref[t][k])
    /\ held' = [held EXCEPT ![t] = @ \ {k}]
    /\ Keep(t, held[t] \ {k})
    /\ UNCHANGED entries

\* The task is aborted at an await: its place in a queue or a lock it was handed
\* and never saw goes first, then the references it had not locked; the guards
\* follow one by one.
Abort(t) ==
    /\ \/ /\ stage[t] \in {"locking", "holding"}
          /\ UNCHANGED <<holder, queue>>
       \/ /\ stage[t] = "parked"
          /\ \E k \in want[t] \ held[t] :
                /\ Least(want[t] \ held[t], k)
                /\ LET l == ref[t][k] IN
                   IF holder[l] = t THEN HandOver(l)
                   ELSE /\ \E i \in DOMAIN queue[l] :
                              /\ queue[l][i] = t
                              /\ queue' = [queue EXCEPT ![l] = Without(@, i)]
                        /\ UNCHANGED holder
    /\ Keep(t, held[t])
    /\ UNCHANGED <<entries, held>>

-----------------------------------------------------------------------------
Step(t) == \/ Leave(t)
           \/ \E k \in Keys : Resolve(t, k) \/ LockNext(t, k) \/ Wake(t, k) \/ Release(t, k)

LocksNext == \E t \in Tasks : \/ \E ks \in SUBSET Keys \ {{}} : Enter(t, ks)
                         \/ Step(t)
                         \/ Abort(t)

LocksSpec == LocksInit /\ [][LocksNext]_locksVars

\* tokio polls a task that can go on; the work done under a guard ends.
LocksFairSpec == LocksSpec /\ \A t \in Tasks : WF_locksVars(Step(t))

-----------------------------------------------------------------------------
\* Two tasks never hold the guard of one key, however often its lock object died
\* and was made again: the coordinator excludes as one mutex per key would.
MutualExclusion ==
    \A t, u \in Tasks : t # u => held[t] \cap held[u] = {}

\* All references to the lock of a key are to one object, and it is the one the
\* next request will upgrade: no late waiter queues on a second lock.
OneLockPerKey ==
    \A t \in Tasks, k \in Keys : ref[t][k] # Nil => ref[t][k] = entries[k]

\* A lock with waiters is granted to someone: no release, abort of a waiter or
\* abort of a task that was just handed the lock loses the wake-up.
NoLostWakeup ==
    \A l \in Locks : queue[l] # <<>> => holder[l] # Nil

\* A request is granted all its keys, if nobody aborts it: requests of several keys do not
\* wait for each other in a circle, and no wake-up is lost.
RequestsAreServed ==
    \A t \in Tasks : stage[t] = "resolving" ~> stage[t] \in {"holding", "dropping", "idle"}
=============================================================================
