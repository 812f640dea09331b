------------------------------- MODULE EventsLive -------------------------------
(***************************************************************************)
(* Live changes: what the store commits reaches the pages of the GUI.      *)
(*                                                                         *)
(*   crates/alcomd-store/src/lib.rs            the one store thread        *)
(*   crates/alcomd-application/src/events.rs   a subscription              *)
(*   apps/alcomd/src/events_rpc.rs             its delivery                *)
(*   crates/alcomd-client/src/events.rs        checks of the client        *)
(*   apps/alcomd-gui/src-tauri/src/events.rs   the bridge, acknowledgement *)
(*   apps/alcomd-gui/src/core-events.ts        cursor, dirty reads         *)
(*                                                                         *)
(* The store thread commits, then tells a watch channel how far it got.    *)
(* A subscription reads what is new and sleeps on the channel; the GUI is  *)
(* not sent data but told what to read again.  One GUI, and one page of    *)
(* it: pages have nothing to do with each other.                           *)
(***************************************************************************)
EXTENDS Naturals, Sequences, FiniteSets

CONSTANTS
    MaxCommits,   \* bound: transactions
    MaxMishaps,   \* bound: deaths, lost connections, failures, reloads
    None          \* no cursor

ASSUME EventsAssumption ==
    /\ MaxCommits \in Nat /\ MaxMishaps \in Nat
    /\ None \notin [inst : Nat, seq : Nat, rev : Nat]

Limit == 2        \* bound: Events of one batch

VARIABLES
    log,       \* durable: the Events; TRUE: one of the local owner
    exts,      \* durable: changes of extensions
    logs,      \* durable: entries of the Operation log
    due,       \* the store thread: what it has committed and not announced
    mark,      \* the watch channel: EventCommitWatermark
    inst,      \* identity of this opening of the store
    process,   \* of the daemon
    sub,       \* the subscription
    wire,      \* what is on its way to the GUI
    gui,       \* the connection as the GUI sees it, and its cursors
    page,      \* what the page is of and shows, and the read behind it
    lost,      \* history: an extension change was never announced, and the GUI has not
               \* connected anew since
    commits, mishaps

core == <<log, exts, logs, due, mark, inst, process, commits>>
view == <<gui, page>>
liveVars == <<core, sub, wire, view, lost, mishaps>>

\* Whether the client negotiated the Operation log.
WithLogs == gui.logs

Pages  == {"operations", "extensions", "log"}
Scopes == {"extensions", "log"}
Own    == {i \in DOMAIN log : log[i]}
Truth  == CASE page.of = "operations" -> Cardinality(Own)
            [] page.of = "extensions" -> exts
            [] page.of = "log"        -> logs

Cursor == [inst : Nat, seq : Nat, rev : Nat]
NoSub  == [pc |-> "none", seq |-> 0, rev |-> 0, unseen |-> FALSE, found |-> {}]

LiveTypeOK ==
    /\ log \in Seq(BOOLEAN) /\ exts \in Nat /\ logs \in Nat
    /\ due \in {"none", "plain", "extensions"}
    /\ mark \in [seq : Nat, res : Nat, exts : Nat, logs : Nat, logSeq : Nat,
                 available : BOOLEAN]
    /\ inst \in Nat /\ process \in {"down", "up"}
    /\ sub \in [pc : {"none", "sample", "read", "resample", "wait"}, seq : Nat, rev : Nat,
                unseen : BOOLEAN, found : SUBSET Nat]
    /\ gui \in [link : {"off", "opening", "up", "acking", "stopped"}, logs : BOOLEAN,
                accepted : Cursor \cup {None}, inst : Nat, seq : Nat, rev : Nat]
    /\ page \in [of : Pages, shown : Nat, dirty : BOOLEAN, blocked : BOOLEAN, stale : BOOLEAN,
                 read : {"idle", "answered"}, value : Nat]
    /\ lost \in BOOLEAN /\ commits \in Nat /\ mishaps \in Nat

Fresh(p) == [of |-> p, shown |-> 0, dirty |-> TRUE, blocked |-> FALSE, stale |-> FALSE,
             read |-> "idle", value |-> 0]

LiveInit ==
    /\ log = <<>> /\ exts = 0 /\ logs = 0 /\ due = "none"
    /\ mark = [seq |-> 0, res |-> 0, exts |-> 0, logs |-> 0, logSeq |-> 0, available |-> TRUE]
    /\ inst = 1 /\ process = "up" /\ sub = NoSub /\ wire = <<>>
    /\ \E l \in BOOLEAN, p \in Pages :
          /\ p = "log" => l
          /\ gui = [link |-> "off", logs |-> l, accepted |-> None, inst |-> 0, seq |-> 0, rev |-> 0]
          /\ page = Fresh(p)
    /\ lost = FALSE /\ commits = 0 /\ mishaps = 0

Mishap == mishaps < MaxMishaps /\ mishaps' = mishaps + 1

-----------------------------------------------------------------------------
(* The store thread *)

\* A transaction: an Event, a change of an extension or an entry of the log, or the first
\* with one of the others.
Commit ==
    /\ process = "up" /\ due = "none" /\ commits < MaxCommits
    /\ \E event \in {<<>>, <<TRUE>>, <<FALSE>>}, other \in {"none"} \cup Scopes :
          /\ event # <<>> \/ other # "none"
          /\ log' = log \o event
          /\ exts' = exts + IF other = "extensions" THEN 1 ELSE 0
          /\ logs' = logs + IF other = "log" THEN 1 ELSE 0
          /\ due' = IF other = "extensions" THEN "extensions" ELSE "plain"
    /\ commits' = commits + 1
    /\ UNCHANGED <<mark, inst, process, sub, wire, view, lost, mishaps>>

\* publish_event_watermark: from the tables and the watermark m.
Announced(m, ext) ==
    LET logged == m.logSeq # logs
        res    == m.res + IF ext \/ logged THEN 1 ELSE 0
    IN [seq |-> Len(log), res |-> res, exts |-> IF ext THEN res ELSE m.exts,
        logs |-> IF logged THEN res ELSE m.logs, logSeq |-> logs, available |-> TRUE]

\* A changed watermark wakes the subscription.
Tell(m) ==
    /\ mark' = m
    /\ sub' = [sub EXCEPT !.unseen = sub.pc # "none" /\ (@ \/ m # mark)]

\* After the command; a failure closes the channel until the next success, and an
\* extension's change is not announced then.
Announce ==
    /\ process = "up" /\ due # "none" /\ due' = "none"
    /\ \/ /\ Tell(Announced(mark, due = "extensions"))
          /\ UNCHANGED <<lost, mishaps>>
       \/ /\ Mishap /\ Tell([mark EXCEPT !.available = FALSE])
          /\ lost' = (lost \/ due = "extensions")
    /\ UNCHANGED <<log, exts, logs, inst, process, commits, wire, view>>

-----------------------------------------------------------------------------
(* The subscription in the daemon *)

ResourcesFor(m) == IF WithLogs THEN m.res ELSE m.exts

\* Mutant: a cursor of another opening of the store is resumed.
MustResyncSameRun(c) ==
    c = None \/ c.seq > mark.seq \/ c.rev > ResourcesFor(mark) \/ c.rev < mark.exts

\* Whether the cursor of a client cannot be resumed.
MustResync(c) ==
    \/ c = None
    \/ c.inst # inst \/ c.seq > mark.seq
    \/ c.rev > ResourcesFor(mark) \/ c.rev < mark.exts

\* connect, then subscribe_events: the receiver first, then the watermark.
Connect ==
    /\ gui.link = "off" /\ process = "up" /\ mark.available
    /\ LET resync == MustResync(gui.accepted)
           base   == IF resync THEN [inst |-> inst, seq |-> mark.seq, rev |-> ResourcesFor(mark)]
                               ELSE gui.accepted
       IN /\ sub' = [NoSub EXCEPT !.pc = "sample", !.seq = base.seq, !.rev = base.rev]
          /\ wire' = <<[type |-> "ready", resync |-> resync, cursor |-> base]>>
    /\ gui' = [gui EXCEPT !.link = "opening"]
    /\ UNCHANGED <<core, page, lost, mishaps>>

\* read_committed_page, up to the read: at first, after a batch, or woken.
Sample ==
    /\ sub.pc = "sample" \/ (sub.pc = "wait" /\ sub.unseen)
    /\ sub' = IF mark.available THEN [sub EXCEPT !.pc = "read", !.unseen = FALSE] ELSE NoSub
    /\ UNCHANGED <<core, wire, view, lost, mishaps>>

\* The first Events of the owner after a sequence number.
Found(after) ==
    {i \in Own : i > after /\ Cardinality({j \in Own : after < j /\ j < i}) < Limit}

\* list_events: a command of the store thread.
Read ==
    /\ sub.pc = "read" /\ due = "none"
    /\ sub' = [sub EXCEPT !.pc = "resample", !.found = Found(sub.seq)]
    /\ UNCHANGED <<core, wire, view, lost, mishaps>>

\* The scopes with changes since.
Told == {s \in Scopes : CASE s = "extensions" -> mark.exts > sub.rev
                          [] s = "log"        -> WithLogs /\ mark.logs > sub.rev}

\* Mutant: what came during the read counts as seen.
ResampleSees ==
    /\ sub.pc = "resample" /\ mark.available
    /\ sub.found = {} /\ ResourcesFor(mark) = sub.rev
    /\ sub' = [sub EXCEPT !.pc = "wait", !.unseen = FALSE]
    /\ UNCHANGED <<core, wire, view, lost, mishaps>>

\* After the read nothing is new: sleep, and keep what came meanwhile unseen.
Resample ==
    /\ sub.pc = "resample" /\ mark.available
    /\ sub.found = {} /\ ResourcesFor(mark) = sub.rev
    /\ sub' = [sub EXCEPT !.pc = "wait"]
    /\ UNCHANGED <<core, wire, view, lost, mishaps>>

\* Or the page is sent, as far as it fits a frame, and only that much advances.
Send ==
    /\ sub.pc = "resample" /\ mark.available
    /\ sub.found # {} \/ ResourcesFor(mark) # sub.rev
    /\ \E last \in sub.found \cup IF Told # {} \/ sub.found = {} THEN {sub.seq} ELSE {} :
          /\ wire' = Append(wire,
                [type |-> "batch", events |-> {i \in sub.found : i <= last}, scopes |-> Told,
                 cursor |-> [inst |-> inst, seq |-> last, rev |-> ResourcesFor(mark)]])
          /\ sub' = [sub EXCEPT !.pc = "sample", !.seq = last, !.rev = ResourcesFor(mark),
                                !.found = {}]
    /\ UNCHANGED <<core, view, lost, mishaps>>

ResampleClosed ==
    /\ sub.pc = "resample" /\ ~mark.available
    /\ sub' = NoSub
    /\ UNCHANGED <<core, wire, view, lost, mishaps>>

-----------------------------------------------------------------------------
(* The GUI *)

\* mark: the page has to be read (again); a read on its way is overtaken if the
\* version of its scope moved.
Marked == [page EXCEPT !.dirty = TRUE, !.blocked = FALSE]

\* A read that is rejected waits for the next change, connection or Retry, unless one came.
Rejected == IF page.read = "idle" THEN page
            ELSE [page EXCEPT !.read = "idle", !.stale = FALSE, !.value = 0,
                              !.blocked = ~page.dirty, !.dirty = TRUE]

\* failed: the connection is given up, reads are cancelled.
Failed(link, cursor) ==
    /\ gui' = [gui EXCEPT !.link = link, !.accepted = cursor, !.inst = 0, !.seq = 0, !.rev = 0]
    /\ page' = Rejected
    /\ sub' = NoSub /\ wire' = <<>>

\* ready: everything is read again.
ReceiveReady ==
    /\ gui.link = "opening" /\ wire # <<>>
    /\ LET m == Head(wire)
       IN IF ~m.resync /\ m.cursor # gui.accepted
          THEN Failed("stopped", gui.accepted) /\ UNCHANGED lost
          ELSE /\ gui' = [gui EXCEPT !.link = "up", !.accepted = m.cursor, !.inst = m.cursor.inst,
                                     !.seq = m.cursor.seq, !.rev = m.cursor.rev]
               /\ page' = Marked
               /\ wire' = Tail(wire) /\ lost' = FALSE /\ UNCHANGED sub
    /\ UNCHANGED <<core, mishaps>>

\* accept_batch of the client, receive of the GUI: what they refuse.
Acceptable(m) ==
    /\ m.events # {} \/ m.scopes # {}
    /\ \A i \in m.events : i > gui.seq /\ i <= m.cursor.seq
    /\ m.cursor.seq \in m.events \cup {gui.seq}
    /\ m.cursor.inst = gui.inst
    /\ m.cursor.rev >= gui.rev
    /\ (m.scopes # {}) <=> (m.cursor.rev > gui.rev)

\* A batch marks pages and is acknowledged; one that is refused ends it all.
ReceiveBatch ==
    /\ gui.link = "up" /\ wire # <<>>
    /\ LET m == Head(wire)
       IN IF ~Acceptable(m) THEN Failed("stopped", gui.accepted)
          ELSE /\ gui' = [gui EXCEPT !.link = "acking", !.seq = m.cursor.seq, !.rev = m.cursor.rev]
               /\ page' = IF page.of \in m.scopes \/ (page.of = "operations" /\ m.events # {})
                        THEN [Marked EXCEPT !.stale = page.read # "idle"] ELSE page
               /\ wire' = Tail(wire) /\ UNCHANGED sub
    /\ UNCHANGED <<core, lost, mishaps>>

\* The bridge has the acknowledgement, and takes the next batch.
Acknowledged ==
    /\ gui.link = "acking"
    /\ gui' = [gui EXCEPT !.link = "up",
                          !.accepted = [inst |-> gui.inst, seq |-> gui.seq, rev |-> gui.rev]]
    /\ UNCHANGED <<core, sub, wire, page, lost, mishaps>>

\* The acknowledgement is late: the bridge gives up, and the cursor is dropped.
AckTimeout ==
    /\ gui.link = "acking" /\ Mishap
    /\ Failed("off", None)
    /\ UNCHANGED <<core, lost>>

\* The stream ends after what was sent; the GUI may learn it before the acknowledgement.
Ended ==
    /\ gui.link \in {"opening", "up", "acking"} /\ sub.pc = "none" /\ wire = <<>>
    /\ Failed("off", gui.accepted)
    /\ UNCHANGED <<core, lost, mishaps>>

\* schedule, and the read of the page with its answer: what the store has when it comes to
\* it.  (A change between the two only makes one more read.)
StartRead ==
    /\ gui.link \in {"up", "acking"} /\ process = "up" /\ due = "none"
    /\ page.dirty /\ ~page.blocked /\ page.read = "idle"
    /\ page' = [page EXCEPT !.dirty = FALSE, !.stale = FALSE, !.read = "answered",
                            !.value = Truth]
    /\ UNCHANGED <<core, sub, wire, gui, lost, mishaps>>

\* The answer is shown, unless it was overtaken: then it is asked for again.
Take ==
    /\ page.read = "answered"
    /\ \/ /\ ~page.stale
          /\ page' = [page EXCEPT !.read = "idle", !.value = 0, !.shown = page.value]
       \/ /\ page.stale /\ process = "up" /\ due = "none"
          /\ page' = [page EXCEPT !.value = Truth, !.stale = FALSE]
    /\ UNCHANGED <<core, sub, wire, gui, lost, mishaps>>

ReadFails ==
    /\ page.read # "idle" /\ Mishap
    /\ page' = Rejected
    /\ UNCHANGED <<core, sub, wire, gui, lost>>

\* retryRead, by the user.
RetryRead ==
    /\ page.blocked /\ page' = [page EXCEPT !.blocked = FALSE]
    /\ UNCHANGED <<core, sub, wire, gui, lost, mishaps>>

\* The page is reloaded: a new consumer without a cursor.
Reload ==
    /\ Mishap
    /\ gui' = [gui EXCEPT !.link = "off", !.accepted = None, !.inst = 0, !.seq = 0, !.rev = 0]
    /\ page' = Fresh(page.of)
    /\ sub' = NoSub /\ wire' = <<>>
    /\ UNCHANGED <<core, lost>>

-----------------------------------------------------------------------------
(* Connections and the daemon process *)

\* The connection breaks; a part of what was sent still arrives.
Drop ==
    /\ sub.pc # "none" /\ Mishap
    /\ sub' = NoSub
    /\ \E n \in 0..Len(wire) : wire' = SubSeq(wire, 1, n)
    /\ UNCHANGED <<core, view, lost>>

Crash ==
    /\ process = "up" /\ Mishap
    /\ process' = "down" /\ due' = "none" /\ sub' = NoSub
    /\ \E n \in 0..Len(wire) : wire' = SubSeq(wire, 1, n)
    /\ UNCHANGED <<log, exts, logs, mark, inst, commits, view, lost>>

\* StateStoreHandle::open: a new identity, its revisions begin again.
Start ==
    /\ process = "down" /\ process' = "up"
    /\ inst' = inst + 1
    /\ mark' = Announced([seq |-> 0, res |-> 0, exts |-> 0, logs |-> 0, logSeq |-> 0,
                          available |-> FALSE], FALSE)
    /\ UNCHANGED <<log, exts, logs, due, commits, sub, wire, view, lost, mishaps>>

StoreStep == Announce \/ Start
SubStep   == Sample \/ Read \/ Resample \/ Send \/ ResampleClosed
GuiStep   == Connect \/ ReceiveReady \/ ReceiveBatch \/ Acknowledged \/ Ended
PageStep  == StartRead \/ Take

LiveNext ==
    \/ Commit \/ StoreStep \/ SubStep
    \/ GuiStep \/ AckTimeout \/ Reload
    \/ PageStep \/ ReadFails \/ RetryRead
    \/ Drop \/ Crash

\* The store thread, the subscription, the GUI's stream with its timer and its reads each
\* go on, and the daemon is started again.
Fairness ==
    WF_liveVars(StoreStep) /\ WF_liveVars(SubStep) /\ WF_liveVars(GuiStep) /\ WF_liveVars(PageStep)

LiveSpec == LiveInit /\ [][LiveNext]_liveVars /\ Fairness

-----------------------------------------------------------------------------
(* Properties *)

\* Nothing is under way any more between the store and the page.
AtRest ==
    /\ gui.link = "up" /\ wire = <<>> /\ sub.pc = "wait" /\ ~sub.unseen /\ due = "none"
    /\ ~page.dirty /\ page.read = "idle"

\* A page at rest shows what the store has: no commit falls between a look at the channel
\* and the sleep on it, between a batch and its acknowledgement, between two connections, or
\* under a read.  Only an extension's change whose announcement failed is missed.
QuietIsCurrent ==
    AtRest => page.shown = Truth \/ (page.of = "extensions" /\ lost)

\* In the end the page shows what the store has, after any deaths, lost connections and
\* reloads, unless its own read failed, its change was not announced, or the channel is closed.
\* That needs every batch to pass the checks of client and GUI, which stop for good otherwise.
CatchesUp ==
    <>[](\/ page.shown = Truth
         \/ gui.link = "up" /\ page.blocked
         \/ page.of = "extensions" /\ lost
         \/ ~mark.available)
=============================================================================
