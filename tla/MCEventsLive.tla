----------------------------- MODULE MCEventsLive -----------------------------
(***************************************************************************)
(* A few transactions and mishaps, one GUI with and without the log.       *)
(***************************************************************************)
EXTENDS EventsLive
=============================================================================
