------------------------------ MODULE MCHeartbeat ------------------------------
(* Small instances of Heartbeat for TLC. *)
EXTENDS Heartbeat

\* Half a second to three and a half, whole and broken seconds.
MCRenewIntervals == 1..7
===============================================================================
