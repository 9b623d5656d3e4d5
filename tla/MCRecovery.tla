----------------------------- MODULE MCRecovery -----------------------------
(***************************************************************************)
(* Recovery with the faults of its TLC configuration.                      *)
(***************************************************************************)
EXTENDS Recovery

WorkerFaults == {"db", "receive", "delete", "remote", "crash", "stop", "late", "foreign"}
=============================================================================
