-------------------------- MODULE MCWatchMessages --------------------------
(***************************************************************************)
(* WatchMessages with the workers of its TLC configuration: one process    *)
(* with two listeners beside one whose WORKERS is 0.                       *)
(***************************************************************************)
EXTENDS WatchMessages

MCWorkers == [p \in Processes |-> IF p = "two" THEN 2 ELSE 0]
=============================================================================
