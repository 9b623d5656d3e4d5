-------------------------------- MODULE Pool --------------------------------
(***************************************************************************)
(* What a process's pool of listeners promises about the messages it       *)
(* receives, and nothing of goroutines, channels or wait groups.  A batch  *)
(* is taken only when the last one was given out; every delivery in it is  *)
(* given to one listener, at most Size[p] listeners run at a time, and a   *)
(* listener that is lost is not replaced.  A pool that closes by itself    *)
(* has given out or dropped everything and nothing in it runs any more;    *)
(* only the end of its process stops what still runs.                      *)
(***************************************************************************)
EXTENDS Integers, FiniteSets

CONSTANTS
    Pools,
    Items,      \* the deliveries
    Size        \* how many listeners each pool starts with

VARIABLES
    open,       \* the pools that take messages
    waiting,    \* taken and not given to a listener
    running,    \* with a listener
    lost        \* how many listeners a pool has lost

poolVars == <<open, waiting, running, lost>>

Init ==
    /\ open = [p \in Pools |-> TRUE]
    /\ waiting = [p \in Pools |-> {}]
    /\ running = [p \in Pools |-> {}]
    /\ lost = [p \in Pools |-> 0]

IsInPool(d) == \E p \in Pools : d \in waiting[p] \cup running[p]

Take(p, batch) ==
    /\ open[p] /\ waiting[p] = {}
    /\ Cardinality(batch) <= Size[p]
    /\ \A d \in batch : ~IsInPool(d)
    /\ waiting' = [waiting EXCEPT ![p] = batch]
    /\ UNCHANGED <<open, running, lost>>

Give(p, d) ==
    /\ d \in waiting[p]
    /\ Cardinality(running[p]) + lost[p] < Size[p]
    /\ waiting' = [waiting EXCEPT ![p] = @ \ {d}]
    /\ running' = [running EXCEPT ![p] = @ \cup {d}]
    /\ UNCHANGED <<open, lost>>

Complete(p, d) ==
    /\ d \in running[p]
    /\ running' = [running EXCEPT ![p] = @ \ {d}]
    /\ UNCHANGED <<open, waiting, lost>>

LoseListener(p, d) ==
    /\ d \in running[p]
    /\ running' = [running EXCEPT ![p] = @ \ {d}]
    /\ lost' = [lost EXCEPT ![p] = @ + 1]
    /\ UNCHANGED <<open, waiting>>

Drop(p) ==
    /\ waiting' = [waiting EXCEPT ![p] = {}]
    /\ UNCHANGED <<open, running, lost>>

Close(p) ==
    /\ waiting[p] = {} /\ running[p] = {}
    /\ open' = [open EXCEPT ![p] = FALSE]
    /\ UNCHANGED <<waiting, running, lost>>

\* The process ends, and with it every listener.
Kill(p) ==
    /\ open' = [open EXCEPT ![p] = FALSE]
    /\ waiting' = [waiting EXCEPT ![p] = {}]
    /\ running' = [running EXCEPT ![p] = {}]
    /\ lost' = [lost EXCEPT ![p] = 0]

Reopen(p) ==
    /\ ~open[p]
    /\ open' = [open EXCEPT ![p] = TRUE]
    /\ UNCHANGED <<waiting, running, lost>>

Next ==
    \E p \in Pools :
        \/ \E batch \in SUBSET Items : Take(p, batch)
        \/ \E d \in waiting[p] : Give(p, d)
        \/ \E d \in running[p] : Complete(p, d) \/ LoseListener(p, d)
        \/ Drop(p) \/ Close(p) \/ Kill(p) \/ Reopen(p)

Spec == Init /\ [][Next]_poolVars
=============================================================================
