---------------------------- MODULE MCRequester ----------------------------
(***************************************************************************)
(* Requester with what its TLC configurations share: the sets of faults    *)
(* and the symmetry of ids and processes.                                  *)
(***************************************************************************)
EXTENDS RequesterInvariants, TLC

ExclusiveFaults == AllFaults \ {"late", "duplicate", "sendlost"}

Symmetry ==
    Permutations(Tasks) \cup Permutations(Msgs \ ForeignMsgs)
        \cup Permutations(Instances) \cup Permutations(Slots)
=============================================================================
