----------------------------- MODULE MCHttpApi -----------------------------
(***************************************************************************)
(* HttpApi with the faults and the symmetry of its TLC configurations.     *)
(***************************************************************************)
EXTENDS HttpApi, TLC

ClientFaults == {"db", "timeout", "apicrash", "answer", "crash"}

Symmetry == Permutations(Msgs) \cup Permutations(Clients) \cup Permutations(Tasks)
=============================================================================
