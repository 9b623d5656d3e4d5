------------------------------ MODULE MCStartup ------------------------------
(***************************************************************************)
(* Startup with the processes of its TLC configuration: an API server, a   *)
(* requester, a requester whose WORKERS is more than 10, and one without   *)
(* the variables of the queue's configuration.                             *)
(***************************************************************************)
EXTENDS Startup

MCRefused == {<<"toomany", "build">>, <<"unset", "config">>}
=============================================================================
