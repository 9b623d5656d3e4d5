------------------------------ MODULE MCPayload ------------------------------
(***************************************************************************)
(* Payload with the values of its TLC configuration.                       *)
(***************************************************************************)
EXTENDS Payload

\* Two names of one header, alone and together, and no header at all.
MCHeaderMaps == {{}, {<<"x-a", "1">>}, {<<"x-a", "1">>, <<"X-A", "2">>}, {<<"X-B", "1">>}}

MCBodyMaps == {{}, {<<"k", "1">>}, {<<"l", "2">>}}

MCMarshal == [b \in MCBodyMaps |-> {<<"encoded", b>>}]

MCCanonical == [n \in {"x-a", "X-A", "X-B"} |-> IF n = "X-B" THEN "X-B" ELSE "X-A"]

\* The length -1 is that of a response that does not tell it.
MCAnswers ==
    [code : {"200", "404"}, headers : {{}, {<<"X-C", <<"1", "2">>>>}}, length : {-1, 0, 5}]
=============================================================================
