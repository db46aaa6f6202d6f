----------------------------- MODULE MCSerialOut -----------------------------
(***************************************************************************)
(* Instances of SerialOut: a line with a newline in its middle, one that   *)
(* ends with it, and one without any.                                      *)
(***************************************************************************)
EXTENDS SerialOut, TLC

Tasks      == {Routing, Console}
Priorities == (Routing :> 4) @@ (Console :> 0)
Objects    == {serialWriteMutex_}

Lines == (Routing :> <<FALSE, TRUE>>) @@ (Console :> <<TRUE, FALSE>>)
Often == (Routing :> 2) @@ (Console :> 2)
=============================================================================
