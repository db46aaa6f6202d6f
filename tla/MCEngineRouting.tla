--------------------------- MODULE MCEngineRouting ---------------------------
(***************************************************************************)
(* Instances of EngineRouting.  The database knows the engine of address   *)
(* 3, and of address 4 where a run says so; the throttles use both.        *)
(***************************************************************************)
EXTENDS EngineRouting

\* What the master has assigned: nothing, engine 3 to slot 1, both engines.
Unused  == [s \in {} |-> 3]
OneHeld == [s \in {1} |-> 3]
TwoHeld == [s \in {1, 2} |-> s + 2]
==============================================================================
