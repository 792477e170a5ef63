------------------------------ MODULE MCClient ------------------------------
(***************************************************************************)
(* Instance of Client: the reader and the ping task may fail.               *)
(***************************************************************************)
EXTENDS Client

MCScenarios == {[faulty |-> {"reader", "ping"}, calls |-> {}]}
=============================================================================
