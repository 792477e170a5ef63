----------------------------- MODULE MCRequests -----------------------------
(***************************************************************************)
(* Instances of WebsocketClient.                                            *)
(***************************************************************************)
EXTENDS WebsocketClient

(* The reader fails while a request and an update are under way, or the       *)
(* writer and the ping task fail at once.                                    *)
MCScenarios ==
    {[faulty |-> {"reader"}, calls |-> Msgs],
     [faulty |-> {"writer", "ping"}, calls |-> Requests]}

(* Only the reader fails, and nothing is asked.                              *)
MCReaderFails == {[faulty |-> {"reader"}, calls |-> {}]}
=============================================================================
