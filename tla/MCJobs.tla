------------------------------- MODULE MCJobs -------------------------------
(* Jobs with a choice of what the bundle's status function returns, and the   *)
(* symmetry of the handlers.                                                 *)
EXTENDS Jobs, TLC

(* A job that the scheduler has cancelled, and one that is complete and has   *)
(* no status of its own to report.                                           *)
MCAnswers == {<<"cancelled", FALSE>>, <<None, TRUE>>}

HandlerSymmetry == Permutations(Handlers)
=============================================================================
