--------------------------- MODULE MCFileRequests ---------------------------
(* A working directory with a file, two directories, one in the other, with a  *)
(* file in the inner one, and a link; both uploads go to that file.            *)
EXTENDS FileRequests

CONSTANTS u1, u2, l1, l2

MCNames == {"f", "d", "e", "g", "s"}
MCParent == [n \in MCNames |-> CASE n = "g" -> "e" [] n = "e" -> "d" [] OTHER -> Root]
MCTargets == {"f", "g"}
MCLinks == {"s"}
MCWorkloads == {{u1, u2}, {u1, l1}, {l1, l2}}
MCTargetOf == [u \in Uploads |-> "g"]
=============================================================================
