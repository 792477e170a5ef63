------------------------------ MODULE Transfer ------------------------------
(***************************************************************************)
(* What a file download promises its peer, without its loops, buffers and   *)
(* flow control: after a size is announced, the chunks of the file arrive   *)
(* one after the other (a chunk that arrives again is nothing new), one     *)
(* outcome is selected and stays, and it is "clean" only when as many       *)
(* chunks have arrived as were announced.                                   *)
(***************************************************************************)
EXTENDS Naturals

VARIABLES
    size,       \* announced size, in chunks
    got,        \* chunks 1 .. got have arrived
    outcome     \* "pending", "primary", "peer" or "clean"

Init == size = 0 /\ got = 0 /\ outcome = "pending"

Announce ==
    /\ outcome = "pending" /\ got = 0
    /\ size' \in Nat
    /\ UNCHANGED <<got, outcome>>

Deliver ==
    /\ outcome # "clean"
    /\ got' = got + 1
    /\ UNCHANGED <<size, outcome>>

Fail ==
    /\ outcome = "pending"
    /\ outcome' \in {"primary", "peer"}
    /\ UNCHANGED <<size, got>>

Complete ==
    /\ outcome = "pending"
    /\ got = size
    /\ outcome' = "clean"
    /\ UNCHANGED <<size, got>>

Next == Announce \/ Deliver \/ Fail \/ Complete

Spec == Init /\ [][Next]_<<size, got, outcome>>
=============================================================================
