------------------------------- MODULE MCRuns -------------------------------
(* Instances of Runs for TLC.                                              *)
EXTENDS Runs, TLC

CONSTANTS a1, a2, w1, w2

(* Each workspace has an agent of its own.                                 *)
Homes == (a1 :> w1) @@ (a2 :> w2)

Clients == Permutations(Requests)
=============================================================================
