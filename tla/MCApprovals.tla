----------------------------- MODULE MCApprovals -----------------------------
(* Instances of Approvals for TLC: the rows the external workers created.  *)
EXTENDS Approvals, TLC

CONSTANTS a1, a2, t1, t2, w1, w2

(* The same tool call was submitted for approval twice.                    *)
SharedCall == (a1 :> t1) @@ (a2 :> t1)

(* Each approval guards a tool call of its own.                            *)
OwnCalls == (a1 :> t1) @@ (a2 :> t2)

OneCall == (a1 :> t1)

Homes == (a1 :> w1) @@ (a2 :> w2)

SameHome == (a1 :> w1) @@ (a2 :> w1)

OneHome == (a1 :> w1)

Expiries == (a1 :> 0) @@ (a2 :> 1)

OneExpiry == (a1 :> 1)

Reviewers == Permutations(Requests)
=============================================================================
