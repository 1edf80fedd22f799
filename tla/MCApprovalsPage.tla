-------------------------- MODULE MCApprovalsPage --------------------------
(* Instances of ApprovalsPage for TLC.                                     *)
EXTENDS ApprovalsPage, TLC

Interchangeable == Permutations(Approvals)
=============================================================================
