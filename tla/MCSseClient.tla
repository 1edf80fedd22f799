---------------------------- MODULE MCSseClient ----------------------------
(* Instances of SseClient for TLC.                                         *)
EXTENDS SseClient, TLC

Interchangeable == Permutations(Sources)
=============================================================================
