----------------------------- MODULE MCWebhooks -----------------------------
(* Instances of Webhooks for TLC.                                          *)
EXTENDS Webhooks, TLC

CONSTANTS e1, e2, e3, c1, c2, p1

(* Two events with the same body are sent to connector c1, one of them     *)
(* with a signature that does not verify, and one to an id without a row.  *)
Addresses == (e1 :> c1) @@ (e2 :> c1) @@ (e3 :> c2)

Bodies == (e1 :> p1) @@ (e2 :> p1) @@ (e3 :> p1)

(* Only the genuine event is sent twice.                                   *)
Patience == (e1 :> 2) @@ (e2 :> 1) @@ (e3 :> 1)
=============================================================================
