-------------------------- MODULE ApprovalProtocol --------------------------
(***************************************************************************)
(* What the human-in-the-loop gate promises about an approval request and  *)
(* the tool call it guards: a verdict is given at most once, and the tool  *)
(* call leaves "pending" at most once, never ahead of the verdict and only *)
(* to the state that verdict stands for.  Nothing is promised about when:  *)
(* a process may stop between the two steps.                               *)
(***************************************************************************)
CONSTANT Approvals

VARIABLES verdict,   \* the status of each approval
          call       \* the status of the tool call it guards

vars == <<verdict, call>>

Verdicts == {"approved", "rejected", "modified"}

Outcome(d) == IF d = "rejected" THEN "rejected" ELSE "approved"

Init ==
  /\ verdict = [a \in Approvals |-> "pending"]
  /\ call = [a \in Approvals |-> "pending"]

Decide(a, d) ==
  /\ verdict[a] = "pending"
  /\ verdict' = [verdict EXCEPT ![a] = d]
  /\ UNCHANGED call

Release(a) ==
  /\ verdict[a] # "pending"
  /\ call[a] = "pending"
  /\ call' = [call EXCEPT ![a] = Outcome(verdict[a])]
  /\ UNCHANGED verdict

Next ==
  \E a \in Approvals :
     \/ \E d \in Verdicts : Decide(a, d)
     \/ Release(a)

Spec == Init /\ [][Next]_vars
=============================================================================
