--------------------------- MODULE ApprovalsProofs ---------------------------
(***************************************************************************)
(* Proofs about Approvals, for any number of approvals, tool calls and     *)
(* requests: the type invariant, the safety invariants that hold whatever  *)
(* overlaps, fails or crashes, and what holds in addition when decisions   *)
(* do not overlap, the refinement of ApprovalProtocol among it.            *)
(***************************************************************************)
EXTENDS Approvals, TLAPS

(* The bodies, and what a handler reads through one.                       *)
LEMMA BodyFields ==
  ASSUME NEW b \in Body
  PROVE  /\ b.approval \in Approvals
         /\ b.decision \in Decisions
         /\ b.modifiedInput \in Inputs \cup {None}
         /\ b # None
         /\ ToolCallOf[b.approval] \in ToolCalls
         /\ ExpiresAt[b.approval] \in Nat
BY NoneAssumption, RowsAssumption DEF Body

-----------------------------------------------------------------------------
(* Type correctness of the decide handler: the rows keep their columns'    *)
(* types and a handler that has a body has one the schema accepts.  The    *)
(* handlers in flight are the ones that need a body, so that is part of it. *)
BodyWhileInFlight == \A r \in Requests : InFlight(r) => body[r] # None

LEMMA TypeInit == Init => TypeOK /\ BodyWhileInFlight
BY DEF Init, TypeOK, BodyWhileInFlight, InFlight, Handling, PendingRow, PendingCall,
       ApprovalRow, ToolCallRow, HashOf

LEMMA AnswerType ==
  ASSUME TypeOK, BodyWhileInFlight, NEW r \in Requests,
         NEW code \in {200, 400, 401, 403, 404, 409, 410, 500}, Answer(r, code)
  PROVE  TypeOK' /\ BodyWhileInFlight'
BY DEF Answer, TypeOK, BodyWhileInFlight, InFlight, Handling, rows

LEMMA TypeStep == TypeOK /\ BodyWhileInFlight /\ [Next]_vars => TypeOK' /\ BodyWhileInFlight'
<1> SUFFICES ASSUME TypeOK, BodyWhileInFlight, [Next]_vars
             PROVE  TypeOK' /\ BodyWhileInFlight'
  OBVIOUS
<1>1. ASSUME NEW r \in Requests, Refuse(r)
      PROVE  TypeOK' /\ BodyWhileInFlight'
  BY <1>1, AnswerType DEF Refuse
<1>2. ASSUME NEW r \in Requests, Receive(r)
      PROVE  TypeOK' /\ BodyWhileInFlight'
  <2>1. PICK b \in Body : body' = [body EXCEPT ![r] = b]
                          /\ late' = [late EXCEPT ![r] = approval[b.approval].status # "pending"]
    BY <1>2 DEF Receive
  <2>2. b # None
    BY BodyFields
  <2> QED
    BY <1>2, <2>1, <2>2 DEF Receive, TypeOK, BodyWhileInFlight, InFlight, Handling, rows
<1>3. ASSUME NEW r \in Requests, Handle(r)
      PROVE  TypeOK' /\ BodyWhileInFlight'
  <2>1. CASE NotFound(r) \/ Conflict(r) \/ Expired(r) \/ Respond(r)
    BY <2>1, AnswerType DEF NotFound, Conflict, Expired, Respond
  <2>2. CASE Accept(r)
    BY <2>2 DEF Accept, Advance, TypeOK, BodyWhileInFlight, InFlight, Handling, rows
  <2>3. CASE UpdateApproval(r)
    <3>1. body[r] \in Body
      BY <2>3 DEF UpdateApproval, TypeOK, BodyWhileInFlight, InFlight, Handling
    <3>2. DecidedRow(r) \in ApprovalRow
      BY <3>1, BodyFields DEF DecidedRow, ApprovalRow, TypeOK
    <3> QED
      BY <2>3, <3>2 DEF UpdateApproval, Advance, TypeOK, BodyWhileInFlight, InFlight, Handling
  <2>4. CASE UpdateToolCall(r)
    <3>1. body[r] \in Body
      BY <2>4 DEF UpdateToolCall, TypeOK, BodyWhileInFlight, InFlight, Handling
    <3>2. DecidedCall(r) \in ToolCallRow
      BY <3>1, BodyFields DEF DecidedCall, ToolCallStatus, ToolCallRow, TypeOK
    <3> QED
      BY <2>4, <3>2 DEF UpdateToolCall, Advance, TypeOK, BodyWhileInFlight, InFlight, Handling
  <2> QED
    BY <1>3, <2>1, <2>2, <2>3, <2>4 DEF Handle
<1>4. ASSUME NEW r \in Requests, DatabaseError(r)
      PROVE  TypeOK' /\ BodyWhileInFlight'
  BY <1>4, AnswerType DEF DatabaseError
<1>5. CASE Crash
  BY <1>5 DEF Crash, TypeOK, BodyWhileInFlight, InFlight, Handling, rows
<1>6. CASE Tick
  BY <1>6 DEF Tick, TypeOK, BodyWhileInFlight, InFlight, Handling, rows
<1>7. CASE UNCHANGED vars
  BY <1>7 DEF vars, TypeOK, BodyWhileInFlight, InFlight, Handling
<1> QED
  BY <1>1, <1>2, <1>3, <1>4, <1>5, <1>6, <1>7 DEF Next

(* Every reachable state of the decide handler is type correct.            *)
THEOREM TypeCorrect == Spec => []TypeOK
BY TypeInit, TypeStep, PTL DEF Spec

-----------------------------------------------------------------------------
(* Safety under overlapping requests, failures and crashes.  The inductive *)
(* invariant says of every handler what it has established so far: a new   *)
(* request has touched nothing, one that was accepted took its date in     *)
(* time, and one past an update has left a decided row behind.             *)
Untouched(r) == phase[r] = "new" => body[r] = None /\ reply[r] = 0

AcceptedInTime(r) ==
  phase[r] \in {"updatingApproval", "updatingToolCall", "responding"} =>
     now[r] <= ExpiresAt[body[r].approval]

UpdatesDone(r) ==
  /\ phase[r] \in {"updatingToolCall", "responding"} => DecidedApproval(body[r].approval)
  /\ phase[r] = "responding" => DecidedToolCall(ToolCallOf[body[r].approval])

LateKnown(r) == late[r] => body[r] # None /\ DecidedApproval(body[r].approval)

HandlerInv(r) ==
  /\ Untouched(r)
  /\ now[r] <= clock
  /\ AcceptedInTime(r)
  /\ UpdatesDone(r)
  /\ LateKnown(r)
  /\ reply[r] = 200 => body[r] # None

SafetyInv ==
  /\ \A r \in Requests : HandlerInv(r)
  /\ RowsOfOneReviewer
  /\ ToolCallFollowsApproval
  /\ DecidedInTime
  /\ LateDecisionIsInert
  /\ RecordedMeansBothRows

Inv == TypeOK /\ BodyWhileInFlight /\ SafetyInv

LEMMA SafetyInit == Init => SafetyInv
BY DEF Init, SafetyInv, HandlerInv, Untouched, AcceptedInTime, UpdatesDone, LateKnown,
       RowsOfOneReviewer, ToolCallFollowsApproval, DecidedInTime, LateDecisionIsInert,
       RecordedMeansBothRows, DecidedApproval, DecidedToolCall, PendingRow, PendingCall

(* A reply, whatever its code, leaves the rows and the bodies alone.       *)
LEMMA AnswerSafety ==
  ASSUME Inv, NEW r \in Requests, InFlight(r) \/ phase[r] = "new", NEW code, Answer(r, code),
         code = 200 => phase[r] = "responding"
  PROVE  SafetyInv'
<1>1. \A s \in Requests : HandlerInv(s)'
  BY DEF Inv, SafetyInv, TypeOK, BodyWhileInFlight, Answer, rows, HandlerInv, Untouched,
         AcceptedInTime, UpdatesDone, LateKnown, DecidedApproval, DecidedToolCall, InFlight, Handling
<1>2. RowsOfOneReviewer' /\ ToolCallFollowsApproval' /\ DecidedInTime'
  BY DEF Inv, SafetyInv, Answer, rows, RowsOfOneReviewer, ApprovalOfOneReviewer,
         ToolCallOfOneReviewer, ToolCallFollowsApproval, DecidedInTime, DecidedApproval,
         DecidedToolCall
<1>3. LateDecisionIsInert'
  BY DEF Inv, SafetyInv, TypeOK, Answer, rows, LateDecisionIsInert
<1>4. RecordedMeansBothRows'
  BY DEF Inv, SafetyInv, TypeOK, Answer, rows, RecordedMeansBothRows, HandlerInv, UpdatesDone,
         DecidedApproval, DecidedToolCall
<1> QED
  BY <1>1, <1>2, <1>3, <1>4 DEF SafetyInv

LEMMA ReceiveSafety ==
  ASSUME Inv, NEW r \in Requests, Receive(r)
  PROVE  SafetyInv'
<1>1. PICK b \in Body : /\ body' = [body EXCEPT ![r] = b]
                       /\ late' = [late EXCEPT ![r] = DecidedApproval(b.approval)]
  BY DEF Receive, DecidedApproval
<1>2. b # None /\ b.approval \in Approvals
  BY BodyFields
<1>3. body[r] = None /\ reply[r] = 0
  BY DEF Receive, Inv, SafetyInv, HandlerInv, Untouched
<1>4. \A s \in Requests : HandlerInv(s)'
  BY <1>1, <1>2, <1>3 DEF Receive, Inv, SafetyInv, TypeOK, rows, HandlerInv, Untouched,
     AcceptedInTime, UpdatesDone, LateKnown, DecidedApproval, DecidedToolCall
<1>5. RowsOfOneReviewer'
  <2>1. \A s \in Requests : body[s] # None => body'[s] = body[s] /\ now'[s] = now[s]
    BY <1>1, <1>3 DEF Receive, Inv, TypeOK
  <2> QED
    BY <2>1, <1>2 DEF Receive, rows, Inv, SafetyInv, RowsOfOneReviewer, ApprovalOfOneReviewer,
       ToolCallOfOneReviewer, DecidedApproval, DecidedToolCall
<1>6. ToolCallFollowsApproval' /\ DecidedInTime'
  BY <1>1, <1>3 DEF Receive, rows, Inv, SafetyInv, TypeOK, ToolCallFollowsApproval, DecidedInTime,
     DecidedApproval, DecidedToolCall
<1>7. LateDecisionIsInert' /\ RecordedMeansBothRows'
  BY <1>1, <1>3 DEF Receive, rows, Inv, SafetyInv, TypeOK, LateDecisionIsInert,
     RecordedMeansBothRows, DecidedApproval, DecidedToolCall
<1> QED
  BY <1>4, <1>5, <1>6, <1>7 DEF SafetyInv

LEMMA AcceptSafety ==
  ASSUME Inv, NEW r \in Requests, Accept(r)
  PROVE  SafetyInv'
<1>1. body[r] \in Body /\ body[r].approval \in Approvals
  BY BodyFields DEF Accept, Inv, TypeOK, BodyWhileInFlight, InFlight, Handling
<1>2. ~ late[r]
  BY <1>1 DEF Accept, IsPending, Inv, SafetyInv, HandlerInv, LateKnown, DecidedApproval
<1>3. now[r] <= ExpiresAt[body[r].approval]
  BY <1>1, BodyFields DEF Accept, HasExpired, Inv, SafetyInv, HandlerInv, TypeOK
<1>4. \A s \in Requests : HandlerInv(s)'
  BY <1>3 DEF Accept, Advance, Inv, SafetyInv, TypeOK, rows, HandlerInv, Untouched,
     AcceptedInTime, UpdatesDone, LateKnown, DecidedApproval, DecidedToolCall
<1>5. RowsOfOneReviewer' /\ ToolCallFollowsApproval' /\ DecidedInTime' /\ RecordedMeansBothRows'
  BY DEF Accept, Advance, rows, Inv, SafetyInv, RowsOfOneReviewer, ApprovalOfOneReviewer,
     ToolCallOfOneReviewer, ToolCallFollowsApproval, DecidedInTime, RecordedMeansBothRows,
     DecidedApproval, DecidedToolCall
<1>6. LateDecisionIsInert'
  BY <1>2 DEF Accept, Advance, Inv, SafetyInv, TypeOK, LateDecisionIsInert
<1> QED
  BY <1>4, <1>5, <1>6 DEF SafetyInv

LEMMA UpdateApprovalSafety ==
  ASSUME Inv, NEW r \in Requests, UpdateApproval(r)
  PROVE  SafetyInv'
<1>1. PICK a \in Approvals : body[r] \in Body /\ body[r] # None /\ a = body[r].approval
  BY BodyFields DEF UpdateApproval, Inv, TypeOK, BodyWhileInFlight, InFlight, Handling
<1>2. /\ approval'[a] = DecidedRow(r)
      /\ \A x \in Approvals \ {a} : approval'[x] = approval[x]
      /\ UNCHANGED <<toolCall, clock, reply, body, now, late>>
  BY <1>1 DEF UpdateApproval, Advance, Inv, TypeOK
<1>3. DecidedApproval(a)'
  BY <1>1, <1>2, BodyFields DEF DecidedApproval, DecidedRow, Decisions
<1>4. \A x \in Approvals : DecidedApproval(x) => DecidedApproval(x)'
  BY <1>2, <1>3 DEF DecidedApproval
<1>5. \A t \in ToolCalls : DecidedToolCall(t)' <=> DecidedToolCall(t)
  BY <1>2 DEF DecidedToolCall
<1>6. \A s \in Requests : body[s] # None =>
         body[s].approval \in Approvals /\ ToolCallOf[body[s].approval] \in ToolCalls
  BY BodyFields DEF Inv, TypeOK
<1>7. /\ phase' = [phase EXCEPT ![r] = "updatingToolCall"]
      /\ phase[r] = "updatingApproval"
  BY DEF UpdateApproval, Advance
<1>8. \A s \in Requests : HandlerInv(s)'
  <2> SUFFICES ASSUME NEW s \in Requests
               PROVE  HandlerInv(s)'
    OBVIOUS
  <2>1. UpdatesDone(s)'
    BY <1>1, <1>2, <1>3, <1>4, <1>5, <1>6, <1>7 DEF Inv, SafetyInv, TypeOK, HandlerInv, UpdatesDone,
       BodyWhileInFlight, InFlight, Handling
  <2>2. Untouched(s)' /\ AcceptedInTime(s)' /\ LateKnown(s)'
    BY <1>2, <1>4, <1>6, <1>7 DEF Inv, SafetyInv, TypeOK, HandlerInv, Untouched, AcceptedInTime,
       LateKnown
  <2> QED
    BY <2>1, <2>2, <1>2 DEF Inv, SafetyInv, HandlerInv
<1>9. RowsOfOneReviewer'
  <2>1. ApprovalOfOneReviewer(a)'
    BY <1>1, <1>2 DEF ApprovalOfOneReviewer, DecidedRow
  <2>2. ASSUME NEW x \in Approvals \ {a}, DecidedApproval(x)'
        PROVE  ApprovalOfOneReviewer(x)'
    BY <2>2, <1>2 DEF Inv, SafetyInv, RowsOfOneReviewer, ApprovalOfOneReviewer, DecidedApproval
  <2>3. \A t \in ToolCalls : DecidedToolCall(t)' => ToolCallOfOneReviewer(t)'
    BY <1>2 DEF Inv, SafetyInv, RowsOfOneReviewer, ToolCallOfOneReviewer, DecidedToolCall
  <2> QED
    BY <2>1, <2>2, <2>3 DEF RowsOfOneReviewer
<1>10. ToolCallFollowsApproval' /\ RecordedMeansBothRows'
  BY <1>2, <1>4, <1>5, <1>6 DEF Inv, SafetyInv, ToolCallFollowsApproval, RecordedMeansBothRows,
     HandlerInv
<1>11. DecidedInTime'
  <2>1. DecidedRow(r).decidedAt <= ExpiresAt[a]
    BY <1>1, <1>7 DEF Inv, SafetyInv, HandlerInv, AcceptedInTime, DecidedRow
  <2> QED
    BY <2>1, <1>2 DEF Inv, SafetyInv, DecidedInTime, DecidedApproval
<1>12. LateDecisionIsInert'
  BY <1>2, <1>7 DEF Inv, SafetyInv, TypeOK, LateDecisionIsInert
<1> QED
  BY <1>8, <1>9, <1>10, <1>11, <1>12 DEF SafetyInv

LEMMA UpdateToolCallSafety ==
  ASSUME Inv, NEW r \in Requests, UpdateToolCall(r)
  PROVE  SafetyInv'
<1>1. PICK t \in ToolCalls : /\ body[r] \in Body /\ body[r] # None
                             /\ t = ToolCallOf[body[r].approval]
  BY BodyFields DEF UpdateToolCall, Inv, TypeOK, BodyWhileInFlight, InFlight, Handling
<1>2. /\ toolCall'[t] = DecidedCall(r)
      /\ \A x \in ToolCalls \ {t} : toolCall'[x] = toolCall[x]
      /\ UNCHANGED <<approval, clock, reply, body, now, late>>
  BY <1>1 DEF UpdateToolCall, Advance, Inv, TypeOK
<1>3. DecidedToolCall(t)'
  BY <1>2 DEF DecidedToolCall, DecidedCall, ToolCallStatus
<1>4. \A x \in ToolCalls : DecidedToolCall(x) => DecidedToolCall(x)'
  BY <1>2, <1>3 DEF DecidedToolCall
<1>5. \A x \in Approvals : DecidedApproval(x)' <=> DecidedApproval(x)
  BY <1>2 DEF DecidedApproval
<1>6. \A s \in Requests : body[s] # None =>
         body[s].approval \in Approvals /\ ToolCallOf[body[s].approval] \in ToolCalls
  BY BodyFields DEF Inv, TypeOK
<1>7. /\ phase' = [phase EXCEPT ![r] = "responding"]
      /\ phase[r] = "updatingToolCall"
      /\ DecidedApproval(body[r].approval)
  BY DEF UpdateToolCall, Advance, Inv, SafetyInv, HandlerInv, UpdatesDone
<1>8. \A s \in Requests : HandlerInv(s)'
  <2> SUFFICES ASSUME NEW s \in Requests
               PROVE  HandlerInv(s)'
    OBVIOUS
  <2>1. UpdatesDone(s)'
    BY <1>1, <1>2, <1>3, <1>4, <1>5, <1>6, <1>7 DEF Inv, SafetyInv, TypeOK, HandlerInv, UpdatesDone,
       BodyWhileInFlight, InFlight, Handling
  <2>2. Untouched(s)' /\ AcceptedInTime(s)' /\ LateKnown(s)'
    BY <1>2, <1>5, <1>6, <1>7 DEF Inv, SafetyInv, TypeOK, HandlerInv, Untouched, AcceptedInTime,
       LateKnown
  <2> QED
    BY <2>1, <2>2, <1>2 DEF Inv, SafetyInv, HandlerInv
<1>9. RowsOfOneReviewer'
  <2>1. ToolCallOfOneReviewer(t)'
    <3>1. (toolCall'[t].status = "rejected") <=> (body[r].decision = "rejected")
      BY <1>1, <1>2, BodyFields DEF DecidedCall, ToolCallStatus, Decisions
    <3>2. /\ toolCall'[t].approvedBy = r
          /\ toolCall'[t].approvalDecision = body[r].decision
          /\ toolCall'[t].approvedAt = now[r]
      BY <1>2 DEF DecidedCall
    <3> QED
      BY <1>1, <1>2, <3>1, <3>2 DEF ToolCallOfOneReviewer
  <2>2. ASSUME NEW x \in ToolCalls \ {t}, DecidedToolCall(x)'
        PROVE  ToolCallOfOneReviewer(x)'
    BY <2>2, <1>2 DEF Inv, SafetyInv, RowsOfOneReviewer, ToolCallOfOneReviewer, DecidedToolCall
  <2>3. \A x \in Approvals : DecidedApproval(x)' => ApprovalOfOneReviewer(x)'
    BY <1>2 DEF Inv, SafetyInv, RowsOfOneReviewer, ApprovalOfOneReviewer, DecidedApproval
  <2> QED
    BY <2>1, <2>2, <2>3 DEF RowsOfOneReviewer
<1>10. ToolCallFollowsApproval'
  <2>1. toolCall'[t].approvedBy = r
    BY <1>2 DEF DecidedCall
  <2>2. ASSUME NEW x \in ToolCalls \ {t}, DecidedToolCall(x)'
        PROVE  \E s \in Requests : /\ body'[s] # None
                                  /\ toolCall'[x].approvedBy = s
                                  /\ DecidedApproval(body[s].approval)'
    BY <2>2, <1>2 DEF Inv, SafetyInv, ToolCallFollowsApproval, DecidedToolCall, DecidedApproval
  <2> QED
    BY <1>1, <1>2, <1>7, <2>1, <2>2 DEF ToolCallFollowsApproval, DecidedApproval
<1>11. DecidedInTime' /\ RecordedMeansBothRows'
  BY <1>2, <1>4, <1>5, <1>6 DEF Inv, SafetyInv, DecidedInTime, RecordedMeansBothRows, HandlerInv
<1>12. LateDecisionIsInert'
  BY <1>2, <1>7 DEF Inv, SafetyInv, TypeOK, LateDecisionIsInert
<1> QED
  BY <1>8, <1>9, <1>10, <1>11, <1>12 DEF SafetyInv

LEMMA SafetyStep == Inv /\ [Next]_vars => SafetyInv'
<1> SUFFICES ASSUME Inv, [Next]_vars
             PROVE  SafetyInv'
  OBVIOUS
<1>1. ASSUME NEW r \in Requests, Refuse(r)
      PROVE  SafetyInv'
  BY <1>1, AnswerSafety DEF Refuse
<1>2. ASSUME NEW r \in Requests, Receive(r)
      PROVE  SafetyInv'
  BY <1>2, ReceiveSafety
<1>3. ASSUME NEW r \in Requests, Handle(r)
      PROVE  SafetyInv'
  <2>1. CASE NotFound(r) \/ Conflict(r) \/ Expired(r) \/ Respond(r)
    BY <2>1, AnswerSafety DEF NotFound, Conflict, Expired, Respond, InFlight, Handling
  <2> QED
    BY <1>3, <2>1, AcceptSafety, UpdateApprovalSafety, UpdateToolCallSafety DEF Handle
<1>4. ASSUME NEW r \in Requests, DatabaseError(r)
      PROVE  SafetyInv'
  BY <1>4, AnswerSafety DEF DatabaseError
<1>5. CASE Crash
  BY <1>5 DEF Crash, rows, Inv, SafetyInv, TypeOK, HandlerInv, Untouched, AcceptedInTime, UpdatesDone,
     LateKnown, RowsOfOneReviewer, ApprovalOfOneReviewer, ToolCallOfOneReviewer,
     ToolCallFollowsApproval, DecidedInTime, LateDecisionIsInert, RecordedMeansBothRows,
     DecidedApproval, DecidedToolCall, InFlight, Handling
<1>6. CASE Tick
  BY <1>6 DEF Tick, rows, Inv, SafetyInv, TypeOK, HandlerInv, Untouched, AcceptedInTime, UpdatesDone,
     LateKnown, RowsOfOneReviewer, ApprovalOfOneReviewer, ToolCallOfOneReviewer,
     ToolCallFollowsApproval, DecidedInTime, LateDecisionIsInert, RecordedMeansBothRows,
     DecidedApproval, DecidedToolCall
<1>7. CASE UNCHANGED vars
  BY <1>7 DEF vars, Inv, SafetyInv, HandlerInv, Untouched, AcceptedInTime, UpdatesDone,
     LateKnown, RowsOfOneReviewer, ApprovalOfOneReviewer, ToolCallOfOneReviewer,
     ToolCallFollowsApproval, DecidedInTime, LateDecisionIsInert, RecordedMeansBothRows,
     DecidedApproval, DecidedToolCall
<1> QED
  BY <1>1, <1>2, <1>3, <1>4, <1>5, <1>6, <1>7 DEF Next

LEMMA Invariance == Spec => []Inv
<1>1. Init => Inv
  BY TypeInit, SafetyInit DEF Inv
<1>2. Inv /\ [Next]_vars => Inv'
  BY TypeStep, SafetyStep DEF Inv
<1> QED
  BY <1>1, <1>2, PTL DEF Spec

(* However decide requests overlap, fail and crash: no row mixes what two  *)
(* reviewers wrote.                                                        *)
THEOREM RowsAreOfOneReviewer == Spec => []RowsOfOneReviewer
<1>1. Inv => RowsOfOneReviewer
  BY DEF Inv, SafetyInv
<1> QED
  BY <1>1, Invariance, PTL

(* No tool call is decided ahead of the approval it is decided through,    *)
(* wherever a crash stops the handler.                                     *)
THEOREM ToolCallsFollowApprovals == Spec => []ToolCallFollowsApproval
<1>1. Inv => ToolCallFollowsApproval
  BY DEF Inv, SafetyInv
<1> QED
  BY <1>1, Invariance, PTL

(* No decision on record is dated after the expiry of its approval.        *)
THEOREM DecisionsAreInTime == Spec => []DecidedInTime
<1>1. Inv => DecidedInTime
  BY DEF Inv, SafetyInv
<1> QED
  BY <1>1, Invariance, PTL

(* A request that arrives after the decision writes nothing and is never   *)
(* told that its decision was recorded.                                    *)
THEOREM LateDecisionsAreInert == Spec => []LateDecisionIsInert
<1>1. Inv => LateDecisionIsInert
  BY DEF Inv, SafetyInv
<1> QED
  BY <1>1, Invariance, PTL

(* "Recorded" is answered only when approval and tool call are decided.    *)
THEOREM RecordedCoversBothRows == Spec => []RecordedMeansBothRows
<1>1. Inv => RecordedMeansBothRows
  BY DEF Inv, SafetyInv
<1> QED
  BY <1>1, Invariance, PTL

-----------------------------------------------------------------------------
(* From here on decisions do not overlap, and every approval guards a tool *)
(* call of its own; failures and crashes included, a decision is final,    *)
(* the one that was acknowledged is the one on record, and the handler     *)
(* implements ApprovalProtocol.                                            *)

(* Two approvals never share a tool call.                                  *)
OwnToolCalls ==
  \A a, b \in Approvals : ToolCallOf[a] = ToolCallOf[b] => a = b

(* With one handler in flight, what it read is still so when it writes: the *)
(* row it is about to update is pending, the tool call it is about to      *)
(* update is pending and the approval row is its own.                      *)
OneInFlight == \A r, s \in Requests : InFlight(r) /\ InFlight(s) => r = s

ReadStillHolds ==
  \A r \in Requests : phase[r] = "updatingApproval" => ~ DecidedApproval(body[r].approval)

RowIsOwn ==
  \A r \in Requests :
     phase[r] \in {"updatingToolCall", "responding"} \/ reply[r] = 200 =>
        /\ approval[body[r].approval].reviewerId = r
        /\ approval[body[r].approval].status = body[r].decision

CallStillPending ==
  \A r \in Requests : phase[r] = "updatingToolCall" =>
     ~ DecidedToolCall(ToolCallOf[body[r].approval])

(* A tool call is decided only with the one approval that guards it.       *)
CallBehindApproval ==
  \A a \in Approvals : DecidedToolCall(ToolCallOf[a]) => DecidedApproval(a)

SerialInv ==
  /\ OneInFlight
  /\ ReadStillHolds
  /\ RowIsOwn
  /\ CallStillPending
  /\ CallBehindApproval

LEMMA SerialInit == Init => SerialInv
BY RowsAssumption
   DEF Init, SerialInv, OneInFlight, ReadStillHolds, RowIsOwn, CallStillPending,
       CallBehindApproval, InFlight, Handling, DecidedToolCall, PendingCall

(* What an update of a body's approval or tool call leaves alone.          *)
LEMMA BodiesAreRows ==
  ASSUME Inv, NEW r \in Requests, InFlight(r) \/ reply[r] = 200
  PROVE  /\ body[r] \in Body
         /\ body[r] # None
         /\ body[r].approval \in Approvals
         /\ body[r].decision \in Decisions
         /\ ToolCallOf[body[r].approval] \in ToolCalls
BY BodyFields DEF Inv, TypeOK, BodyWhileInFlight, SafetyInv, HandlerInv

LEMMA AnswerSerial ==
  ASSUME Inv, SerialInv, NEW r \in Requests, NEW code, Answer(r, code),
         code = 200 => phase[r] = "responding"
  PROVE  SerialInv'
BY DEF Inv, TypeOK, SerialInv, Answer, rows, OneInFlight, ReadStillHolds, RowIsOwn,
       CallStillPending, CallBehindApproval, InFlight, Handling, DecidedApproval,
       DecidedToolCall

LEMMA ReceiveSerial ==
  ASSUME Inv, SerialInv, ~ Overlap, NEW r \in Requests, Receive(r)
  PROVE  SerialInv'
<1>1. /\ \A s \in Requests : ~ InFlight(s)
      /\ phase' = [phase EXCEPT ![r] = "reading"]
      /\ UNCHANGED <<rows, reply>>
      /\ reply[r] = 0
  BY DEF Receive, MayArrive, Inv, SafetyInv, HandlerInv, Untouched
<1>2. \A s \in Requests \ {r} : body'[s] = body[s] /\ phase'[s] = phase[s]
  BY DEF Receive, Inv, TypeOK
<1> QED
  BY <1>1, <1>2 DEF Inv, TypeOK, SerialInv, rows, OneInFlight, ReadStillHolds, RowIsOwn,
     CallStillPending, CallBehindApproval, InFlight, Handling, DecidedApproval, DecidedToolCall

LEMMA AcceptSerial ==
  ASSUME Inv, SerialInv, NEW r \in Requests, Accept(r)
  PROVE  SerialInv'
BY DEF Accept, Advance, IsPending, Inv, TypeOK, SerialInv, rows, OneInFlight, ReadStillHolds,
       RowIsOwn, CallStillPending, CallBehindApproval, InFlight, Handling, DecidedApproval,
       DecidedToolCall

LEMMA UpdateApprovalSerial ==
  ASSUME Inv, SerialInv, OwnToolCalls, NEW r \in Requests, UpdateApproval(r)
  PROVE  SerialInv'
<1>1. PICK a \in Approvals : body[r] \in Body /\ body[r] # None /\ a = body[r].approval
  BY BodiesAreRows DEF UpdateApproval, InFlight, Handling
<1>2. /\ approval'[a] = DecidedRow(r)
      /\ \A x \in Approvals \ {a} : approval'[x] = approval[x]
      /\ UNCHANGED <<toolCall, clock, reply, body, now, late>>
      /\ phase[r] = "updatingApproval"
      /\ phase' = [phase EXCEPT ![r] = "updatingToolCall"]
  BY <1>1 DEF UpdateApproval, Advance, Inv, TypeOK
<1>3. /\ DecidedRow(r).status = body[r].decision
      /\ DecidedRow(r).reviewerId = r
      /\ DecidedRow(r).status # "pending"
  BY <1>1, BodyFields DEF DecidedRow, Decisions
<1>4. \A s \in Requests \ {r} : ~ InFlight(s) /\ phase'[s] = phase[s]
  BY <1>2 DEF Inv, TypeOK, SerialInv, OneInFlight, InFlight, Handling
<1>5. ~ DecidedApproval(a) /\ ~ DecidedToolCall(ToolCallOf[a])
  BY <1>1, <1>2 DEF SerialInv, ReadStillHolds, CallBehindApproval
<1>6. OneInFlight' /\ ReadStillHolds'
  BY <1>2, <1>4 DEF Inv, TypeOK, OneInFlight, ReadStillHolds, InFlight, Handling
<1>7. RowIsOwn'
  <2> SUFFICES ASSUME NEW s \in Requests,
                      phase'[s] \in {"updatingToolCall", "responding"} \/ reply[s] = 200
               PROVE  /\ approval'[body[s].approval].reviewerId = s
                      /\ approval'[body[s].approval].status = body[s].decision
    BY <1>2 DEF RowIsOwn
  <2>1. CASE s = r
    BY <2>1, <1>1, <1>2, <1>3
  <2>2. CASE s # r
    <3>1. reply[s] = 200
      BY <2>2, <1>4 DEF InFlight, Handling
    <3>2. DecidedApproval(body[s].approval) /\ body[s].approval \in Approvals
      BY <3>1, BodiesAreRows DEF Inv, SafetyInv, RecordedMeansBothRows
    <3>3. body[s].approval # a
      BY <3>2, <1>5
    <3> QED
      BY <3>1, <3>2, <3>3, <1>2 DEF SerialInv, RowIsOwn
  <2> QED
    BY <2>1, <2>2
<1>8. CallStillPending'
  BY <1>1, <1>2, <1>4, <1>5 DEF CallStillPending, InFlight, Handling, DecidedToolCall
<1>9. CallBehindApproval'
  BY <1>2, <1>3 DEF SerialInv, CallBehindApproval, DecidedToolCall, DecidedApproval
<1> QED
  BY <1>6, <1>7, <1>8, <1>9 DEF SerialInv

LEMMA UpdateToolCallSerial ==
  ASSUME Inv, SerialInv, OwnToolCalls, NEW r \in Requests, UpdateToolCall(r)
  PROVE  SerialInv'
<1>1. PICK a \in Approvals : a = body[r].approval /\ ToolCallOf[a] \in ToolCalls
  BY BodiesAreRows DEF UpdateToolCall, InFlight, Handling
<1>2. /\ \A x \in ToolCalls \ {ToolCallOf[a]} : toolCall'[x] = toolCall[x]
      /\ UNCHANGED <<approval, clock, reply, body, now, late>>
      /\ phase[r] = "updatingToolCall"
      /\ phase' = [phase EXCEPT ![r] = "responding"]
  BY <1>1 DEF UpdateToolCall, Advance, Inv, TypeOK
<1>3. \A s \in Requests \ {r} : ~ InFlight(s) /\ phase'[s] = phase[s]
  BY <1>2 DEF Inv, TypeOK, SerialInv, OneInFlight, InFlight, Handling
<1>4. DecidedApproval(a)
  BY <1>1, <1>2 DEF Inv, SafetyInv, HandlerInv, UpdatesDone
<1>5. OneInFlight' /\ ReadStillHolds' /\ RowIsOwn' /\ CallStillPending'
  BY <1>2, <1>3 DEF Inv, TypeOK, SerialInv, OneInFlight, ReadStillHolds, RowIsOwn,
     CallStillPending, InFlight, Handling
<1>6. CallBehindApproval'
  <2> SUFFICES ASSUME NEW x \in Approvals, DecidedToolCall(ToolCallOf[x])'
               PROVE  DecidedApproval(x)
    BY <1>2 DEF CallBehindApproval, DecidedApproval
  <2>1. CASE x = a
    BY <2>1, <1>4
  <2>2. CASE x # a
    <3>1. ToolCallOf[x] \in ToolCalls \ {ToolCallOf[a]}
      BY <2>2, RowsAssumption DEF OwnToolCalls
    <3> QED
      BY <3>1, <1>2 DEF SerialInv, CallBehindApproval, DecidedToolCall
  <2> QED
    BY <2>1, <2>2
<1> QED
  BY <1>5, <1>6 DEF SerialInv

LEMMA SerialStep ==
  ASSUME ~ Overlap, OwnToolCalls
  PROVE  Inv /\ SerialInv /\ [Next]_vars => SerialInv'
<1> SUFFICES ASSUME Inv, SerialInv, [Next]_vars
             PROVE  SerialInv'
  OBVIOUS
<1>1. ASSUME NEW r \in Requests, Refuse(r) \/ DatabaseError(r)
      PROVE  SerialInv'
  BY <1>1, AnswerSerial DEF Refuse, DatabaseError
<1>2. ASSUME NEW r \in Requests, Receive(r)
      PROVE  SerialInv'
  BY <1>2, ReceiveSerial
<1>3. ASSUME NEW r \in Requests, Handle(r)
      PROVE  SerialInv'
  <2>1. CASE NotFound(r) \/ Conflict(r) \/ Expired(r) \/ Respond(r)
    BY <2>1, AnswerSerial DEF NotFound, Conflict, Expired, Respond
  <2> QED
    BY <1>3, <2>1, AcceptSerial, UpdateApprovalSerial, UpdateToolCallSerial DEF Handle
<1>4. CASE Crash
  BY <1>4 DEF Crash, Inv, TypeOK, SerialInv, rows, OneInFlight, ReadStillHolds, RowIsOwn,
     CallStillPending, CallBehindApproval, InFlight, Handling, DecidedApproval, DecidedToolCall
<1>5. CASE Tick \/ UNCHANGED vars
  BY <1>5 DEF Tick, vars, SerialInv, rows, OneInFlight, ReadStillHolds, RowIsOwn,
     CallStillPending, CallBehindApproval, InFlight, Handling, DecidedApproval, DecidedToolCall
<1> QED
  BY <1>1, <1>2, <1>3, <1>4, <1>5 DEF Next

LEMMA SerialInvariant ==
  ASSUME ~ Overlap, OwnToolCalls
  PROVE  Spec => [](Inv /\ SerialInv)
<1>1. Init => Inv /\ SerialInv
  BY TypeInit, SafetyInit, SerialInit DEF Inv
<1>2. Inv /\ SerialInv /\ [Next]_vars => (Inv /\ SerialInv)'
  BY TypeStep, SafetyStep, SerialStep DEF Inv
<1> QED
  BY <1>1, <1>2, PTL DEF Spec

-----------------------------------------------------------------------------
(* Only the two updates touch the rows.                                    *)
LEMMA RowsChangeByUpdates ==
  ASSUME [Next]_vars
  PROVE  \/ UNCHANGED rows
         \/ \E r \in Requests : UpdateApproval(r) \/ UpdateToolCall(r)
BY DEF Next, vars, rows, Refuse, Receive, Handle, NotFound, Conflict, Expired, Accept, Advance,
       Respond, Answer, DatabaseError, Crash, Tick

(* A decision on an approval is final when requests do not overlap: the    *)
(* update that has no status in its WHERE finds the row as the select of   *)
(* the same handler left it.                                               *)
LEMMA FinalStep ==
  ASSUME Inv, SerialInv, [Next]_vars
  PROVE  \A a \in Approvals : DecidedApproval(a) => approval'[a] = approval[a]
<1>1. CASE UNCHANGED rows
  BY <1>1 DEF rows
<1>2. ASSUME NEW r \in Requests, UpdateApproval(r)
      PROVE  \A a \in Approvals : DecidedApproval(a) => approval'[a] = approval[a]
  BY <1>2 DEF UpdateApproval, SerialInv, ReadStillHolds, Inv, TypeOK
<1>3. ASSUME NEW r \in Requests, UpdateToolCall(r)
      PROVE  UNCHANGED approval
  BY <1>3 DEF UpdateToolCall
<1> QED
  BY <1>1, <1>2, <1>3, RowsChangeByUpdates

(* One decision at a time: nothing rewrites the row of a decided approval. *)
THEOREM DecisionsAreFinal ==
  ASSUME ~ Overlap, OwnToolCalls
  PROVE  Spec => DecidedOnce
<1>1. Inv /\ SerialInv /\ [Next]_vars
        => [\A a \in Approvals : DecidedApproval(a) => approval'[a] = approval[a]]_vars
  BY FinalStep
<1> QED
  BY <1>1, SerialInvariant, PTL DEF Spec, DecidedOnce

(* One decision at a time: who was told "recorded" is the reviewer on      *)
(* record, from then on.                                                   *)
THEOREM RecordedDecisionsStand ==
  ASSUME ~ Overlap, OwnToolCalls
  PROVE  Spec => []RecordedDecisionStands
<1>1. Inv /\ SerialInv => RecordedDecisionStands
  BY DEF SerialInv, RowIsOwn, RecordedDecisionStands
<1> QED
  BY <1>1, SerialInvariant, PTL

-----------------------------------------------------------------------------
(* What leaves an approval and its tool call apart.  Verdicts that are both *)
(* there agree; and behind a verdict whose tool call waits there is the    *)
(* handler of the reviewer on record, about to update the call or cut off. *)
VerdictsAgree ==
  \A a \in Approvals :
     DecidedApproval(a) /\ DecidedToolCall(ToolCallOf[a]) => Agree(a)

UpdatingOrCutOff(r) ==
  \/ phase[r] \in {"updatingToolCall", "lost"}
  \/ phase[r] = "done" /\ reply[r] = 500

ReviewerGoesOn ==
  \A a \in Approvals :
     DecidedApproval(a) /\ ~ DecidedToolCall(ToolCallOf[a]) =>
        \E r \in Requests : /\ approval[a].reviewerId = r
                            /\ body[r] # None /\ body[r].approval = a
                            /\ UpdatingOrCutOff(r)

ApartInv == VerdictsAgree /\ ReviewerGoesOn

LEMMA ApartInit == Init => ApartInv
BY DEF Init, ApartInv, VerdictsAgree, ReviewerGoesOn, DecidedApproval, PendingRow

LEMMA UpdateApprovalApart ==
  ASSUME Inv, SerialInv, ApartInv, OwnToolCalls, NEW r \in Requests, UpdateApproval(r)
  PROVE  ApartInv'
<1>1. PICK a \in Approvals : body[r] # None /\ a = body[r].approval
  BY BodiesAreRows DEF UpdateApproval, InFlight, Handling
<1>2. /\ approval'[a] = DecidedRow(r)
      /\ \A x \in Approvals \ {a} : approval'[x] = approval[x]
      /\ UNCHANGED <<toolCall, reply, body>>
      /\ phase[r] = "updatingApproval"
      /\ phase' = [phase EXCEPT ![r] = "updatingToolCall"]
  BY <1>1 DEF UpdateApproval, Advance, Inv, TypeOK
<1>3. ~ DecidedToolCall(ToolCallOf[a])
  BY <1>1, <1>2 DEF SerialInv, ReadStillHolds, CallBehindApproval
<1>4. VerdictsAgree'
  BY <1>2, <1>3 DEF ApartInv, VerdictsAgree, Agree, DecidedApproval, DecidedToolCall
<1>5. ReviewerGoesOn'
  <2> SUFFICES ASSUME NEW x \in Approvals, DecidedApproval(x)', ~ DecidedToolCall(ToolCallOf[x])'
               PROVE  \E s \in Requests : /\ approval'[x].reviewerId = s
                                          /\ body'[s] # None /\ body'[s].approval = x
                                          /\ UpdatingOrCutOff(s)'
    BY DEF ReviewerGoesOn
  <2>1. CASE x = a
    BY <2>1, <1>1, <1>2 DEF DecidedRow, UpdatingOrCutOff, Inv, TypeOK
  <2>2. CASE x # a
    <3>1. PICK s \in Requests : /\ approval[x].reviewerId = s
                                /\ body[s] # None /\ body[s].approval = x
                                /\ UpdatingOrCutOff(s)
      BY <2>2, <1>2 DEF ApartInv, ReviewerGoesOn, DecidedApproval, DecidedToolCall
    <3>2. s # r
      BY <3>1, <2>2, <1>1
    <3> QED
      BY <3>1, <3>2, <2>2, <1>2 DEF UpdatingOrCutOff, Inv, TypeOK
  <2> QED
    BY <2>1, <2>2
<1> QED
  BY <1>4, <1>5 DEF ApartInv

LEMMA UpdateToolCallApart ==
  ASSUME Inv, SerialInv, ApartInv, OwnToolCalls, NEW r \in Requests, UpdateToolCall(r)
  PROVE  ApartInv'
<1>1. PICK a \in Approvals : /\ a = body[r].approval
                            /\ ToolCallOf[a] \in ToolCalls
                            /\ body[r].decision \in Decisions
  BY BodiesAreRows DEF UpdateToolCall, InFlight, Handling
<1>2. /\ toolCall'[ToolCallOf[a]] = DecidedCall(r)
      /\ \A x \in Approvals \ {a} : toolCall'[ToolCallOf[x]] = toolCall[ToolCallOf[x]]
      /\ UNCHANGED <<approval, reply, body>>
      /\ phase[r] = "updatingToolCall"
      /\ phase' = [phase EXCEPT ![r] = "responding"]
  BY <1>1, RowsAssumption DEF UpdateToolCall, Advance, Inv, TypeOK, OwnToolCalls
<1>3. Agree(a)'
  <2>1. approval[a].status = body[r].decision
    BY <1>1, <1>2 DEF SerialInv, RowIsOwn
  <2>2. /\ toolCall'[ToolCallOf[a]].status = ToolCallStatus(body[r].decision)
        /\ ToolCallStatus(body[r].decision) # "pending"
        /\ ToolCallStatus(body[r].decision) = "rejected" <=> body[r].decision = "rejected"
    BY <1>1, <1>2 DEF DecidedCall, ToolCallStatus, Decisions
  <2> QED
    BY <2>1, <2>2, <1>2 DEF Agree, DecidedToolCall
<1>4. VerdictsAgree'
  BY <1>2, <1>3 DEF ApartInv, VerdictsAgree, Agree, DecidedApproval, DecidedToolCall
<1>5. ReviewerGoesOn'
  <2> SUFFICES ASSUME NEW x \in Approvals \ {a},
                      DecidedApproval(x), ~ DecidedToolCall(ToolCallOf[x])
               PROVE  \E s \in Requests : /\ approval[x].reviewerId = s
                                          /\ body[s] # None /\ body[s].approval = x
                                          /\ UpdatingOrCutOff(s)'
    BY <1>2, <1>3 DEF ReviewerGoesOn, Agree, DecidedApproval, DecidedToolCall
  <2>1. PICK s \in Requests : /\ approval[x].reviewerId = s
                              /\ body[s] # None /\ body[s].approval = x
                              /\ UpdatingOrCutOff(s)
    BY DEF ApartInv, ReviewerGoesOn
  <2>2. s # r
    BY <2>1, <1>1
  <2> QED
    BY <2>1, <2>2, <1>2 DEF UpdatingOrCutOff, Inv, TypeOK
<1> QED
  BY <1>4, <1>5 DEF ApartInv

(* A step that leaves the rows alone takes no handler out of the update of *)
(* a tool call but by interrupting it.                                     *)
LEMMA OtherStepsApart ==
  ASSUME Inv, SerialInv, ApartInv, [Next]_vars,
         \A r \in Requests : ~ UpdateApproval(r) /\ ~ UpdateToolCall(r)
  PROVE  ApartInv'
<1>1. UNCHANGED rows
  BY RowsChangeByUpdates
<1>2. ASSUME NEW r \in Requests, UpdatingOrCutOff(r)
      PROVE  UNCHANGED body[r] /\ UpdatingOrCutOff(r)'
  <2>1. ASSUME NEW s \in Requests, Refuse(s) \/ Receive(s)
        PROVE  UNCHANGED <<body[r], phase[r], reply[r]>>
    BY <1>2, <2>1 DEF UpdatingOrCutOff, Refuse, Receive, Answer, Inv, TypeOK
  <2>2. ASSUME NEW s \in Requests, DatabaseError(s)
        PROVE  UNCHANGED body[r] /\ UpdatingOrCutOff(r)'
    BY <1>2, <2>2 DEF UpdatingOrCutOff, DatabaseError, Answer, Inv, TypeOK
  <2>3. ASSUME NEW s \in Requests, Handle(s)
        PROVE  UNCHANGED <<body[r], phase[r], reply[r]>>
    BY <1>2, <2>3 DEF UpdatingOrCutOff, Handle, NotFound, Conflict, Expired, Accept, Respond,
       Advance, Answer, Inv, TypeOK
  <2>4. CASE Crash
    BY <1>2, <2>4 DEF UpdatingOrCutOff, Crash, InFlight, Handling, Inv, TypeOK
  <2>5. CASE Tick \/ UNCHANGED vars
    BY <1>2, <2>5 DEF UpdatingOrCutOff, Tick, vars
  <2> QED
    BY <1>2, <2>1, <2>2, <2>3, <2>4, <2>5 DEF Next, UpdatingOrCutOff
<1> QED
  BY <1>1, <1>2 DEF rows, ApartInv, VerdictsAgree, ReviewerGoesOn, Agree, DecidedApproval,
     DecidedToolCall

(* One decision at a time, each approval with a tool call of its own: at   *)
(* rest an approval and its tool call have the same verdict, or the call   *)
(* still waits because its reviewer's request was interrupted.             *)
THEOREM VerdictsPartOnlyByInterruption ==
  ASSUME ~ Overlap, OwnToolCalls
  PROVE  Spec => []ApartOnlyByInterruption
<1>1. Inv /\ SerialInv /\ ApartInv /\ [Next]_vars => ApartInv'
  BY UpdateApprovalApart, UpdateToolCallApart, OtherStepsApart
<1>2. ApartInv => ApartOnlyByInterruption
  BY DEF ApartInv, VerdictsAgree, ReviewerGoesOn, UpdatingOrCutOff, Interrupted,
     ApartOnlyByInterruption, AtRest, InFlight, Handling
<1> QED
  BY <1>1, <1>2, ApartInit, SerialInvariant, PTL DEF Spec

-----------------------------------------------------------------------------
(* The mapping to ApprovalProtocol, step by step.                          *)
LEMMA ProtocolInit == Init => Protocol!Init
BY RowsAssumption DEF Init, Protocol!Init, PendingRow, PendingCall

LEMMA VerdictStep ==
  ASSUME Inv, SerialInv, NEW r \in Requests, UpdateApproval(r)
  PROVE  Protocol!Next
<1>1. PICK a \in Approvals, d \in Decisions : a = body[r].approval /\ d = body[r].decision
  BY BodiesAreRows DEF UpdateApproval, InFlight, Handling
<1>2. /\ approval[a].status = "pending"
      /\ approval' = [approval EXCEPT ![a] = DecidedRow(r)]
      /\ UNCHANGED toolCall
  BY <1>1 DEF UpdateApproval, SerialInv, ReadStillHolds, DecidedApproval
<1>3. [x \in Approvals |-> approval[x].status]'
        = [[x \in Approvals |-> approval[x].status] EXCEPT ![a] = d]
  BY <1>1, <1>2 DEF DecidedRow, Inv, TypeOK
<1>4. Protocol!Decide(a, d)
  BY <1>2, <1>3 DEF Protocol!Decide
<1> QED
  BY <1>1, <1>4 DEF Protocol!Next, Protocol!Verdicts, Decisions

LEMMA ReleaseStep ==
  ASSUME Inv, SerialInv, OwnToolCalls, NEW r \in Requests, UpdateToolCall(r)
  PROVE  Protocol!Next
<1>1. PICK a \in Approvals : /\ a = body[r].approval
                            /\ ToolCallOf[a] \in ToolCalls
                            /\ body[r].decision \in Decisions
  BY BodiesAreRows DEF UpdateToolCall, InFlight, Handling
<1>2. /\ phase[r] = "updatingToolCall"
      /\ toolCall' = [toolCall EXCEPT ![ToolCallOf[a]] = DecidedCall(r)]
      /\ UNCHANGED approval
  BY <1>1 DEF UpdateToolCall
<1>3. /\ approval[a].status = body[r].decision
      /\ approval[a].status # "pending"
      /\ toolCall[ToolCallOf[a]].status = "pending"
  BY <1>1, <1>2 DEF SerialInv, RowIsOwn, CallStillPending, DecidedToolCall, Decisions
<1>4. DecidedCall(r).status = Protocol!Outcome(approval[a].status)
  BY <1>1, <1>3 DEF DecidedCall, ToolCallStatus, Protocol!Outcome, Decisions
<1>5. [x \in Approvals |-> toolCall[ToolCallOf[x]].status]'
        = [[x \in Approvals |-> toolCall[ToolCallOf[x]].status]
              EXCEPT ![a] = Protocol!Outcome(approval[a].status)]
  <2>1. \A x \in Approvals : ToolCallOf[x] \in ToolCalls
                             /\ (x # a => ToolCallOf[x] # ToolCallOf[a])
    BY RowsAssumption DEF OwnToolCalls
  <2> QED
    BY <1>1, <1>2, <1>4, <2>1 DEF Inv, TypeOK
<1>6. Protocol!Release(a)
  BY <1>2, <1>3, <1>5 DEF Protocol!Release
<1> QED
  BY <1>6 DEF Protocol!Next

(* One decision at a time, each approval with a tool call of its own: the  *)
(* handler of approvals.ts implements the abstract gate, whatever fails or *)
(* crashes.                                                                *)
THEOREM Refinement ==
  ASSUME ~ Overlap, OwnToolCalls
  PROVE  Spec => ImplementsProtocol
<1>1. Inv /\ SerialInv /\ [Next]_vars => [Protocol!Next]_(Protocol!vars)
  <2> SUFFICES ASSUME Inv, SerialInv, [Next]_vars
               PROVE  [Protocol!Next]_(Protocol!vars)
    OBVIOUS
  <2>1. CASE UNCHANGED rows
    BY <2>1 DEF rows, Protocol!vars
  <2> QED
    BY <2>1, RowsChangeByUpdates, VerdictStep, ReleaseStep
<1> QED
  BY <1>1, ProtocolInit, SerialInvariant, PTL DEF Spec, ImplementsProtocol, Protocol!Spec
=============================================================================
