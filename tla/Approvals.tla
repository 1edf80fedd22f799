------------------------------ MODULE Approvals ------------------------------
(***************************************************************************)
(* The decide handler of the approval routes                               *)
(* (apps/gateway/src/routes/approvals.ts, POST .../approvals/:id/decide)   *)
(* and the two database rows it writes: the approval and the tool call the *)
(* approval guards.                                                        *)
(*                                                                         *)
(* A handler runs from one await to the next without interruption, so it   *)
(* is one action per database call it awaits.  Between two of them any     *)
(* other request may step, time may pass, the database may report an error *)
(* and the process may crash.  Every request is a fresh one: a client that *)
(* tries again is another member of Requests.                              *)
(***************************************************************************)
EXTENDS Naturals

CONSTANTS
  Approvals,     \* ids of the approval rows
  ToolCalls,     \* ids of the tool-call rows
  Workspaces,    \* ids that can stand in the :workspaceId of the path
  Requests,      \* decide requests; each is sent by a reviewer of its own
  Inputs,        \* values of modifiedInput
  None,          \* null or undefined
  ToolCallOf,    \* column toolCallId of the approval rows
  WorkspaceOf,   \* column workspaceId of the approval rows
  ExpiresAt,     \* column expiresAt of the approval rows
  MaxClock,      \* bound on the clock, for model checking
  Overlap,       \* may a request arrive while another one is handled?
  Faults         \* may database calls fail and the process crash?

ASSUME RowsAssumption ==
  /\ ToolCallOf \in [Approvals -> ToolCalls]
  /\ WorkspaceOf \in [Approvals -> Workspaces]
  /\ ExpiresAt \in [Approvals -> Nat]

ASSUME SettingsAssumption ==
  /\ MaxClock \in Nat
  /\ Overlap \in BOOLEAN
  /\ Faults \in BOOLEAN

Decisions == {"approved", "rejected", "modified"}

(* Bodies that the request schema accepts, with the ids of the path.       *)
Body == [approval      : Approvals,
         workspace     : Workspaces,
         decision      : Decisions,
         modifiedInput : Inputs \cup {None}]

ASSUME NoneAssumption == None \notin Inputs \cup Requests \cup Nat \cup Body

VARIABLES
  approval,   \* approval rows, their mutable columns
  toolCall,   \* tool-call rows, their mutable columns
  clock,      \* the wall clock, new Date()
  phase,      \* where the handler of each request stands
  body,       \* what each request asks for, None before it arrives
  now,        \* the handler's constant "now"
  reply,      \* status code sent, 0 as long as there is none
  late        \* history: was the approval decided when the request arrived?

rows == <<approval, toolCall>>
vars == <<approval, toolCall, clock, phase, body, now, reply, late>>

-----------------------------------------------------------------------------
(* The rows a handler writes.                                              *)

(* sha256Hex(JSON.stringify(..)): what matters is what it is the hash of.  *)
HashOf(input) == IF input = None THEN None ELSE <<"sha256", input>>

PendingRow ==
  [status |-> "pending", decision |-> None, reviewerId |-> None,
   modifiedInput |-> None, modifiedInputHash |-> None, decidedAt |-> None]

(* Mutant: a column the request has no value for is left out of the update *)
(* instead of being set to null.                                           *)
DecidedRowKeepingInput(r) ==
  LET old == approval[body[r].approval]
      given == body[r].modifiedInput # None
  IN  [status            |-> body[r].decision,
       decision          |-> body[r].decision,
       reviewerId        |-> r,
       modifiedInput     |-> IF given THEN body[r].modifiedInput ELSE old.modifiedInput,
       modifiedInputHash |-> HashOf(body[r].modifiedInput),
       decidedAt         |-> now[r]]

(* The update of the approval sets every column, those the request has no  *)
(* value for to null.                                                      *)
DecidedRow(r) ==
  [status            |-> body[r].decision,
   decision          |-> body[r].decision,
   reviewerId        |-> r,
   modifiedInput     |-> body[r].modifiedInput,
   modifiedInputHash |-> HashOf(body[r].modifiedInput),
   decidedAt         |-> now[r]]

(* Mutants: the decision is stored as it is; only a plain approval lets    *)
(* the call go.                                                            *)
ToolCallStatusPassedThrough(decision) == decision

ToolCallStatusOfApprovalOnly(decision) ==
  IF decision = "approved" THEN "approved" ELSE "rejected"

ToolCallStatus(decision) ==
  IF decision \in {"approved", "modified"} THEN "approved" ELSE "rejected"

PendingCall ==
  [status |-> "pending", approvalDecision |-> None,
   approvedBy |-> None, approvedAt |-> None]

DecidedCall(r) ==
  [status           |-> ToolCallStatus(body[r].decision),
   approvalDecision |-> body[r].decision,
   approvedBy       |-> r,
   approvedAt       |-> now[r]]

-----------------------------------------------------------------------------
Init ==
  /\ approval = [a \in Approvals |-> PendingRow]
  /\ toolCall = [t \in ToolCalls |-> PendingCall]
  /\ clock = 0
  /\ phase = [r \in Requests |-> "new"]
  /\ body = [r \in Requests |-> None]
  /\ now = [r \in Requests |-> 0]
  /\ reply = [r \in Requests |-> 0]
  /\ late = [r \in Requests |-> FALSE]

(* Phases in which a handler is awaiting a database call or its reply.     *)
Handling == {"reading", "updatingApproval", "updatingToolCall", "responding"}

InFlight(r) == phase[r] \in Handling

MayArrive == Overlap \/ \A r \in Requests : ~ InFlight(r)

Advance(r, next) ==
  /\ phase' = [phase EXCEPT ![r] = next]
  /\ UNCHANGED <<reply, body, now, late>>

Answer(r, code) ==
  /\ phase' = [phase EXCEPT ![r] = "done"]
  /\ reply' = [reply EXCEPT ![r] = code]
  /\ UNCHANGED <<rows, clock, body, now, late>>

(* The hooks turn the request down (401, 403) or its body does not parse.  *)
Refuse(r) ==
  /\ phase[r] = "new"
  /\ \E code \in {400, 401, 403} : Answer(r, code)

(* The handler starts: the body parses, "now" is taken, the approval row   *)
(* is asked for.                                                           *)
Receive(r) ==
  /\ phase[r] = "new"
  /\ MayArrive
  /\ \E b \in Body :
        /\ body' = [body EXCEPT ![r] = b]
        /\ late' = [late EXCEPT ![r] = approval[b.approval].status # "pending"]
  /\ now' = [now EXCEPT ![r] = clock]
  /\ phase' = [phase EXCEPT ![r] = "reading"]
  /\ UNCHANGED <<rows, clock, reply>>

(* The select is scoped to the workspace of the path.                      *)
Found(r) == WorkspaceOf[body[r].approval] = body[r].workspace

(* Mutant: an approval with a modified input may be looked at once more.   *)
IsPendingOrModified(r) ==
  approval[body[r].approval].status \in {"pending", "modified"}

IsPending(r) == approval[body[r].approval].status = "pending"

(* Mutant: the deadline is missed by one.                                  *)
HasExpiredOneLate(r) == ExpiresAt[body[r].approval] + 1 < clock

HasExpired(r) == ExpiresAt[body[r].approval] < clock

NotFound(r) ==
  /\ phase[r] = "reading"
  /\ ~ Found(r)
  /\ Answer(r, 404)

Conflict(r) ==
  /\ phase[r] = "reading"
  /\ Found(r)
  /\ ~ IsPending(r)
  /\ Answer(r, 409)

Expired(r) ==
  /\ phase[r] = "reading"
  /\ Found(r)
  /\ IsPending(r)
  /\ HasExpired(r)
  /\ Answer(r, 410)

(* Mutant: the handler goes straight to the tool call.                     *)
AcceptToolCallFirst(r) ==
  /\ phase[r] = "reading"
  /\ Found(r)
  /\ IsPending(r)
  /\ ~ HasExpired(r)
  /\ Advance(r, "updatingToolCall")
  /\ UNCHANGED <<rows, clock>>

(* Pending and in time: the update of the approval is issued.              *)
Accept(r) ==
  /\ phase[r] = "reading"
  /\ Found(r)
  /\ IsPending(r)
  /\ ~ HasExpired(r)
  /\ Advance(r, "updatingApproval")
  /\ UNCHANGED <<rows, clock>>

(* Mutant: the reply does not wait for the tool call to be updated.        *)
UpdateApprovalOnly(r) ==
  /\ phase[r] = "updatingApproval"
  /\ approval' = [approval EXCEPT ![body[r].approval] = DecidedRow(r)]
  /\ Advance(r, "responding")
  /\ UNCHANGED <<toolCall, clock>>

(* The first update takes effect.  Its WHERE names the id alone, so it is  *)
(* applied whatever the row's status has become since it was read.         *)
UpdateApproval(r) ==
  /\ phase[r] = "updatingApproval"
  /\ approval' = [approval EXCEPT ![body[r].approval] = DecidedRow(r)]
  /\ Advance(r, "updatingToolCall")
  /\ UNCHANGED <<toolCall, clock>>

(* The second update takes effect.                                         *)
UpdateToolCall(r) ==
  /\ phase[r] = "updatingToolCall"
  /\ toolCall' = [toolCall EXCEPT ![ToolCallOf[body[r].approval]] = DecidedCall(r)]
  /\ Advance(r, "responding")
  /\ UNCHANGED <<approval, clock>>

Respond(r) ==
  /\ phase[r] = "responding"
  /\ Answer(r, 200)

(* The awaited call is rejected, before or (phase "responding") after it   *)
(* took effect; the global error handler answers 500.                      *)
DatabaseError(r) ==
  /\ Faults
  /\ InFlight(r)
  /\ Answer(r, 500)

(* The process dies and is restarted: what it was handling is gone, the    *)
(* rows stay as they are.                                                  *)
Crash ==
  /\ Faults
  /\ \E r \in Requests : InFlight(r)
  /\ phase' = [r \in Requests |-> IF InFlight(r) THEN "lost" ELSE phase[r]]
  /\ UNCHANGED <<rows, clock, body, now, reply, late>>

Tick ==
  /\ clock < MaxClock
  /\ clock' = clock + 1
  /\ UNCHANGED <<rows, phase, body, now, reply, late>>

(* The steps a handler takes once its request has arrived.                 *)
Handle(r) ==
  \/ NotFound(r) \/ Conflict(r) \/ Expired(r) \/ Accept(r)
  \/ UpdateApproval(r) \/ UpdateToolCall(r) \/ Respond(r)

Next ==
  \/ \E r \in Requests : Refuse(r) \/ Receive(r) \/ Handle(r) \/ DatabaseError(r)
  \/ Crash
  \/ Tick

Spec == Init /\ [][Next]_vars

(* The event loop runs every handler whose awaited call has come back, and *)
(* the database answers every call; nobody has to send a request.          *)
FairSpec == Spec /\ \A r \in Requests : WF_vars(Handle(r))

-----------------------------------------------------------------------------
(* Type correctness of the rows and of the handlers' local state.          *)
ApprovalRow ==
  [status            : Decisions \cup {"pending"},
   decision          : Decisions \cup {None},
   reviewerId        : Requests \cup {None},
   modifiedInput     : Inputs \cup {None},
   modifiedInputHash : {HashOf(i) : i \in Inputs \cup {None}},
   decidedAt         : Nat \cup {None}]

ToolCallRow ==
  [status           : {"pending", "approved", "rejected"},
   approvalDecision : Decisions \cup {None},
   approvedBy       : Requests \cup {None},
   approvedAt       : Nat \cup {None}]

TypeOK ==
  /\ approval \in [Approvals -> ApprovalRow]
  /\ toolCall \in [ToolCalls -> ToolCallRow]
  /\ clock \in Nat
  /\ phase \in [Requests -> Handling \cup {"new", "done", "lost"}]
  /\ body \in [Requests -> Body \cup {None}]
  /\ now \in [Requests -> Nat]
  /\ reply \in [Requests -> {0, 200, 400, 401, 403, 404, 409, 410, 500}]
  /\ late \in [Requests -> BOOLEAN]

-----------------------------------------------------------------------------
(* Safety, whatever overlaps, fails or crashes.                            *)

DecidedApproval(a) == approval[a].status # "pending"

DecidedToolCall(t) == toolCall[t].status # "pending"

(* The handler did not get to its end.                                     *)
Interrupted(r) == phase[r] = "lost" \/ reply[r] = 500

(* A decided row never mixes two reviewers.  However decisions overwrite   *)
(* one another, status, decision, input, hash and time of an approval are  *)
(* those of the one request it names as reviewer, and likewise for the     *)
(* tool call: in particular an input supplied by an earlier "modified" does *)
(* not survive under a later "approved".                                   *)
ApprovalOfOneReviewer(a) ==
  \E r \in Requests :
     /\ body[r] # None
     /\ body[r].approval = a
     /\ approval[a].reviewerId = r
     /\ approval[a].status = body[r].decision
     /\ approval[a].decision = body[r].decision
     /\ approval[a].modifiedInput = body[r].modifiedInput
     /\ approval[a].modifiedInputHash = HashOf(body[r].modifiedInput)
     /\ approval[a].decidedAt = now[r]

ToolCallOfOneReviewer(t) ==
  \E r \in Requests :
     /\ body[r] # None
     /\ ToolCallOf[body[r].approval] = t
     /\ toolCall[t].approvedBy = r
     /\ toolCall[t].approvalDecision = body[r].decision
     /\ toolCall[t].status = "rejected" <=> body[r].decision = "rejected"
     /\ toolCall[t].approvedAt = now[r]

RowsOfOneReviewer ==
  /\ \A a \in Approvals : DecidedApproval(a) => ApprovalOfOneReviewer(a)
  /\ \A t \in ToolCalls : DecidedToolCall(t) => ToolCallOfOneReviewer(t)

(* A tool call is released or refused only behind a verdict that is        *)
(* already in the database: the approval it was decided through was        *)
(* updated first, so no crash between the two updates lets a tool call     *)
(* past the gate while its approval is still listed as pending.            *)
ToolCallFollowsApproval ==
  \A t \in ToolCalls : DecidedToolCall(t) =>
     \E r \in Requests :
        /\ body[r] # None
        /\ toolCall[t].approvedBy = r
        /\ DecidedApproval(body[r].approval)

(* No decision is dated after the expiry of its approval, although the     *)
(* date is taken before the row is read and the expiry is compared with a  *)
(* later reading of the clock.                                             *)
DecidedInTime ==
  \A a \in Approvals : DecidedApproval(a) => approval[a].decidedAt <= ExpiresAt[a]

(* A request that arrives when the approval is already decided is without  *)
(* effect, however long its select takes and whatever others do meanwhile: *)
(* it never gets to an update and is never told its decision was recorded. *)
LateDecisionIsInert ==
  \A r \in Requests : late[r] =>
     /\ phase[r] \notin {"updatingApproval", "updatingToolCall", "responding"}
     /\ reply[r] # 200

(* A reviewer is told "recorded" only when both rows are decided.          *)
RecordedMeansBothRows ==
  \A r \in Requests : reply[r] = 200 =>
     /\ DecidedApproval(body[r].approval)
     /\ DecidedToolCall(ToolCallOf[body[r].approval])

-----------------------------------------------------------------------------
(* What holds only when decisions do not overlap, or nothing fails.        *)

(* A decision is final: nothing rewrites the row of a decided approval.    *)
DecidedOnce ==
  [][\A a \in Approvals : DecidedApproval(a) => approval'[a] = approval[a]]_vars

(* A decision that was acknowledged is the one on record.                  *)
RecordedDecisionStands ==
  \A r \in Requests : reply[r] = 200 => approval[body[r].approval].reviewerId = r

(* The approval and its tool call say the same: the call is decided too,   *)
(* and refused exactly by a rejection.                                     *)
Agree(a) ==
  LET t == ToolCallOf[a] IN
  /\ DecidedToolCall(t)
  /\ approval[a].status = "rejected" <=> toolCall[t].status = "rejected"

AtRest == \A r \in Requests : ~ InFlight(r)

(* When no handler is under way, a decided approval and its tool call      *)
(* agree.  It takes serial decisions and no failure.                       *)
RowsAgreeAtRest ==
  AtRest => \A a \in Approvals : DecidedApproval(a) => Agree(a)

(* With serial decisions the only way to leave the two apart is an error   *)
(* or a crash that interrupted the request of the reviewer on record, and  *)
(* then the tool call is still waiting: it never has the opposite verdict. *)
ApartOnlyByInterruption ==
  AtRest => \A a \in Approvals : DecidedApproval(a) =>
     \/ Agree(a)
     \/ /\ ~ DecidedToolCall(ToolCallOf[a])
        /\ Interrupted(approval[a].reviewerId)

(* The decide handler implements the abstract gate, one verdict and then   *)
(* one release, as long as requests do not overlap; a crash only stops it. *)
Protocol == INSTANCE ApprovalProtocol
  WITH verdict <- [a \in Approvals |-> approval[a].status],
       call <- [a \in Approvals |-> toolCall[ToolCallOf[a]].status]

ImplementsProtocol == Protocol!Spec

(* A verdict reaches the tool call it is about, however many reviewers     *)
(* decide at once, unless the request of the reviewer on record was cut    *)
(* short by an error or a crash.                                           *)
VerdictReachesToolCall ==
  \A a \in Approvals :
     DecidedApproval(a) ~>
        \/ DecidedToolCall(ToolCallOf[a])
        \/ DecidedApproval(a) /\ Interrupted(approval[a].reviewerId)
=============================================================================
