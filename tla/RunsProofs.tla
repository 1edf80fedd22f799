----------------------------- MODULE RunsProofs -----------------------------
(***************************************************************************)
(* Proofs about Runs, for any number of agents, workspaces, keys and       *)
(* requests to start a run: the type invariant and the safety invariants,  *)
(* whatever overlaps, fails or crashes and whatever the worker does.       *)
(***************************************************************************)
EXTENDS Runs, TLAPS

LEMMA BodyFields ==
  ASSUME NEW b \in Body
  PROVE  /\ b.agent \in Agents
         /\ b.workspace \in Workspaces
         /\ b.key \in Keys \cup {None}
         /\ b # None
BY NoneAssumption DEF Body

LEMMA RowFields ==
  ASSUME NEW b \in RunRow
  PROVE  /\ b.agent \in Agents
         /\ b.workspace \in Workspaces
         /\ b # None
BY NoneAssumption DEF RunRow

-----------------------------------------------------------------------------
(* The inductive invariant says of every request what its handler has      *)
(* established so far.                                                     *)

(* A request that is under way has a body, and no reply yet; a new one has *)
(* neither.                                                                *)
InProgress(r) ==
  /\ phase[r] = "new" => ~ stale[r].key /\ ~ stale[r].agent
  /\ phase[r] = "new" \/ InFlight(r) => reply[r] = 0
  /\ InFlight(r) => body[r] # None

(* Row and job come one after the other; the handler that goes to the      *)
(* reply without them has found another run under its key.                 *)
RowThenJob(r) ==
  /\ phase[r] \in {"new", "readingAgent", "lookingUpKey", "inserting"} =>
        run[r] = None /\ jobs[r] = None
  /\ phase[r] \in {"new", "readingAgent", "lookingUpKey", "inserting", "enqueuing"} =>
        found[r] = None
  /\ phase[r] = "enqueuing" => run[r] # None
  /\ phase[r] = "responding" /\ found[r] = None => jobs[r] # None
  /\ phase[r] = "responding" /\ found[r] # None =>
        found[r] \in Rows /\ run[found[r]].key = body[r].key

(* What is in the table and in the queue is what the request asked for.    *)
StoredAsAsked(r) ==
  /\ run[r] # None =>
        /\ body[r] # None
        /\ run[r].agent = body[r].agent
        /\ run[r].workspace = body[r].workspace
        /\ run[r].key = body[r].key
  /\ jobs[r] # None =>
        /\ run[r] # None
        /\ jobs[r].agent = body[r].agent
        /\ jobs[r].workspace = body[r].workspace

(* Who is past the look at the agent saw it in its workspace, and a        *)
(* deleted agent does not come back.                                       *)
AgentSeen(r) ==
  /\ phase[r] \in {"lookingUpKey", "inserting", "enqueuing", "responding"} \/ run[r] # None =>
        ~ stale[r].agent /\ HomeOf[body[r].agent] = body[r].workspace
  /\ stale[r].agent => body[r] # None /\ agent[body[r].agent] = "deleted"

(* A key that was taken when the request arrived is taken for good: rows   *)
(* are never removed, and keep their keys.                                 *)
KeyTaken(r) ==
  stale[r].key =>
     /\ body[r] # None /\ body[r].key # None /\ WithKey(body[r].key) # {}
     /\ phase[r] \notin {"inserting", "enqueuing"}
     /\ phase[r] = "responding" => found[r] # None
     /\ run[r] = None /\ jobs[r] = None

(* What was replied holds for good.                                        *)
RepliedTruly(r) ==
  /\ reply[r] = 202 => named[r] = r /\ jobs[r] # None
  /\ reply[r] = 200 => /\ body[r] # None
                       /\ named[r] \in Rows /\ run[named[r]].key = body[r].key

(* A row without its job is on its way to the queue, or was cut short.     *)
QueuedOrCutShort(r) ==
  run[r] # None =>
     \/ jobs[r] # None
     \/ phase[r] \in {"enqueuing", "lost"}
     \/ phase[r] = "done" /\ reply[r] = 500

HandlerInv(r) ==
  /\ InProgress(r)
  /\ RowThenJob(r)
  /\ StoredAsAsked(r)
  /\ AgentSeen(r)
  /\ KeyTaken(r)
  /\ RepliedTruly(r)
  /\ QueuedOrCutShort(r)

Inv == TypeOK /\ \A r \in Requests : HandlerInv(r)

LEMMA InvInit == Init => Inv
BY DEF Init, Inv, TypeOK, HandlerInv, InProgress, RowThenJob, StoredAsAsked, AgentSeen, KeyTaken,
       RepliedTruly, QueuedOrCutShort, InFlight, Handling, Rows

-----------------------------------------------------------------------------
(* Type correctness is kept by every step.                                 *)

LEMMA AnswerType ==
  ASSUME TypeOK, NEW r \in Requests, NEW code \in {200, 202, 400, 401, 404, 500},
         NEW id \in Requests \cup {None}, Answer(r, code, id)
  PROVE  TypeOK'
BY DEF Answer, TypeOK, stored

LEMMA HandleType ==
  ASSUME Inv, NEW r \in Requests, Handle(r)
  PROVE  TypeOK'
<1> USE DEF Inv
<1>1. CASE AgentMissing(r)
  BY <1>1, AnswerType DEF AgentMissing
<1>2. CASE ReadAgent(r)
  BY <1>2 DEF ReadAgent, Advance, TypeOK, Handling, stored
<1>3. CASE LookupKey(r)
  BY <1>3 DEF LookupKey, Advance, TypeOK, Handling, WithKey, Rows, stored
<1>4. CASE InsertRun(r)
  <2>1. body[r] \in Body
    BY <1>4 DEF InsertRun, TypeOK, HandlerInv, InProgress, InFlight, Handling
  <2>2. QueuedRow(r) \in RunRow
    BY <2>1, BodyFields DEF QueuedRow, RunRow
  <2> QED
    BY <1>4, <2>2 DEF InsertRun, Advance, TypeOK, Handling
<1>5. CASE Enqueue(r)
  <2>1. body[r] \in Body
    BY <1>5 DEF Enqueue, TypeOK, HandlerInv, InProgress, InFlight, Handling
  <2>2. JobData(r) \in Job
    BY <2>1, BodyFields DEF JobData, Job
  <2> QED
    BY <1>5, <2>2 DEF Enqueue, Advance, TypeOK, Handling
<1>6. CASE Respond(r)
  BY <1>6, AnswerType DEF Respond, TypeOK
<1> QED
  BY <1>1, <1>2, <1>3, <1>4, <1>5, <1>6 DEF Handle

LEMMA SetStatusType ==
  ASSUME TypeOK, NEW r \in Requests, run[r] # None,
         NEW s \in {"queued", "running", "completed", "failed", "cancelled"}, SetStatus(r, s)
  PROVE  TypeOK'
<1>1. [run[r] EXCEPT !.status = s] \in RunRow
  BY DEF TypeOK, RunRow
<1> QED
  BY <1>1 DEF SetStatus, TypeOK

LEMMA TypeStep == Inv /\ [Next]_vars => TypeOK'
<1> SUFFICES ASSUME Inv, [Next]_vars
             PROVE  TypeOK'
  OBVIOUS
<1> USE DEF Inv
<1>1. ASSUME NEW r \in Requests, Refuse(r)
      PROVE  TypeOK'
  BY <1>1, AnswerType DEF Refuse
<1>2. ASSUME NEW r \in Requests, Receive(r)
      PROVE  TypeOK'
  BY <1>2 DEF Receive, TypeOK, Handling, stored
<1>3. ASSUME NEW r \in Requests, CallFails(r)
      PROVE  TypeOK'
  BY <1>3, AnswerType DEF CallFails
<1>4. CASE Crash
  BY <1>4 DEF Crash, TypeOK, stored
<1>5. ASSUME NEW a \in Agents, CreateAgent(a) \/ DeleteAgent(a)
      PROVE  TypeOK'
  BY <1>5 DEF CreateAgent, DeleteAgent, TypeOK
<1>6. ASSUME NEW r \in Requests, NEW w \in Workspaces, Cancel(r, w)
      PROVE  TypeOK'
  BY <1>6, SetStatusType DEF Cancel
<1>7. ASSUME NEW r \in Requests, WorkerStep(r)
      PROVE  TypeOK'
  BY <1>7, SetStatusType DEF WorkerStep, HandlerInv, StoredAsAsked
<1>8. CASE UNCHANGED vars
  BY <1>8 DEF vars, TypeOK
<1> QED
  BY <1>1, <1>2, <1>3, <1>4, <1>5, <1>6, <1>7, <1>8, HandleType DEF Next

-----------------------------------------------------------------------------
(* The handlers' invariant is kept by every step.                          *)

(* A reply that is true when it is given.                                  *)
LEMMA AnswerInv ==
  ASSUME Inv, NEW r \in Requests, phase[r] = "new" \/ InFlight(r), NEW code, NEW id,
         Answer(r, code, id),
         code = 202 => id = r /\ jobs[r] # None,
         code = 200 => id \in Rows /\ run[id].key = body[r].key /\ InFlight(r),
         stale[r].key => code # 202,
         code = 500 \/ phase[r] \in {"new", "readingAgent", "responding"}
  PROVE  \A s \in Requests : HandlerInv(s)'
<1>1. /\ phase'[r] = "done" /\ reply'[r] = code /\ named'[r] = id
      /\ \A s \in Requests \ {r} :
            phase'[s] = phase[s] /\ reply'[s] = reply[s] /\ named'[s] = named[s]
      /\ UNCHANGED <<agent, run, jobs, body, found, stale>>
  BY DEF Answer, stored, Inv, TypeOK
<1> SUFFICES ASSUME NEW s \in Requests
             PROVE  HandlerInv(s)'
  OBVIOUS
<1>2. Rows' = Rows /\ (\A k : WithKey(k)' = WithKey(k))
  BY <1>1 DEF Rows, WithKey
<1>3. HandlerInv(s)
  BY DEF Inv
<1>4. InProgress(s)' /\ RowThenJob(s)' /\ StoredAsAsked(s)'
  BY <1>1, <1>2, <1>3 DEF HandlerInv, InProgress, RowThenJob, StoredAsAsked, InFlight, Handling
<1>5. AgentSeen(s)' /\ KeyTaken(s)'
  BY <1>1, <1>2, <1>3 DEF HandlerInv, AgentSeen, KeyTaken
<1>6. RepliedTruly(s)' /\ QueuedOrCutShort(s)'
  BY <1>1, <1>2, <1>3 DEF HandlerInv, InProgress, RowThenJob, RepliedTruly, QueuedOrCutShort, InFlight, Handling
<1> QED
  BY <1>4, <1>5, <1>6 DEF HandlerInv

LEMMA ReceiveInv ==
  ASSUME Inv, NEW r \in Requests, Receive(r)
  PROVE  \A s \in Requests : HandlerInv(s)'
<1>1. PICK b \in Body :
        /\ body' = [body EXCEPT ![r] = b]
        /\ stale' = [stale EXCEPT ![r] =
              [key |-> b.key # None /\ WithKey(b.key) # {},
               agent |-> agent[b.agent] = "deleted"]]
  BY DEF Receive
<1>2. /\ phase[r] = "new" /\ phase'[r] = "readingAgent"
      /\ body'[r] = b /\ b # None
      /\ stale'[r] = [key |-> b.key # None /\ WithKey(b.key) # {},
                      agent |-> agent[b.agent] = "deleted"]
      /\ \A s \in Requests \ {r} :
            phase'[s] = phase[s] /\ body'[s] = body[s] /\ stale'[s] = stale[s]
      /\ UNCHANGED <<agent, run, jobs, found, reply, named>>
  BY <1>1, BodyFields DEF Receive, stored, Inv, TypeOK
<1>3. Rows' = Rows /\ (\A k : WithKey(k)' = WithKey(k))
  BY <1>2 DEF Rows, WithKey
<1> SUFFICES ASSUME NEW s \in Requests
             PROVE  HandlerInv(s)'
  OBVIOUS
<1>4. HandlerInv(s)
  BY DEF Inv
<1>5. /\ stale'[r].key => b.key # None /\ WithKey(b.key) # {}
      /\ stale'[r].agent => agent[b.agent] = "deleted"
  <2>1. stale'[r].key = (b.key # None /\ WithKey(b.key) # {})
    BY <1>2
  <2>2. stale'[r].agent = (agent[b.agent] = "deleted")
    BY <1>2
  <2> QED
    BY <2>1, <2>2, Zenon
<1> QED
  BY <1>2, <1>3, <1>4, <1>5 DEF HandlerInv, InProgress, RowThenJob, StoredAsAsked, AgentSeen, KeyTaken,
     RepliedTruly, QueuedOrCutShort, InFlight, Handling

LEMMA ReadAgentInv ==
  ASSUME Inv, NEW r \in Requests, ReadAgent(r)
  PROVE  \A s \in Requests : HandlerInv(s)'
<1>1. /\ phase[r] = "readingAgent"
      /\ phase'[r] = IF body[r].key = None THEN "inserting" ELSE "lookingUpKey"
      /\ \A s \in Requests \ {r} : phase'[s] = phase[s]
      /\ UNCHANGED <<agent, run, jobs, body, found, reply, named, stale>>
  BY DEF ReadAgent, Advance, stored, Inv, TypeOK
<1>2. Rows' = Rows /\ (\A k : WithKey(k)' = WithKey(k))
  BY <1>1 DEF Rows, WithKey
<1> SUFFICES ASSUME NEW s \in Requests
             PROVE  HandlerInv(s)'
  OBVIOUS
<1>3. HandlerInv(s)
  BY DEF Inv
<1>4. agent[body[r].agent] = "present" /\ HomeOf[body[r].agent] = body[r].workspace
  BY DEF ReadAgent, AgentKnown
<1> QED
  BY <1>1, <1>2, <1>3, <1>4 DEF HandlerInv, InProgress, RowThenJob, StoredAsAsked, AgentSeen,
     KeyTaken, RepliedTruly, QueuedOrCutShort, InFlight, Handling

LEMMA LookupKeyInv ==
  ASSUME Inv, NEW r \in Requests, LookupKey(r)
  PROVE  \A s \in Requests : HandlerInv(s)'
<1>1. /\ phase[r] = "lookingUpKey"
      /\ \/ /\ WithKey(body[r].key) = {}
            /\ phase'[r] = "inserting" /\ found'[r] = None
         \/ /\ phase'[r] = "responding"
            /\ found'[r] \in WithKey(body[r].key)
      /\ \A s \in Requests \ {r} : phase'[s] = phase[s] /\ found'[s] = found[s]
      /\ UNCHANGED <<agent, run, jobs, body, reply, named, stale>>
  BY DEF LookupKey, Advance, stored, Inv, TypeOK, HandlerInv, RowThenJob
<1>2. Rows' = Rows /\ (\A k : WithKey(k)' = WithKey(k))
  BY <1>1 DEF Rows, WithKey
<1>3. found'[r] # None => found'[r] \in Rows /\ run[found'[r]].key = body[r].key
  BY <1>1 DEF WithKey
<1>4. phase'[r] = "responding" => found'[r] # None
  BY <1>1, NoneAssumption DEF WithKey, Rows
<1> SUFFICES ASSUME NEW s \in Requests
             PROVE  HandlerInv(s)'
  OBVIOUS
<1>5. HandlerInv(s)
  BY DEF Inv
<1> QED
  BY <1>1, <1>2, <1>3, <1>4, <1>5 DEF HandlerInv, InProgress, RowThenJob, StoredAsAsked, AgentSeen,
     KeyTaken, RepliedTruly, QueuedOrCutShort, InFlight, Handling

(* Rows stay, and keep what the handlers read of them.                     *)
RowsStay ==
  \A x \in Requests : run[x] # None =>
     /\ run'[x] # None
     /\ run'[x].agent = run[x].agent
     /\ run'[x].workspace = run[x].workspace
     /\ run'[x].key = run[x].key

LEMMA KeysStay ==
  ASSUME RowsStay
  PROVE  /\ \A x \in Rows : x \in Rows' /\ run'[x].key = run[x].key
         /\ \A k : WithKey(k) # {} => WithKey(k)' # {}
BY DEF RowsStay, Rows, WithKey

LEMMA InsertRunInv ==
  ASSUME Inv, NEW r \in Requests, InsertRun(r)
  PROVE  \A s \in Requests : HandlerInv(s)'
<1>1. body[r] \in Body /\ body[r] # None
  BY DEF InsertRun, Inv, TypeOK, HandlerInv, InProgress, InFlight, Handling
<1>2. QueuedRow(r) # None
  BY <1>1, BodyFields, RowFields DEF QueuedRow, RunRow
<1>3. /\ phase[r] = "inserting" /\ phase'[r] = "enqueuing"
      /\ run'[r] = QueuedRow(r)
      /\ \A s \in Requests \ {r} : phase'[s] = phase[s] /\ run'[s] = run[s]
      /\ UNCHANGED <<agent, jobs, body, found, reply, named, stale>>
  BY DEF InsertRun, Advance, Inv, TypeOK
<1>4. run[r] = None
  BY <1>3 DEF Inv, HandlerInv, RowThenJob
<1>5. RowsStay
  BY <1>3, <1>4 DEF RowsStay
<1> SUFFICES ASSUME NEW s \in Requests
             PROVE  HandlerInv(s)'
  OBVIOUS
<1>6. HandlerInv(s)
  BY DEF Inv
<1>7. InProgress(s)' /\ RowThenJob(s)'
  BY <1>1, <1>2, <1>3, <1>5, <1>6, KeysStay DEF HandlerInv, InProgress, RowThenJob, InFlight, Handling
<1>8. StoredAsAsked(s)' /\ AgentSeen(s)'
  BY <1>1, <1>2, <1>3, <1>6 DEF QueuedRow, HandlerInv, StoredAsAsked, RowThenJob, AgentSeen
<1>9. KeyTaken(s)'
  BY <1>3, <1>5, <1>6, KeysStay DEF HandlerInv, KeyTaken
<1>10. RepliedTruly(s)' /\ QueuedOrCutShort(s)'
  BY <1>3, <1>5, <1>6, KeysStay DEF HandlerInv, RepliedTruly, QueuedOrCutShort
<1> QED
  BY <1>7, <1>8, <1>9, <1>10 DEF HandlerInv

LEMMA EnqueueInv ==
  ASSUME Inv, NEW r \in Requests, Enqueue(r)
  PROVE  \A s \in Requests : HandlerInv(s)'
<1>1. body[r] \in Body /\ run[r] # None
  BY DEF Enqueue, Inv, TypeOK, HandlerInv, InProgress, RowThenJob, InFlight, Handling
<1>2. JobData(r) # None
  BY <1>1, BodyFields, NoneAssumption DEF JobData, Job
<1>3. /\ phase[r] = "enqueuing" /\ phase'[r] = "responding"
      /\ jobs'[r] = JobData(r)
      /\ \A s \in Requests \ {r} : phase'[s] = phase[s] /\ jobs'[s] = jobs[s]
      /\ UNCHANGED <<agent, run, body, found, reply, named, stale>>
  BY DEF Enqueue, Advance, Inv, TypeOK
<1>4. Rows' = Rows /\ (\A k : WithKey(k)' = WithKey(k))
  BY <1>3 DEF Rows, WithKey
<1> SUFFICES ASSUME NEW s \in Requests
             PROVE  HandlerInv(s)'
  OBVIOUS
<1>5. HandlerInv(s)
  BY DEF Inv
<1>6. InProgress(s)' /\ RowThenJob(s)' /\ StoredAsAsked(s)'
  BY <1>1, <1>2, <1>3, <1>4, <1>5 DEF JobData, HandlerInv, InProgress, RowThenJob, StoredAsAsked,
     InFlight, Handling
<1>7. AgentSeen(s)' /\ KeyTaken(s)'
  BY <1>3, <1>4, <1>5 DEF HandlerInv, AgentSeen, KeyTaken
<1>8. RepliedTruly(s)' /\ QueuedOrCutShort(s)'
  BY <1>2, <1>3, <1>4, <1>5 DEF HandlerInv, RepliedTruly, QueuedOrCutShort
<1> QED
  BY <1>6, <1>7, <1>8 DEF HandlerInv

LEMMA HandleInv ==
  ASSUME Inv, NEW r \in Requests, Handle(r)
  PROVE  \A s \in Requests : HandlerInv(s)'
<1>1. CASE AgentMissing(r)
  BY <1>1, AnswerInv DEF AgentMissing, InFlight, Handling
<1>2. CASE Respond(r)
  BY <1>2, AnswerInv DEF Respond, InFlight, Handling, Inv, HandlerInv, RowThenJob, KeyTaken
<1> QED
  BY <1>1, <1>2, ReadAgentInv, LookupKeyInv, InsertRunInv, EnqueueInv DEF Handle

(* The worker, and a client that cancels, change nothing but the status.   *)
LEMMA SetStatusInv ==
  ASSUME Inv, NEW r \in Requests, run[r] # None,
         NEW status \in {"queued", "running", "completed", "failed", "cancelled"},
         SetStatus(r, status)
  PROVE  \A s \in Requests : HandlerInv(s)'
<1>1. /\ run'[r] = [run[r] EXCEPT !.status = status]
      /\ \A s \in Requests \ {r} : run'[s] = run[s]
      /\ UNCHANGED <<agent, jobs, phase, body, found, reply, named, stale>>
  BY DEF SetStatus, Inv, TypeOK
<1>2. run[r] \in RunRow
  BY DEF Inv, TypeOK
<1>3. /\ [run[r] EXCEPT !.status = status].agent = run[r].agent
      /\ [run[r] EXCEPT !.status = status].workspace = run[r].workspace
      /\ [run[r] EXCEPT !.status = status].key = run[r].key
  BY <1>2 DEF RunRow
<1>4. [run[r] EXCEPT !.status = status] # None
  BY <1>2, RowFields DEF RunRow
<1>5. RowsStay /\ Rows' = Rows
  BY <1>1, <1>3, <1>4 DEF RowsStay, Rows
<1> SUFFICES ASSUME NEW s \in Requests
             PROVE  HandlerInv(s)'
  OBVIOUS
<1>6. /\ run[s] # None <=> run'[s] # None
      /\ run[s] # None => /\ run'[s].agent = run[s].agent
                          /\ run'[s].workspace = run[s].workspace
                          /\ run'[s].key = run[s].key
  BY <1>5 DEF RowsStay, Rows
<1>7. HandlerInv(s)
  BY DEF Inv
<1>8. InProgress(s)' /\ RowThenJob(s)' /\ StoredAsAsked(s)'
  BY <1>1, <1>5, <1>6, <1>7, KeysStay DEF HandlerInv, InProgress, RowThenJob, StoredAsAsked, InFlight,
     Handling
<1>9. AgentSeen(s)' /\ KeyTaken(s)'
  BY <1>1, <1>5, <1>6, <1>7, KeysStay DEF HandlerInv, AgentSeen, KeyTaken
<1>10. RepliedTruly(s)' /\ QueuedOrCutShort(s)'
  BY <1>1, <1>5, <1>6, <1>7, KeysStay DEF HandlerInv, RepliedTruly, QueuedOrCutShort
<1> QED
  BY <1>8, <1>9, <1>10 DEF HandlerInv

LEMMA CrashInv ==
  ASSUME Inv, Crash
  PROVE  \A s \in Requests : HandlerInv(s)'
<1>1. /\ \A s \in Requests : phase'[s] = IF InFlight(s) THEN "lost" ELSE phase[s]
      /\ UNCHANGED <<agent, run, jobs, body, found, reply, named, stale>>
  BY DEF Crash, stored
<1>2. Rows' = Rows /\ (\A k : WithKey(k)' = WithKey(k))
  BY <1>1 DEF Rows, WithKey
<1> SUFFICES ASSUME NEW s \in Requests
             PROVE  HandlerInv(s)'
  OBVIOUS
<1>3. HandlerInv(s)
  BY DEF Inv
<1> QED
  BY <1>1, <1>2, <1>3 DEF HandlerInv, InProgress, RowThenJob, StoredAsAsked, AgentSeen, KeyTaken,
     RepliedTruly, QueuedOrCutShort, InFlight, Handling

(* A deleted agent stays deleted.                                          *)
LEMMA AgentInv ==
  ASSUME Inv, NEW a \in Agents, CreateAgent(a) \/ DeleteAgent(a)
  PROVE  \A s \in Requests : HandlerInv(s)'
<1>1. /\ \A b \in Agents : agent[b] = "deleted" => agent'[b] = "deleted"
      /\ UNCHANGED <<run, jobs, phase, body, found, reply, named, stale>>
  BY DEF CreateAgent, DeleteAgent, Inv, TypeOK
<1>2. \A s \in Requests : body[s] # None => body[s].agent \in Agents
  BY BodyFields DEF Inv, TypeOK
<1> QED
  BY <1>1, <1>2 DEF Inv, HandlerInv, InProgress, RowThenJob, StoredAsAsked, AgentSeen, KeyTaken,
     RepliedTruly, QueuedOrCutShort, InFlight, WithKey, Rows

LEMMA InvStep == Inv /\ [Next]_vars => Inv'
<1> SUFFICES ASSUME Inv, [Next]_vars
             PROVE  \A s \in Requests : HandlerInv(s)'
  BY TypeStep DEF Inv
<1>1. ASSUME NEW r \in Requests, Refuse(r)
      PROVE  \A s \in Requests : HandlerInv(s)'
  <2>1. ~ stale[r].key
    BY <1>1 DEF Refuse, Inv, HandlerInv, InProgress
  <2> QED
    BY <1>1, <2>1, AnswerInv DEF Refuse
<1>2. ASSUME NEW r \in Requests, CallFails(r)
      PROVE  \A s \in Requests : HandlerInv(s)'
  BY <1>2, AnswerInv DEF CallFails
<1>3. ASSUME NEW r \in Requests, NEW w \in Workspaces, Cancel(r, w)
      PROVE  \A s \in Requests : HandlerInv(s)'
  BY <1>3, SetStatusInv DEF Cancel
<1>4. ASSUME NEW r \in Requests, WorkerStep(r)
      PROVE  \A s \in Requests : HandlerInv(s)'
  BY <1>4, SetStatusInv DEF WorkerStep, Inv, HandlerInv, StoredAsAsked
<1>5. CASE UNCHANGED vars
  BY <1>5 DEF vars, Inv, HandlerInv, InProgress, RowThenJob, StoredAsAsked, AgentSeen, KeyTaken,
     RepliedTruly, QueuedOrCutShort, InFlight, WithKey, Rows
<1> QED
  BY <1>1, <1>2, <1>3, <1>4, <1>5, ReceiveInv, HandleInv, CrashInv, AgentInv DEF Next

LEMMA Invariance == Spec => []Inv
BY InvInit, InvStep, PTL DEF Spec

-----------------------------------------------------------------------------
(* Every reachable state of the run routes is type correct.                *)
THEOREM TypeCorrect == Spec => []TypeOK
BY Invariance, PTL DEF Inv

(* No job without its run row, and both about the same agent: the insert   *)
(* comes before the queue, wherever errors and crashes stop the handler.   *)
THEOREM JobsAlwaysHaveRuns == Spec => []JobsHaveRuns
<1>1. Inv => JobsHaveRuns
  BY DEF Inv, HandlerInv, StoredAsAsked, JobsHaveRuns, Enqueued
<1> QED
  BY <1>1, Invariance, PTL

(* A request whose key is taken when it arrives starts nothing, and is     *)
(* told of a run under that key if of any.                                 *)
THEOREM KeyedRetriesAreInert == Spec => []KeyedRetryIsInert
<1>1. Inv => KeyedRetryIsInert
  BY DEF Inv, HandlerInv, KeyTaken, RepliedTruly, KeyedRetryIsInert
<1> QED
  BY <1>1, Invariance, PTL

(* A run belongs to an agent of its workspace that was not deleted when    *)
(* the run was asked for.                                                  *)
THEOREM RunsAreOfWorkspaceAgents == Spec => []RunsOfWorkspaceAgents
<1>1. Inv => RunsOfWorkspaceAgents
  BY DEF Inv, HandlerInv, AgentSeen, StoredAsAsked, RunsOfWorkspaceAgents, Rows
<1> QED
  BY <1>1, Invariance, PTL

(* A client is told only of runs that exist, and of one that is neither    *)
(* queued nor about to be only if its request was cut short.               *)
THEOREM OrphansAreInterrupted == Spec => []OrphansComeOfInterruptions
<1>1. Inv => OrphansComeOfInterruptions
  <2> SUFFICES ASSUME Inv, NEW r \in Requests, reply[r] \in {200, 202}
               PROVE  /\ named[r] \in Rows
                      /\ \/ Enqueued(named[r])
                         \/ reply[r] = 200 /\ phase[named[r]] = "enqueuing"
                         \/ reply[r] = 200 /\ Interrupted(named[r])
    BY DEF OrphansComeOfInterruptions
  <2>1. RepliedTruly(r) /\ StoredAsAsked(r)
    BY DEF Inv, HandlerInv
  <2>2. named[r] \in Requests /\ run[named[r]] # None /\ (reply[r] = 202 => jobs[named[r]] # None)
    BY <2>1 DEF RepliedTruly, StoredAsAsked, Rows
  <2>3. QueuedOrCutShort(named[r])
    BY <2>2 DEF Inv, HandlerInv
  <2> QED
    BY <2>2, <2>3 DEF QueuedOrCutShort, Rows, Enqueued, Interrupted
<1> QED
  BY <1>1, Invariance, PTL
=============================================================================
