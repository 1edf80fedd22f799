-------------------------------- MODULE Runs --------------------------------
(***************************************************************************)
(* Starting and cancelling agent runs (apps/gateway/src/routes/runs.ts)    *)
(* against creation and deletion of agents (routes/agents.ts), the runs    *)
(* table and the agent-runs queue (queue.ts).                              *)
(*                                                                         *)
(* A start handler is one action per call it awaits, as in Approvals; the  *)
(* handlers with a single database call are one action each.  A request r  *)
(* that gets so far creates the run it is the name of: runId is a fresh    *)
(* UUID.  The worker that consumes the queue is outside the repository and *)
(* appears only as the steps a run's status takes through its hands.       *)
(***************************************************************************)
EXTENDS Naturals

CONSTANTS
  Agents,       \* agent ids
  Workspaces,   \* workspace ids
  Requests,     \* requests to start a run
  Keys,         \* idempotency keys
  None,         \* null or undefined
  HomeOf,       \* column workspaceId of the agents
  Faults        \* may database and queue calls fail and the process crash?

ASSUME HomeAssumption == HomeOf \in [Agents -> Workspaces]

ASSUME FaultsAssumption == Faults \in BOOLEAN

(* Bodies the input schema accepts, with the ids of the path; the task and *)
(* the context play no part in the control.                                *)
Body == [agent : Agents, workspace : Workspaces, key : Keys \cup {None}]

RunRow == [agent : Agents, workspace : Workspaces, key : Keys \cup {None},
           status : {"queued", "running", "completed", "failed", "cancelled"}]

Job == [agent : Agents, workspace : Workspaces]

ASSUME NoneAssumption == None \notin Keys \cup Requests \cup Body \cup RunRow \cup Job

VARIABLES
  agent,     \* agent rows: "absent", "present" or "deleted"
  run,       \* run rows, None while there is none
  jobs,      \* the job data in the queue, by jobId; kept after completion
  phase,     \* where the handler of each request stands
  body,      \* what each request asks for, None before it arrives
  found,     \* the handler's constant "existing", None if there is none
  reply,     \* status code sent, 0 as long as there is none
  named,     \* the runId of the reply
  stale      \* history: what was so already when the request arrived

vars == <<agent, run, jobs, phase, body, found, reply, named, stale>>

stored == <<agent, run, jobs>>

-----------------------------------------------------------------------------
Rows == {r \in Requests : run[r] # None}

WithKey(k) == {r \in Rows : run[r].key = k}

(* Mutant: the row starts in the status approvals start in.                *)
PendingRunRow(r) ==
  [agent |-> body[r].agent, workspace |-> body[r].workspace,
   key |-> body[r].key, status |-> "pending"]

QueuedRow(r) ==
  [agent |-> body[r].agent, workspace |-> body[r].workspace,
   key |-> body[r].key, status |-> "queued"]

JobData(r) == [agent |-> body[r].agent, workspace |-> body[r].workspace]

Init ==
  /\ agent = [a \in Agents |-> "absent"]
  /\ run = [r \in Requests |-> None]
  /\ jobs = [r \in Requests |-> None]
  /\ phase = [r \in Requests |-> "new"]
  /\ body = [r \in Requests |-> None]
  /\ found = [r \in Requests |-> None]
  /\ reply = [r \in Requests |-> 0]
  /\ named = [r \in Requests |-> None]
  /\ stale = [r \in Requests |-> [key |-> FALSE, agent |-> FALSE]]

Handling == {"readingAgent", "lookingUpKey", "inserting", "enqueuing", "responding"}

InFlight(r) == phase[r] \in Handling

Advance(r, next) ==
  /\ phase' = [phase EXCEPT ![r] = next]
  /\ UNCHANGED <<body, reply, named, stale>>

Answer(r, code, id) ==
  /\ phase' = [phase EXCEPT ![r] = "done"]
  /\ reply' = [reply EXCEPT ![r] = code]
  /\ named' = [named EXCEPT ![r] = id]
  /\ UNCHANGED <<stored, body, found, stale>>

-----------------------------------------------------------------------------
(* Starting a run.                                                         *)

Refuse(r) ==
  /\ phase[r] = "new"
  /\ \E code \in {400, 401} : Answer(r, code, None)

Receive(r) ==
  /\ phase[r] = "new"
  /\ \E b \in Body :
        /\ body' = [body EXCEPT ![r] = b]
        /\ stale' = [stale EXCEPT ![r] =
              [key |-> b.key # None /\ WithKey(b.key) # {},
               agent |-> agent[b.agent] = "deleted"]]
  /\ phase' = [phase EXCEPT ![r] = "readingAgent"]
  /\ UNCHANGED <<stored, found, reply, named>>

(* Mutant: the agent is looked up by its id alone.                         *)
AgentKnownAnywhere(r) == agent[body[r].agent] = "present"

(* The agent of the path must exist in the workspace of the path.          *)
AgentKnown(r) ==
  /\ agent[body[r].agent] = "present"
  /\ HomeOf[body[r].agent] = body[r].workspace

AgentMissing(r) ==
  /\ phase[r] = "readingAgent"
  /\ ~ AgentKnown(r)
  /\ Answer(r, 404, None)

ReadAgent(r) ==
  /\ phase[r] = "readingAgent"
  /\ AgentKnown(r)
  /\ Advance(r, IF body[r].key = None THEN "inserting" ELSE "lookingUpKey")
  /\ UNCHANGED <<stored, found>>

(* Mutants: the lookup disregards finished and cancelled runs; the job is  *)
(* enqueued before the row is inserted.                                    *)
LookupActiveKey(r) ==
  LET active == {x \in WithKey(body[r].key) : run[x].status \in {"queued", "running"}}
  IN  /\ phase[r] = "lookingUpKey"
      /\ IF active = {}
         THEN UNCHANGED found
         ELSE \E x \in active : found' = [found EXCEPT ![r] = x]
      /\ Advance(r, IF active = {} THEN "inserting" ELSE "responding")
      /\ UNCHANGED stored

LookupKeyThenEnqueue(r) ==
  /\ phase[r] = "lookingUpKey"
  /\ IF WithKey(body[r].key) = {}
     THEN UNCHANGED found
     ELSE \E x \in WithKey(body[r].key) : found' = [found EXCEPT ![r] = x]
  /\ Advance(r, IF WithKey(body[r].key) = {} THEN "enqueuing" ELSE "responding")
  /\ UNCHANGED stored

(* The lookup is by the key alone; if several rows match, the first one    *)
(* the database returns is taken.                                          *)
LookupKey(r) ==
  /\ phase[r] = "lookingUpKey"
  /\ IF WithKey(body[r].key) = {}
     THEN UNCHANGED found
     ELSE \E x \in WithKey(body[r].key) : found' = [found EXCEPT ![r] = x]
  /\ Advance(r, IF WithKey(body[r].key) = {} THEN "inserting" ELSE "responding")
  /\ UNCHANGED stored

(* Mutant: the reply does not wait for the job.                            *)
InsertRunOnly(r) ==
  /\ phase[r] = "inserting"
  /\ run' = [run EXCEPT ![r] = QueuedRow(r)]
  /\ Advance(r, "responding")
  /\ UNCHANGED <<agent, jobs, found>>

InsertRun(r) ==
  /\ phase[r] = "inserting"
  /\ run' = [run EXCEPT ![r] = QueuedRow(r)]
  /\ Advance(r, "enqueuing")
  /\ UNCHANGED <<agent, jobs, found>>

Enqueue(r) ==
  /\ phase[r] = "enqueuing"
  /\ jobs' = [jobs EXCEPT ![r] = JobData(r)]
  /\ Advance(r, "responding")
  /\ UNCHANGED <<agent, run, found>>

Respond(r) ==
  /\ phase[r] = "responding"
  /\ IF found[r] = None THEN Answer(r, 202, r) ELSE Answer(r, 200, found[r])

(* The awaited call is rejected, before it took effect or (in the phase    *)
(* that follows) after it did.                                             *)
CallFails(r) ==
  /\ Faults
  /\ InFlight(r)
  /\ Answer(r, 500, None)

Crash ==
  /\ Faults
  /\ \E r \in Requests : InFlight(r)
  /\ phase' = [r \in Requests |-> IF InFlight(r) THEN "lost" ELSE phase[r]]
  /\ UNCHANGED <<stored, body, found, reply, named, stale>>

Handle(r) ==
  \/ AgentMissing(r) \/ ReadAgent(r) \/ LookupKey(r) \/ InsertRun(r)
  \/ Enqueue(r) \/ Respond(r)

-----------------------------------------------------------------------------
(* Requests with a single database call, and the worker.                   *)

CreateAgent(a) ==
  /\ agent[a] = "absent"
  /\ agent' = [agent EXCEPT ![a] = "present"]
  /\ UNCHANGED <<run, jobs, phase, body, found, reply, named, stale>>

DeleteAgent(a) ==
  /\ agent[a] = "present"
  /\ agent' = [agent EXCEPT ![a] = "deleted"]
  /\ UNCHANGED <<run, jobs, phase, body, found, reply, named, stale>>

SetStatus(r, status) ==
  /\ run' = [run EXCEPT ![r].status = status]
  /\ UNCHANGED <<agent, jobs, phase, body, found, reply, named, stale>>

(* The update matches the run and the workspace of the path and nothing    *)
(* else; a path that matches no row is answered 404 and changes nothing.   *)
Cancel(r, w) ==
  /\ run[r] # None
  /\ run[r].workspace = w
  /\ SetStatus(r, "cancelled")

(* External: a worker takes the job of a queued run, and finishes it.      *)
WorkerStep(r) ==
  /\ jobs[r] # None
  /\ \/ run[r].status = "queued" /\ SetStatus(r, "running")
     \/ run[r].status = "running" /\ \E s \in {"completed", "failed"} : SetStatus(r, s)

Next ==
  \/ \E r \in Requests : Refuse(r) \/ Receive(r) \/ Handle(r) \/ CallFails(r)
  \/ Crash
  \/ \E a \in Agents : CreateAgent(a) \/ DeleteAgent(a)
  \/ \E r \in Requests, w \in Workspaces : Cancel(r, w)
  \/ \E r \in Requests : WorkerStep(r)

Spec == Init /\ [][Next]_vars

(* The event loop runs every handler whose awaited call has come back, and *)
(* database and queue answer every call or report an error.                *)
FairSpec == Spec /\ \A r \in Requests : WF_vars(Handle(r))

-----------------------------------------------------------------------------
(* Type correctness of the tables, the queue and the handlers' state.      *)
TypeOK ==
  /\ agent \in [Agents -> {"absent", "present", "deleted"}]
  /\ run \in [Requests -> RunRow \cup {None}]
  /\ jobs \in [Requests -> Job \cup {None}]
  /\ phase \in [Requests -> Handling \cup {"new", "done", "lost"}]
  /\ body \in [Requests -> Body \cup {None}]
  /\ found \in [Requests -> Requests \cup {None}]
  /\ reply \in [Requests -> {0, 200, 202, 400, 401, 404, 500}]
  /\ named \in [Requests -> Requests \cup {None}]
  /\ stale \in [Requests -> [key : BOOLEAN, agent : BOOLEAN]]

-----------------------------------------------------------------------------
(* Safety, whatever overlaps, fails or crashes.                            *)

Enqueued(r) == jobs[r] # None

(* The handler did not get to its end.                                     *)
Interrupted(r) == phase[r] = "lost" \/ reply[r] = 500

(* A worker never gets a job for which there is no run row, nor one that   *)
(* names another agent or workspace than the row does: the insert comes    *)
(* first, so a crash leaves a row without a job and not the reverse.       *)
JobsHaveRuns ==
  \A r \in Requests : Enqueued(r) =>
     /\ run[r] # None
     /\ run[r].agent = jobs[r].agent
     /\ run[r].workspace = jobs[r].workspace

(* A keyed request that arrives when a run with its key exists creates no  *)
(* second one and is told of none but such a run, whatever has become of   *)
(* the run and even if its job never made it to the queue.  So requests    *)
(* under one key that do not overlap are about one run.                    *)
KeyedRetryIsInert ==
  \A r \in Requests : stale[r].key =>
     /\ run[r] = None /\ jobs[r] = None
     /\ reply[r] # 202
     /\ reply[r] = 200 => run[named[r]].key = body[r].key

(* A request that arrives after its agent was deleted starts nothing, and  *)
(* no run belongs to an agent of another workspace than its own.           *)
RunsOfWorkspaceAgents ==
  \A r \in Rows : ~ stale[r].agent /\ HomeOf[run[r].agent] = run[r].workspace

(* Every reply names a run that exists; "202 queued" is said only of a run *)
(* whose job is in the queue; and a client is told of a run whose job is   *)
(* neither there nor about to be put there only if the request that made   *)
(* the run was cut short by an error or a crash.                           *)
OrphansComeOfInterruptions ==
  \A r \in Requests : reply[r] \in {200, 202} =>
     /\ named[r] \in Rows
     /\ \/ Enqueued(named[r])
        \/ reply[r] = 200 /\ phase[named[r]] = "enqueuing"
        \/ reply[r] = 200 /\ Interrupted(named[r])

(* Every run that is recorded reaches the queue, unless the request that   *)
(* made it was cut short.                                                  *)
RunsReachTheQueue ==
  \A r \in Requests : run[r] # None ~> Enqueued(r) \/ Interrupted(r)

-----------------------------------------------------------------------------
(* What the routes are documented to do, and do not always.                *)

(* A request that is told of a run is told of one of its own agent.        *)
RepliedRunsAreOwn ==
  \A r \in Requests : reply[r] \in {200, 202} =>
     /\ run[named[r]].agent = body[r].agent
     /\ run[named[r]].workspace = body[r].workspace
=============================================================================
