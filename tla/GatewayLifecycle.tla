-------------------------- MODULE GatewayLifecycle --------------------------
(***************************************************************************)
(* The life of a gateway process: boot, plugin by plugin, requests passing *)
(* the authentication hooks into handlers, the lazily made queues, and the *)
(* graceful shutdown (apps/gateway/src/index.ts, config.ts, queue.ts,      *)
(* plugins/auth.ts, and the event stream of routes/runs.ts).               *)
(*                                                                         *)
(* A step is what runs between two awaits.  What a handler does with the   *)
(* rows is in Approvals, Runs and Webhooks; here it awaits the database,   *)
(* then, if it adds a job, the queue.  External: Fastify, which waits with *)
(* close() for the connections and not for the handlers, node and BullMQ.  *)
(***************************************************************************)
EXTENDS Naturals, Sequences

CONSTANTS
  Requests,   \* requests
  Tasks,      \* calls of shutdown: one for each signal that is handled
  Reach,      \* may the decorators of a plugin reach those registered after it?
  Faults      \* may configuration, database, queue and network calls fail?

ASSUME ReachAssumption == Reach \subseteq BOOLEAN

ASSUME FaultsAssumption == Faults \in BOOLEAN

VARIABLES
  main,      \* where main stands
  plugins,   \* number of plugins that are registered
  reach,     \* do decorators reach later plugins?
  exit,      \* how the process ended, "no" as long as it runs
  handler,   \* where the handler of each request stands
  client,    \* is the client of each request connected?
  queue,     \* the queue object: "none", "open" or "closing"
  task,      \* where each call of shutdown stands
  faulted    \* history: a call failed

requests == <<handler, client>>
boot == <<main, plugins, reach>>
vars == <<boot, exit, requests, queue, task, faulted>>

-----------------------------------------------------------------------------
Plugins == <<"helmet", "cors", "rateLimit", "auth", "health", "agents", "runs",
             "approvals", "webhooks", "telegram", "discord", "whatsapp">>

(* These use fastify.authenticate and fastify.requireRole as they register.*)
UsesDecorators == {"agents", "runs", "approvals"}

Init ==
  /\ main = "configuring"
  /\ plugins = 0
  /\ reach \in Reach
  /\ exit = "no"
  /\ handler = [r \in Requests |-> "none"]
  /\ client = [r \in Requests |-> "absent"]
  /\ queue = "none"
  /\ task = [t \in Tasks |-> "idle"]
  /\ faulted = FALSE

Running == exit = "no"

Stopping == \E t \in Tasks : task[t] # "idle"

Connected(r) == client[r] = "connected"

-----------------------------------------------------------------------------
(* Boot.                                                                   *)

(* main().catch                                                            *)
Fatal ==
  /\ exit' = "one"
  /\ UNCHANGED <<boot, requests, queue, task>>

Fault ==
  /\ Faults
  /\ faulted' = TRUE

Proceed(from, to) ==
  /\ Running
  /\ main = from
  /\ main' = to
  /\ UNCHANGED <<plugins, reach, exit, requests, queue, task, faulted>>

LoadConfig == Proceed("configuring", "migrating")

RunMigrations == Proceed("migrating", "building")

(* A plugin that finds a decorator missing throws as it registers.         *)
Register ==
  /\ Running
  /\ main = "building"
  /\ plugins < Len(Plugins)
  /\ IF Plugins[plugins + 1] \in UsesDecorators /\ ~ reach
     THEN Fatal
     ELSE /\ plugins' = plugins + 1
          /\ UNCHANGED <<main, reach, exit, requests, queue, task>>
  /\ UNCHANGED faulted

(* Mutant: the registrations are not awaited.                              *)
InstallHandlersEarly == Proceed("building", "binding")

(* The signal handlers are installed and listen is called, in one go.      *)
InstallHandlers ==
  /\ plugins = Len(Plugins)
  /\ Proceed("building", "binding")

Listen == Proceed("binding", "up")

(* Any awaited call of main may be rejected; listen also by a close that   *)
(* overtakes it.                                                           *)
BootFails ==
  /\ Running
  /\ main # "up"
  /\ Fatal
  /\ IF main = "binding" /\ Stopping
     THEN UNCHANGED faulted
     ELSE Fault

-----------------------------------------------------------------------------
(* Requests.                                                               *)

Roles == {"admin", "developer", "operator", "readonly"}

(* Who gets past the hooks of a route.  Webhooks and health check no token.*)
ReaderRoles == Roles
StartRunRoles == Roles
CreateAgentRoles == {"admin", "developer"}
UpdateAgentRoles == {"admin", "developer"}
DeleteAgentRoles == {"admin"}
CancelRunRoles == {"admin", "developer", "operator"}
DecideRoles == {"admin", "developer", "operator"}
Anyone == Roles \cup {"anonymous"}

(* By what their handlers do: await the database; add a job after that;    *)
(* hold an event stream.                                                   *)
Routes ==
  [database |-> {ReaderRoles, CreateAgentRoles, UpdateAgentRoles,
                 DeleteAgentRoles, CancelRunRoles, DecideRoles, Anyone},
   recording |-> {StartRunRoles, Anyone},
   streaming |-> {ReaderRoles}]

(* authenticate answers 401 to "anonymous", requireRole 403 to other roles.*)
Admitted(caller, allowed) == caller \in allowed

Move(r, where, connection) ==
  /\ Running
  /\ handler' = [handler EXCEPT ![r] = where]
  /\ client' = [client EXCEPT ![r] = connection]
  /\ UNCHANGED <<boot, exit, task>>

Accepting == main = "up" /\ ~ Stopping

Arrive(r) ==
  /\ Accepting
  /\ handler[r] = "none"
  /\ \E kind \in DOMAIN Routes : \E allowed \in Routes[kind], caller \in Anyone :
        IF Admitted(caller, allowed)
        THEN Move(r, kind, "connected")
        ELSE Move(r, "done", "answered")
  /\ UNCHANGED <<queue, faulted>>

Reply(r) == Move(r, "done", IF Connected(r) THEN "answered" ELSE client[r])

DatabaseAnswers(r) ==
  /\ handler[r] = "database"
  /\ Reply(r)
  /\ UNCHANGED <<queue, faulted>>

(* The row is there; the handler goes on to the queue.                     *)
Recorded(r) ==
  /\ handler[r] = "recording"
  /\ Move(r, "adding", client[r])
  /\ UNCHANGED <<queue, faulted>>

(* getAgentRunsQueue, getWebhookQueue                                      *)
GetQueue == queue' = IF queue = "none" THEN "open" ELSE queue

(* A queue that is closing takes no job any more.                          *)
AddJob(r) ==
  /\ handler[r] = "adding"
  /\ GetQueue
  /\ IF queue = "closing" THEN Move(r, "unqueued", client[r]) ELSE Reply(r)
  /\ UNCHANGED faulted

CallFails(r) ==
  /\ handler[r] \in {"database", "recording", "adding"}
  /\ Reply(r)
  /\ Fault
  /\ UNCHANGED queue

(* The client goes away.  A stream ends with it, its ping is cleared; any  *)
(* other handler goes on.                                                  *)
Leave(r) ==
  /\ Connected(r)
  /\ Move(r, IF handler[r] = "streaming" THEN "done" ELSE handler[r], "gone")
  /\ UNCHANGED <<queue, faulted>>

-----------------------------------------------------------------------------
(* Shutdown.                                                               *)

Shutdown(t, from, to) ==
  /\ Running
  /\ task[t] = from
  /\ task' = [task EXCEPT ![t] = to]
  /\ UNCHANGED <<boot, requests, faulted>>

(* Mutant: the signal handlers are installed before the server is built.   *)
HandledFromTheStart == TRUE

SignalsHandled == main \in {"binding", "up"}

(* SIGTERM or SIGINT, once there is a handler for it: fastify.close stops  *)
(* the listening and refuses further requests.  Before that it kills.      *)
Signal(t) ==
  /\ Running
  /\ task[t] = "idle"
  /\ IF SignalsHandled
     THEN Shutdown(t, "idle", "draining") /\ UNCHANGED exit
     ELSE exit' = "killed" /\ UNCHANGED <<boot, requests, task, faulted>>
  /\ UNCHANGED queue

(* Mutants: closing the server is not awaited; it waits for connections    *)
(* that are idle as well.                                                  *)
DrainedAtOnce == main # "binding"

DrainedWhenUntouched ==
  /\ main # "binding"
  /\ \A r \in Requests : client[r] \in {"absent", "gone"}

(* fastify.close has come back: no connection is left.                     *)
Drained ==
  /\ main # "binding"
  /\ \A r \in Requests : ~ Connected(r)

CloseQueues(t) ==
  /\ Drained
  /\ Shutdown(t, "draining", "closing")
  /\ queue' = IF queue = "open" THEN "closing" ELSE queue
  /\ UNCHANGED exit

(* closeQueues has come back: closeDatabase, process.exit(0).              *)
Finish(t) ==
  /\ Shutdown(t, "closing", "finished")
  /\ exit' = "zero"
  /\ UNCHANGED queue

(* A rejection that nothing handles ends the process.                      *)
CloseFails(t) ==
  /\ Running
  /\ task[t] = "closing"
  /\ Fatal
  /\ Fault

(* External: a crash, or SIGKILL when the grace period is over.            *)
Kill ==
  /\ Running
  /\ Fault
  /\ exit' = "killed"
  /\ UNCHANGED <<boot, requests, queue, task>>

-----------------------------------------------------------------------------
BootStep ==
  LoadConfig \/ RunMigrations \/ Register \/ InstallHandlers \/ Listen

HandlerStep(r) == DatabaseAnswers(r) \/ Recorded(r) \/ AddJob(r)

ShutdownStep(t) == CloseQueues(t) \/ Finish(t)

Next ==
  \/ BootStep \/ BootFails \/ Kill
  \/ \E r \in Requests : Arrive(r) \/ HandlerStep(r) \/ CallFails(r) \/ Leave(r)
  \/ \E t \in Tasks : Signal(t) \/ ShutdownStep(t) \/ CloseFails(t)

Spec == Init /\ [][Next]_vars

(* The event loop runs what was awaited and has come back, and database,   *)
(* queue and network answer or fail.  Nobody has to send a request or a    *)
(* signal, or to leave.                                                    *)
FairSpec ==
  /\ Spec
  /\ WF_vars(BootStep)
  /\ \A r \in Requests : WF_vars(HandlerStep(r))
  /\ \A t \in Tasks : WF_vars(ShutdownStep(t))

-----------------------------------------------------------------------------
(* Type correctness; and the signal handlers and the socket are there only *)
(* when all plugins are.                                                   *)
TypeOK ==
  /\ main \in {"configuring", "migrating", "building", "binding", "up"}
  /\ plugins \in 0..Len(Plugins)
  /\ main \in {"binding", "up"} => plugins = Len(Plugins)
  /\ reach \in BOOLEAN
  /\ exit \in {"no", "zero", "one", "killed"}
  /\ handler \in [Requests -> {"none", "database", "recording", "adding", "streaming", "unqueued", "done"}]
  /\ client \in [Requests -> {"absent", "connected", "answered", "gone"}]
  /\ queue \in {"none", "open", "closing"}
  /\ task \in [Tasks -> {"idle", "draining", "closing", "finished"}]
  /\ faulted \in BOOLEAN

(* A graceful shutdown costs no client that stays its answer: what it cuts *)
(* off, or leaves with a row and no job because the queue is closing, is a *)
(* request whose client had left, for whose handler nothing waits.         *)
OnlyTheAbandonedAreCutOff ==
  \A r \in Requests :
     handler[r] = "unqueued" \/ (exit = "zero" /\ handler[r] \notin {"none", "done"})
        => client[r] = "gone"

(* The exit code tells: it is 1 only if a call failed, a plugin found its  *)
(* decorators missing, or a signal came before the socket was bound; and   *)
(* it is 0 only after a signal to a gateway with all of its plugins.       *)
ExitCodesTell ==
  /\ exit = "one" => faulted \/ ~ reach \/ (main = "binding" /\ Stopping)
  /\ exit = "zero" => Stopping /\ plugins = Len(Plugins)

(* Only an event stream can hold up a shutdown for good: every other       *)
(* request comes to its end, and no new ones are taken.                    *)
OnlyStreamsHoldUpShutdown ==
  <>[](Stopping /\ Running) =>
     <>[](\E r \in Requests : handler[r] = "streaming" /\ Connected(r))

-----------------------------------------------------------------------------
(* What index.ts and plugins/auth.ts say: the server boots with JWT auth,  *)
(* RBAC and all route plugins, for which the auth plugin "provides         *)
(* authenticate() and requireRole() decorators".                           *)
BootsUnlessSomethingFails == exit = "one" => faulted
=============================================================================
