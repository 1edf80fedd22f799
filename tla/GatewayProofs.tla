---------------------------- MODULE GatewayProofs ----------------------------
(***************************************************************************)
(* Proofs about GatewayLifecycle, for any requests and any number of       *)
(* signals: the type invariant, what a graceful shutdown leaves behind and *)
(* what the exit code tells.                                               *)
(***************************************************************************)
EXTENDS GatewayLifecycle, TLAPS

(* A shutdown starts from a signal handler, and these come with the whole  *)
(* of the server.                                                          *)
StoppingIsHandled == Stopping => main \in {"binding", "up"}

(* A shutdown past the draining; what it does cannot be undone.            *)
PastDraining == \E t \in Tasks : task[t] \in {"closing", "finished"}

(* From then on no connection is left, and none comes: nothing is accepted *)
(* once a shutdown has started.                                            *)
NobodyConnected ==
  queue = "closing" \/ PastDraining \/ exit = "zero" =>
     Stopping /\ \A r \in Requests : ~ Connected(r)

(* A handler that is at work has a client, or had one that went away.      *)
HandlersHaveClients ==
  \A r \in Requests :
     handler[r] \notin {"none", "done"} => client[r] \in {"connected", "gone"}

UnqueuedIsGone == \A r \in Requests : handler[r] = "unqueued" => client[r] = "gone"

OneTells == exit = "one" => faulted \/ ~ reach \/ (main = "binding" /\ Stopping)

Inv ==
  /\ TypeOK
  /\ StoppingIsHandled
  /\ NobodyConnected
  /\ HandlersHaveClients
  /\ UnqueuedIsGone
  /\ OneTells

-----------------------------------------------------------------------------
LEMMA PluginsCount == Len(Plugins) = 12
BY DEF Plugins

LEMMA InvInit == Init => Inv
<1> SUFFICES ASSUME Init
             PROVE  Inv
  OBVIOUS
<1>1. plugins \in 0..Len(Plugins)
  BY PluginsCount DEF Init
<1>2. reach \in BOOLEAN /\ faulted \in BOOLEAN
  BY ReachAssumption DEF Init
<1>3. TypeOK
  BY <1>1, <1>2, Zenon DEF Init, TypeOK
<1>4. ~ Stopping /\ ~ PastDraining
  BY DEF Init, Stopping, PastDraining
<1> QED
  BY <1>3, <1>4 DEF Init, Inv, StoppingIsHandled, NobodyConnected, HandlersHaveClients,
                    UnqueuedIsGone, OneTells

(* A request moves on, or its client does.                                 *)
LEMMA MoveInv ==
  ASSUME Inv, NEW r \in Requests,
         NEW where \in {"none", "database", "recording", "adding", "streaming", "unqueued", "done"},
         NEW connection \in {"absent", "connected", "answered", "gone"},
         Move(r, where, connection),
         queue' \in {"none", "open", "closing"}, queue' = "closing" => queue = "closing",
         faulted' \in BOOLEAN,
         connection = "connected" => Connected(r) \/ Accepting,
         where \notin {"none", "done"} => connection \in {"connected", "gone"},
         where = "unqueued" => connection = "gone"
  PROVE  Inv'
<1>1. /\ exit = "no"
      /\ UNCHANGED <<main, plugins, reach, exit, task>>
  BY DEF Move, Running, boot
<1>2. /\ handler' \in [Requests -> {"none", "database", "recording", "adding", "streaming", "unqueued", "done"}]
      /\ client' \in [Requests -> {"absent", "connected", "answered", "gone"}]
      /\ handler'[r] = where /\ client'[r] = connection
      /\ \A s \in Requests \ {r} : handler'[s] = handler[s] /\ client'[s] = client[s]
  BY DEF Move, Inv, TypeOK
<1>3. TypeOK'
  BY <1>1, <1>2, Zenon DEF Inv, TypeOK
<1>4. Stopping' = Stopping /\ PastDraining' = PastDraining
  BY <1>1 DEF Stopping, PastDraining
<1>5. NobodyConnected'
  BY <1>1, <1>2, <1>4 DEF Inv, NobodyConnected, Connected, Accepting
<1>6. HandlersHaveClients' /\ UnqueuedIsGone'
  BY <1>2 DEF Inv, HandlersHaveClients, UnqueuedIsGone
<1>7. StoppingIsHandled' /\ OneTells'
  BY <1>1, <1>4 DEF Inv, StoppingIsHandled, OneTells
<1> QED
  BY <1>3, <1>5, <1>6, <1>7 DEF Inv

(* The process ends, but for a graceful shutdown that ran through.         *)
LEMMA EndInv ==
  ASSUME Inv, exit' \in {"one", "killed"},
         UNCHANGED <<main, plugins, reach, handler, client, queue, task>>,
         faulted' \in BOOLEAN,
         exit' = "one" => faulted' \/ ~ reach \/ (main = "binding" /\ Stopping)
  PROVE  Inv'
<1>1. TypeOK'
  BY Zenon DEF Inv, TypeOK
<1>2. Stopping' = Stopping /\ PastDraining' = PastDraining
  BY DEF Stopping, PastDraining
<1>3. StoppingIsHandled' /\ OneTells'
  BY <1>2, Zenon DEF Inv, StoppingIsHandled, OneTells
<1>4. NobodyConnected'
  BY <1>2 DEF Inv, NobodyConnected, Connected
<1>5. HandlersHaveClients' /\ UnqueuedIsGone'
  BY DEF Inv, HandlersHaveClients, UnqueuedIsGone
<1> QED
  BY <1>1, <1>3, <1>4, <1>5 DEF Inv

-----------------------------------------------------------------------------
(* Every step keeps the invariant.                                         *)

(* main goes on, which it never does to where no signal is handled.        *)
LEMMA MainInv ==
  ASSUME Inv, Running,
         main' \in {"configuring", "migrating", "building", "binding", "up"},
         plugins' \in 0..Len(Plugins),
         main' \in {"binding", "up"} => plugins' = Len(Plugins),
         main \in {"binding", "up"} => main' \in {"binding", "up"},
         UNCHANGED <<reach, exit, handler, client, queue, task, faulted>>
  PROVE  Inv'
<1>1. exit = "no" /\ exit' = "no"
  BY DEF Running
<1>2. TypeOK'
  BY Zenon DEF Inv, TypeOK
<1>3. Stopping' = Stopping /\ PastDraining' = PastDraining
  BY DEF Stopping, PastDraining
<1>4. StoppingIsHandled' /\ OneTells'
  BY <1>1, <1>3 DEF Inv, StoppingIsHandled, OneTells
<1>5. NobodyConnected' /\ HandlersHaveClients' /\ UnqueuedIsGone'
  BY <1>3 DEF Inv, NobodyConnected, Connected, HandlersHaveClients, UnqueuedIsGone
<1> QED
  BY <1>2, <1>4, <1>5 DEF Inv

LEMMA BootStepInv ==
  ASSUME Inv, BootStep
  PROVE  Inv'
<1>1. /\ plugins \in 0..Len(Plugins) /\ Len(Plugins) \in Nat
      /\ main \in {"binding", "up"} => plugins = Len(Plugins)
  BY PluginsCount DEF Inv, TypeOK
<1>2. ASSUME NEW from, NEW to \in {"migrating", "building", "binding", "up"},
             Proceed(from, to), from \notin {"binding", "up"} \/ to = "up",
             to \in {"binding", "up"} => plugins = Len(Plugins)
      PROVE  Inv'
  <2>1. main = from /\ main' = to /\ UNCHANGED <<plugins, reach, exit, handler, client, queue, task, faulted>>
    BY <1>2 DEF Proceed, requests
  <2> QED
    BY <1>1, <1>2, <2>1, MainInv DEF Proceed
<1>3. CASE LoadConfig
  BY <1>2, <1>3 DEF LoadConfig
<1>4. CASE RunMigrations
  BY <1>2, <1>4 DEF RunMigrations
<1>5. CASE InstallHandlers
  BY <1>2, <1>5 DEF InstallHandlers
<1>6. CASE Listen
  <2>1. plugins = Len(Plugins)
    BY <1>1, <1>6 DEF Listen, Proceed
  <2> QED
    BY <1>2, <1>6, <2>1 DEF Listen
<1>7. CASE Register
  <2>1. Running /\ main = "building" /\ plugins < Len(Plugins) /\ UNCHANGED faulted
    BY <1>7 DEF Register
  <2>2. CASE ~ reach /\ Fatal
    <3>1. exit' = "one" /\ UNCHANGED <<main, plugins, reach, handler, client, queue, task>>
      BY <2>2 DEF Fatal, boot, requests
    <3>2. faulted' \in BOOLEAN
      BY <2>1 DEF Inv, TypeOK
    <3> QED
      BY <2>2, <3>1, <3>2, EndInv
  <2>3. CASE /\ plugins' = plugins + 1
             /\ UNCHANGED <<main, reach, exit, requests, queue, task>>
    <3>1. plugins' \in 0..Len(Plugins)
      BY <1>1, <2>1, <2>3
    <3>2. UNCHANGED <<main, reach, exit, handler, client, queue, task, faulted>>
      BY <2>1, <2>3 DEF requests
    <3>3. main' \notin {"binding", "up"} /\ main' \in {"configuring", "migrating", "building", "binding", "up"}
      BY <2>1, <3>2
    <3> QED
      BY <2>1, <3>1, <3>2, <3>3, MainInv
  <2> QED
    BY <1>7, <2>2, <2>3 DEF Register
<1> QED
  BY <1>3, <1>4, <1>5, <1>6, <1>7 DEF BootStep

LEMMA FailureInv ==
  ASSUME Inv, BootFails \/ Kill \/ \E t \in Tasks : CloseFails(t)
  PROVE  Inv'
<1>1. /\ exit' \in {"one", "killed"}
      /\ UNCHANGED <<main, plugins, reach, handler, client, queue, task>>
  BY DEF BootFails, Kill, CloseFails, Fatal, boot, requests
<1>2. faulted' = TRUE \/ (faulted' = faulted /\ main = "binding" /\ Stopping)
  BY Zenon DEF BootFails, Kill, CloseFails, Fault
<1>3. faulted' \in BOOLEAN
  BY <1>2 DEF Inv, TypeOK
<1> QED
  BY <1>1, <1>2, <1>3, EndInv

LEMMA ArriveInv ==
  ASSUME Inv, NEW r \in Requests, Arrive(r)
  PROVE  Inv'
<1>1. /\ Accepting
      /\ queue' \in {"none", "open", "closing"} /\ queue' = queue
  BY DEF Arrive, Inv, TypeOK
<1>2. faulted' \in BOOLEAN
  BY DEF Arrive, Inv, TypeOK
<1>3. \/ \E kind \in {"database", "recording", "streaming"} : Move(r, kind, "connected")
      \/ Move(r, "done", "answered")
  BY DEF Arrive, Routes
<1>4. ASSUME NEW kind \in {"database", "recording", "streaming"}, Move(r, kind, "connected")
      PROVE  Inv'
  BY <1>1, <1>2, <1>4, MoveInv
<1>5. CASE Move(r, "done", "answered")
  BY <1>1, <1>2, <1>5, MoveInv
<1> QED
  BY <1>3, <1>4, <1>5

(* A handler that is through answers its client, if it is still there.     *)
LEMMA ReplyInv ==
  ASSUME Inv, NEW r \in Requests, Reply(r),
         queue' \in {"none", "open", "closing"}, queue' = "closing" => queue = "closing",
         faulted' \in BOOLEAN
  PROVE  Inv'
<1> DEFINE connection == IF Connected(r) THEN "answered" ELSE client[r]
<1>1. connection \in {"absent", "connected", "answered", "gone"} /\ connection # "connected"
  BY DEF Inv, TypeOK, Connected
<1>2. Move(r, "done", connection)
  BY DEF Reply
<1> QED
  BY <1>1, <1>2, MoveInv

LEMMA HandlerStepInv ==
  ASSUME Inv, NEW r \in Requests, HandlerStep(r)
  PROVE  Inv'
<1>1. queue \in {"none", "open", "closing"} /\ client[r] \in {"absent", "connected", "answered", "gone"}
  BY DEF Inv, TypeOK
<1>2. faulted' \in BOOLEAN
  BY DEF HandlerStep, DatabaseAnswers, Recorded, AddJob, Inv, TypeOK
<1>3. CASE DatabaseAnswers(r)
  BY <1>1, <1>2, <1>3, ReplyInv DEF DatabaseAnswers
<1>4. CASE Recorded(r)
  <2>1. client[r] \in {"connected", "gone"}
    BY <1>4 DEF Recorded, Inv, HandlersHaveClients
  <2> QED
    BY <1>1, <1>2, <1>4, <2>1, MoveInv DEF Recorded, Connected
<1>5. CASE AddJob(r)
  <2>1. /\ queue' \in {"none", "open", "closing"}
        /\ queue' = "closing" => queue = "closing"
    BY <1>1, <1>5 DEF AddJob, GetQueue
  <2>2. CASE queue = "closing" /\ Move(r, "unqueued", client[r])
    <3>1. client[r] = "gone"
      BY <1>5, <2>2 DEF AddJob, Inv, HandlersHaveClients, NobodyConnected, Connected
    <3> QED
      BY <1>2, <2>1, <2>2, <3>1, MoveInv
  <2>3. CASE Reply(r)
    BY <1>2, <2>1, <2>3, ReplyInv
  <2> QED
    BY <1>5, <2>2, <2>3 DEF AddJob
<1> QED
  BY <1>3, <1>4, <1>5 DEF HandlerStep

LEMMA CallFailsInv ==
  ASSUME Inv, NEW r \in Requests, CallFails(r)
  PROVE  Inv'
<1>1. queue' \in {"none", "open", "closing"} /\ queue' = queue
  BY DEF CallFails, Inv, TypeOK
<1>2. faulted' \in BOOLEAN
  BY DEF CallFails, Fault
<1> QED
  BY <1>1, <1>2, ReplyInv DEF CallFails

LEMMA LeaveInv ==
  ASSUME Inv, NEW r \in Requests, Leave(r)
  PROVE  Inv'
<1>1. queue' \in {"none", "open", "closing"} /\ queue' = queue
  BY DEF Leave, Inv, TypeOK
<1>2. faulted' \in BOOLEAN
  BY DEF Leave, Inv, TypeOK
<1>3. handler[r] \in {"none", "database", "recording", "adding", "streaming", "unqueued", "done"}
  BY DEF Inv, TypeOK
<1> QED
  BY <1>1, <1>2, <1>3, MoveInv DEF Leave

(* A call of shutdown goes on.                                             *)
LEMMA TaskMoves ==
  ASSUME Inv, NEW t \in Tasks, NEW from, NEW to \in {"draining", "closing", "finished"},
         Shutdown(t, from, to)
  PROVE  /\ exit = "no" /\ task[t] = from
         /\ UNCHANGED <<main, plugins, reach, handler, client, faulted>>
         /\ task' \in [Tasks -> {"idle", "draining", "closing", "finished"}]
         /\ Stopping'
         /\ Stopping \/ from = "idle"
         /\ to = "draining" => (PastDraining' => PastDraining)
<1>1. /\ exit = "no" /\ task[t] = from /\ task' = [task EXCEPT ![t] = to]
      /\ UNCHANGED <<main, plugins, reach, handler, client, faulted>>
  BY DEF Shutdown, Running, boot, requests
<1>2. task \in [Tasks -> {"idle", "draining", "closing", "finished"}]
  BY DEF Inv, TypeOK
<1> QED
  BY <1>1, <1>2 DEF Stopping, PastDraining

LEMMA SignalInv ==
  ASSUME Inv, NEW t \in Tasks, Signal(t)
  PROVE  Inv'
<1>1. faulted' \in BOOLEAN
  BY DEF Signal, Shutdown, Inv, TypeOK
<1>2. CASE SignalsHandled /\ Shutdown(t, "idle", "draining") /\ UNCHANGED exit
  <2>1. /\ UNCHANGED <<main, plugins, reach, handler, client, faulted, exit, queue>>
        /\ exit = "no" /\ task' \in [Tasks -> {"idle", "draining", "closing", "finished"}]
        /\ Stopping' /\ (PastDraining' => PastDraining)
    BY <1>2, TaskMoves DEF Signal
  <2>2. TypeOK'
    BY <2>1, Zenon DEF Inv, TypeOK
  <2>3. StoppingIsHandled' /\ OneTells'
    BY <1>2, <2>1 DEF StoppingIsHandled, SignalsHandled, OneTells
  <2>4. NobodyConnected' /\ HandlersHaveClients' /\ UnqueuedIsGone'
    BY <2>1 DEF Inv, NobodyConnected, Connected, HandlersHaveClients, UnqueuedIsGone
  <2> QED
    BY <2>2, <2>3, <2>4 DEF Inv
<1>3. CASE exit' = "killed" /\ UNCHANGED <<boot, requests, task, faulted>>
  <2>1. UNCHANGED <<main, plugins, reach, handler, client, queue, task>>
    BY <1>3 DEF Signal, boot, requests
  <2> QED
    BY <1>1, <1>3, <2>1, EndInv
<1> QED
  BY <1>2, <1>3 DEF Signal

(* Closing the queues waits until no connection is left.                   *)
LEMMA CloseQueuesInv ==
  ASSUME Inv, NEW t \in Tasks, CloseQueues(t)
  PROVE  Inv'
<1>1. /\ UNCHANGED <<main, plugins, reach, handler, client, faulted, exit>>
      /\ exit = "no" /\ task' \in [Tasks -> {"idle", "draining", "closing", "finished"}]
      /\ Stopping /\ Stopping'
  BY TaskMoves DEF CloseQueues
<1>2. queue' \in {"none", "open", "closing"}
  BY DEF CloseQueues, Inv, TypeOK
<1>3. TypeOK'
  BY <1>1, <1>2, Zenon DEF Inv, TypeOK
<1>4. StoppingIsHandled' /\ OneTells'
  BY <1>1 DEF Inv, StoppingIsHandled, OneTells
<1>5. NobodyConnected'
  BY <1>1 DEF CloseQueues, Drained, NobodyConnected, Connected
<1>6. HandlersHaveClients' /\ UnqueuedIsGone'
  BY <1>1 DEF Inv, HandlersHaveClients, UnqueuedIsGone
<1> QED
  BY <1>3, <1>4, <1>5, <1>6 DEF Inv

LEMMA FinishInv ==
  ASSUME Inv, NEW t \in Tasks, Finish(t)
  PROVE  Inv'
<1>1. /\ UNCHANGED <<main, plugins, reach, handler, client, faulted, queue>>
      /\ exit' = "zero" /\ task' \in [Tasks -> {"idle", "draining", "closing", "finished"}]
      /\ Stopping /\ Stopping' /\ PastDraining
  BY TaskMoves DEF Finish, PastDraining
<1>2. TypeOK'
  BY <1>1, Zenon DEF Inv, TypeOK
<1>3. StoppingIsHandled' /\ OneTells'
  BY <1>1 DEF Inv, StoppingIsHandled, OneTells
<1>4. NobodyConnected'
  BY <1>1 DEF Inv, NobodyConnected, Connected
<1>5. HandlersHaveClients' /\ UnqueuedIsGone'
  BY <1>1 DEF Inv, HandlersHaveClients, UnqueuedIsGone
<1> QED
  BY <1>2, <1>3, <1>4, <1>5 DEF Inv

LEMMA InvStep == Inv /\ [Next]_vars => Inv'
<1> SUFFICES ASSUME Inv, [Next]_vars
             PROVE  Inv'
  OBVIOUS
<1>1. CASE UNCHANGED vars
  <2>1. UNCHANGED <<main, plugins, reach, exit, handler, client, queue, task, faulted>>
    BY <1>1 DEF vars, boot, requests
  <2>2. TypeOK'
    BY <2>1, Zenon DEF Inv, TypeOK
  <2>3. Stopping' = Stopping /\ PastDraining' = PastDraining
    BY <2>1 DEF Stopping, PastDraining
  <2>4. StoppingIsHandled' /\ OneTells'
    BY <2>1, <2>3, Zenon DEF Inv, StoppingIsHandled, OneTells
  <2>5. NobodyConnected' /\ HandlersHaveClients' /\ UnqueuedIsGone'
    BY <2>1, <2>3 DEF Inv, NobodyConnected, Connected, HandlersHaveClients, UnqueuedIsGone
  <2> QED
    BY <2>2, <2>4, <2>5 DEF Inv
<1> QED
  BY <1>1, BootStepInv, FailureInv, ArriveInv, HandlerStepInv, CallFailsInv, LeaveInv,
     SignalInv, CloseQueuesInv, FinishInv DEF Next, ShutdownStep

LEMMA Invariance == Spec => []Inv
BY InvInit, InvStep, PTL DEF Spec

-----------------------------------------------------------------------------
(* Every reachable state of the gateway is type correct; its socket and    *)
(* its signal handlers are there only when all plugins are.                *)
THEOREM TypeCorrect == Spec => []TypeOK
BY Invariance, PTL DEF Inv

(* A graceful shutdown costs no client that stays its answer, nor its job: *)
(* close() waits for the connections before the queues are closed.         *)
THEOREM ShutdownCutsOffTheAbandoned == Spec => []OnlyTheAbandonedAreCutOff
<1>1. Inv => OnlyTheAbandonedAreCutOff
  BY DEF Inv, NobodyConnected, Connected, HandlersHaveClients, UnqueuedIsGone,
         OnlyTheAbandonedAreCutOff
<1> QED
  BY <1>1, Invariance, PTL

(* The exit code tells a failed start or shutdown from a graceful one.     *)
THEOREM ExitCodesAlwaysTell == Spec => []ExitCodesTell
<1>1. Inv => ExitCodesTell
  <2> SUFFICES ASSUME Inv
               PROVE  ExitCodesTell
    OBVIOUS
  <2>1. exit = "zero" => Stopping /\ plugins = Len(Plugins)
    BY DEF Inv, TypeOK, StoppingIsHandled, NobodyConnected
  <2> QED
    BY <2>1, Zenon DEF Inv, OneTells, ExitCodesTell
<1> QED
  BY <1>1, Invariance, PTL

-----------------------------------------------------------------------------
(* Without the decorators the first plugin of routes that asks for them    *)
(* throws, so that the plugins stay few.                                   *)
StuckBeforeAgents == ~ reach => plugins <= 5 /\ main \notin {"binding", "up"}

(* What the gateway_boot run finds is no accident of its instance: if what *)
(* plugins/auth.ts decorates does not reach the plugins registered after   *)
(* it, then the gateway never listens, and handles no signal, whatever     *)
(* else does or does not fail.                                             *)
THEOREM EncapsulatedNeverListens == Spec => [](~ reach => main \notin {"binding", "up"})
<1>1. Init => StuckBeforeAgents
  BY DEF Init, StuckBeforeAgents
<1>2. Inv /\ StuckBeforeAgents /\ [Next]_vars => StuckBeforeAgents'
  <2> SUFFICES ASSUME Inv, StuckBeforeAgents, [Next]_vars, ~ reach'
               PROVE  plugins' <= 5 /\ main' \notin {"binding", "up"}
    BY DEF StuckBeforeAgents
  <2>1. /\ UNCHANGED reach
        /\ UNCHANGED <<main, plugins>> \/ BootStep
    <3>1. CASE BootStep
      BY <3>1 DEF BootStep, LoadConfig, RunMigrations, Register, InstallHandlers, Listen, Proceed,
                  Fatal, boot
    <3>2. CASE ~ BootStep
      BY <3>2 DEF Next, vars, boot, BootFails, Kill, CloseFails, Fatal, Arrive, HandlerStep,
                  DatabaseAnswers, Recorded, AddJob, CallFails, Leave, Reply, Move, Signal,
                  ShutdownStep, CloseQueues, Finish, Shutdown
    <3> QED
      BY <3>1, <3>2
  <2>2. reach = FALSE /\ plugins \in Nat /\ plugins <= 5 /\ main \notin {"binding", "up"}
    <3>1. reach = FALSE
      BY <2>1 DEF Inv, TypeOK
    <3>2. plugins \in Nat
      BY PluginsCount DEF Inv, TypeOK
    <3> QED
      BY <3>1, <3>2 DEF StuckBeforeAgents
  <2>3. CASE Register
    <3>1. plugins = 5 => Plugins[plugins + 1] \in UsesDecorators
      BY DEF Plugins, UsesDecorators
    <3>2. CASE plugins = 5
      BY <2>2, <2>3, <3>1, <3>2 DEF Register, Fatal, boot
    <3>3. CASE plugins < 5
      BY <2>2, <2>3, <3>3 DEF Register, Fatal, boot
    <3> QED
      BY <2>2, <3>2, <3>3
  <2>4. CASE LoadConfig \/ RunMigrations \/ InstallHandlers \/ Listen
    BY <2>2, <2>4, PluginsCount DEF LoadConfig, RunMigrations, InstallHandlers, Listen, Proceed
  <2> QED
    BY <2>1, <2>2, <2>3, <2>4 DEF BootStep
<1>3. StuckBeforeAgents => (~ reach => main \notin {"binding", "up"})
  BY DEF StuckBeforeAgents
<1> QED
  BY <1>1, <1>2, <1>3, Invariance, PTL DEF Spec
=============================================================================
