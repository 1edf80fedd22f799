# Meraki, in TLA+

Meraki (the packages and commands call it AgentFlow) is a self-hosted platform
for running LLM agents: a gateway with a REST and SSE interface, a dashboard,
a command-line client, and workers that are fed through job queues. This
directory holds a model of its control, model-checked with TLC, and proofs of
the safety properties of every modelled component, checked with TLAPS.

`PROJECT.json` lists, per definition, the source lines it models (`map`), the
runs, for each property a bug in the code that would break it (`mutants`), the
hazards of the code and the theorems.

## 1. The system

| component | source | state | operations |
|---|---|---|---|
| Approval gate | `apps/gateway/src/routes/approvals.ts` | rows of `approvals` and `tool_calls` | list, get, decide |
| Run intake | `apps/gateway/src/routes/runs.ts` | rows of `runs`, jobs of `agent-runs` | start, list, get, cancel, event stream |
| Agent records | `apps/gateway/src/routes/agents.ts` | rows of `agents` | list, create, get, patch, delete |
| Webhook ingestion | `apps/gateway/src/routes/webhooks.ts` | rows of `webhook_deliveries`, jobs of `webhook-processing` | receive |
| Queue client | `apps/gateway/src/queue.ts` | one lazily made connection per queue | get, close |
| Gateway lifecycle | `apps/gateway/src/index.ts`, `config.ts`, `plugins/auth.ts` | plugin contexts, listening socket, signal handlers | boot, error handler, shutdown |
| Health, connector stubs | `routes/health.ts`, `connectors/*.ts` | none | read, log |
| SSE client | `apps/web/lib/sse-client.ts` | EventSource, backoff, timer, `closed` | connect, close, four callbacks |
| Approvals page | `apps/web/app/approvals/page.tsx`, `components/approval-card.tsx` | list of approvals, cards that submit | fetch, pushed event, decide |
| Terminal, run graph, other pages | `apps/web/components`, `apps/web/app` | what they last fetched | fetch, render |
| CLI configuration | `apps/cli/src/commands/config-command.ts`, `api.ts` | a JSON file in the home directory | get, set, list, reset |
| CLI chat, logs, memory, docker | `apps/cli/src/commands` | chat loop, line buffer | run, poll, stream |
| Packages, deployment | `packages/*`, `docker/*` | only manifests and configuration are in the repository | |

How they interact. A page or the CLI sends a request to the gateway; its handler
awaits a handful of calls to the database (drizzle) and the queue (BullMQ on
Redis) and answers. Workers in `packages/orchestration` take jobs from the
queue and wait for approvals; they, the schema of the database and the tool
runner are named by the repository and not contained in it. The gateway pushes
events to the dashboard over SSE; a browser callback changes the list a page
shows.

What is hard about it:

- *interleaving at awaits*: between two awaited calls of a handler any other
  handler runs. No handler uses a transaction or a conditional update;
- *partial failure*: three handlers write two things one after the other
  (approval and tool call; run and job; delivery and job), and an error or a
  crash (`restart: unless-stopped`, `docker/docker-compose.yml`) may fall
  in between;
- *retries*: clients retry with an idempotency key, providers redeliver
  webhooks, reviewers press the button again;
- *reconnection*: timers, drops and `close()` from within callbacks, and what
  is not fetched again afterwards;
- *the life of a process*: signals during boot, shutdown against handlers and
  event streams under way;
- *shared files*: commands in several terminals and a running chat use one
  configuration file that is truncated and written in place.

What makes each part correct:

- approval gate: one decision per approval, a tool call that follows its
  approval, no decision after the expiry, no rows that mix two reviewers, a
  verdict that reaches its tool call;
- run intake: a job only for a recorded run, one run per key, a recorded run
  that reaches the queue, only runs of agents of the workspace;
- webhooks: a job only for a recorded and verified delivery, one job per
  payload, "2xx" only for what will be processed;
- SSE client: one connection or one timer while wanted, none once closed, a
  backoff that counts the retries, eventually connected;
- approvals page: what waits is listed, what was decided here does not come
  back, a card that submits is freed, an approval is decided by one call at a time;
- gateway process: it boots unless something fails, its exit code tells, a
  shutdown costs no waiting client its answer and ends unless a stream is held;
- command line: settings add up, every question of a chat ends, the log is cut
  at line ends only, a rebuild reported is a rebuild that runs.

## 2. Modules

| module | models | state ↔ code |
|---|---|---|
| `ApprovalProtocol` | abstract gate: one verdict per approval, then one release of its tool call | `verdict`, `call` |
| `Approvals` | the decide handler | `approval`, `toolCall`: the rows; `phase`: the await the handler of a request stands at; `body`, `now`: its constants; `reply`: the status code sent |
| `MCApprovals` | instances for TLC | |
| `ApprovalsProofs` | type correctness and safety, whatever overlaps or fails; finality and refinement when decisions do not overlap | |
| `Runs`, `MCRuns`, `RunsProofs` | start and cancel a run, create and delete an agent, the queue; the worker as an external action | `agent`, `run`, `jobs`: rows and queue; `found`: the row an idempotency lookup returned; `named`: the `runId` of the reply |
| `Webhooks`, `MCWebhooks`, `WebhooksProofs` | the webhook handler, its provider and the switching of connectors as external actions | `delivery`, `job`: row and job by the attempt that made them; `active`: the connectors that are enabled and active |
| `EventStream` | abstract event stream, as a page sees it: off, down or up | `link`, `reachable` |
| `SseClient`, `MCSseClient`, `SseClientProofs` | the client object, the browser's EventSources and timers, a server that comes and goes; implements `EventStream` | `es`, `backoff`, `closed`: its fields; `timers`, `held`: the timers that will fire and whether `reconnectTimer` is one; `source`: `readyState` |
| `ApprovalsPage`, `MCApprovalsPage`, `ApprovalsPageProofs` | one visit to the page, on top of `EventStream`; the gateway's rows, events and answers as external actions | `cards`: how often an approval is in the state `approvals`; `busy`: its cards whose `submitting` is set; `strays`: it has a card that React lost and that can still be used; `fetch`, `answer`, `sent`, `granted`: the calls under way |
| `GatewayLifecycle`, `MCGatewayLifecycle`, `GatewayProofs` | boot, the hooks of every route, what handlers await, the queue objects, shutdown and exit | `main`: the await `main` stands at; `plugins`: how many are registered; `task`: where each call of `shutdown` stands; `queue`: `_agentRunsQueue` and `_webhookQueue`; `handler`, `client`: the handler and the connection of a request |
| `CliConfig` | `config set` and `config reset` in several terminals, and the address the API client finds | `file`, `content`: the file; `command`, `edit`, `copy`: where a command stands, its arguments and its object `config` |
| `CliChat` | `agent chat` and `pollRun` | `chat`: what the session waits for; `attempts`: `i`; `input`: standard input; `run`: the run's status at the gateway |
| `LogsStream` | `logs` | `buffer`: `buffer`; `text`, `printed`: all text read and lines printed |
| `CliDocker` | the docker subcommands and the compose commands they run | `docker`: the command under way, then its outcome; `containers`: what runs |
| `Cli`, `MCCli`, `CliProofs` | the four together with the one-shot requests: `EXTENDS CliConfig`, the other three as instances, `address` of the chat being what the file says at that moment | `request`: a one-shot request |
| `DataInduction` | models nothing: the induction that `SseClientProofs` and `CliProofs` use | |

Conventions. A handler is one action per awaited call: the code from one await
to the next runs uninterrupted. An action that stands for a write *is* the
write taking effect; the error reply (`DatabaseError`, `CallFails`) may be taken
in the phase before it (the call failed and did nothing) and in the phase after
it (it took effect and the answer was lost). `Crash` ends every handler and leaves the
rows. A request is fresh; a client that tries again is another request. A
variable marked *history* is not in the code: it notes at arrival what was
already the case, so that a property can speak of late requests. Each
definition marked *Mutant* is a plausible bug; no action uses it, and
`PROJECT.json` says which property fails when it takes the place of the
definition it follows.

Why handlers interleave. `docker/docker-compose.yml:39` gives the gateway a
Postgres database, whose driver is asynchronous. The manifest of `packages/db`
also lists better-sqlite3, which is synchronous: with it an await only yields
to microtasks, requests are effectively handled one at a time, and that is the
case `Overlap = FALSE` of `Approvals`.

What the models take from outside (all marked external in the map, or noted
here):

- the rows as the workers insert them, and the worker's steps on a run's status;
- the redelivery policy of providers and the management of connectors;
- the wall clock, the availability of the server;
- *no unique index* on `runs.idempotencyKey` or
  `webhook_deliveries.payloadHash`: the schema is not in the repository, so
  no rejection of a second row is assumed;
- `Genuine` (`Webhooks`) are the events whose signature verifies as the handler
  computes it. Nothing in the gateway sets `rawBody`, so it is computed over the
  body parsed and serialised again; which senders that suits is a matter of
  bytes the model does not have;
- the callers of `SseClient` connect a client once, or after they closed it,
  and their callbacks do not throw;
- `Approvals`, `Runs` and `Webhooks` take a gateway that has booted with its
  routes registered. `authPlugin` is registered without `fastify-plugin`, so
  that by Fastify's rules it does not boot (run `gateway_boot`).
  `GatewayLifecycle` has a constant `Reach` for this: `{FALSE}` is the code as
  Fastify treats it, `TRUE` the case in which a wrapper lets the decorators
  reach the routes, and `gateway_life` covers both;
- of Fastify: `close()` stops the listening, refuses further requests and waits
  for the connections that have a request under way, not for handlers whose
  client has left;
- of node: a signal without a handler kills, an unhandled rejection ends the
  process with exit code 1, `process.exit` waits for nothing;
- the page's side of the gateway: the paths it asks, `GET
  api/v1/approvals?status=pending` and `GET api/v1/logs/stream`, are not among
  the routes of the gateway in this repository, so the rows, the answer and
  the events are actions of their own in `ApprovalsPage`. A grant of a decision is
  taken from `Approvals`: overlapping requests may both be granted;
- of ky: a request that cannot be built without an address throws at the call
  and not as a rejection; a GET that fails is repeated once, a POST is not;
- of readline: end of input and Control-C close the interface, and a closed one
  throws when it is asked;
- of React: a list is drawn anew by the keys of its cards, here the ids of the
  approvals (`page.tsx:110`). A card whose key stays keeps its state. Keys have
  to be unique, and an approval listed twice breaks that: when the list changes
  around its two cards, React may lose the first. What it knew, `submitting`
  above all, is gone, a new idle card takes its place, and the old one stays in
  the document with its buttons as they were. `Reconcile` leaves it open whether
  that happens;
- of `writeFileSync`: it truncates, then writes; two processes that write at
  the same time may leave the end of the longer text behind;
- of docker compose: whether a command succeeds; `up` replaces containers of
  an older image.

Left out of what is modelled: what `PATCH` of an agent writes (columns nothing
modelled reads), the text of notes, tasks and payloads, tokens, layout, logging.

## 3. Runs

Passing runs:

| run | instance | what it shows |
|---|---|---|
| `approvals_faults` | 2 approvals of 1 tool call with expiries 0 and 1, 2 requests, clock up to 2, overlap, faults; `FairSpec` | type correctness; rows of one reviewer; a tool call follows its approval; no decision is dated after the expiry; a late decision has no effect; "recorded" means both rows; a verdict reaches the tool call unless interrupted |
| `approvals_serial` | 2 approvals with a tool call each, in different workspaces, 2 requests one at a time, faults | a decision is final and stays on record; the two rows differ only by an interruption, and then the tool call waits; the handler implements `ApprovalProtocol` |
| `runs_faults` | 2 requests, agents, a key, 2 workspaces, faults; `FairSpec` | no job without its run; replies name runs; a keyed retry starts nothing; no run for a foreign or deleted agent; a run without a job comes of an interruption; otherwise it reaches the queue |
| `webhooks_faults` | a genuine event sent up to twice, also while the first attempt is handled, a forged one with the same body, one to an unknown connector; faults; `FairSpec` | no job without its record; a redelivery is inert; "duplicate" and "accepted" rest on a record that passed the check; an event is lost only through an interruption; otherwise it reaches the queue |
| `sse_client` | 4 EventSource objects, the code's 500 ms and 30 s, retries counted up to 8; `FairSpec` | one thing under way while wanted, nothing once closed; the backoff counts the retries; the client implements `EventStream`, which includes that it comes up if the server stays |
| `approvals_page` | 2 approvals, each absent, pending or decided at first, up to 3 calls on one, every order of the fetch, its one repetition, events, decisions, drops and leaving | what was settled here stays gone; what waits is listed, about to be announced, or was lost in one of two named ways (read too early and its event missed, or overtaken by the answer); a card that submits has its call, and only an approval listed twice has more than one under way |
| `gateway_life` | 2 requests of every route and caller, 2 signals, `Reach` both ways, faults; `FairSpec` | a shutdown cuts off only requests whose client had left; exit codes tell; only an open event stream holds up a shutdown for good |
| `cli` | 2 terminals, 2 keys, 1 value, `AGENTFLOW_API_URL` not set, 1 question of up to 2 polls, log text of up to 3 pieces in chunks of 1 or 2; `FairSpec` | settings add up unless commands overlap or one is cut off, and a reset makes up for it; the log does not depend on the chunks; a reported rebuild runs; every question ends, though nothing is assumed of worker or gateway |

Runs that end in a violation, each a disagreement between the code and what it
says of itself (`findings` quotes the lines):

| run | property | what happens |
|---|---|---|
| `approvals_split` | `RowsAgreeAtRest` | both requests read "pending"; the writes interleave; approval and tool call end with opposite verdicts, and both reviewers are told "recorded" |
| `runs_foreign` | `RepliedRunsAreOwn` | the idempotency lookup is by the key alone and returns a run of another workspace |
| `webhooks_lost` | `AcknowledgedIsQueued` | `queue.add` fails after the insert; the redelivery is a duplicate; the event is lost |
| `gateway_boot` | `BootsUnlessSomethingFails` | nothing fails; `agentRoutes` finds no `authenticate` and `main` ends with exit code 1 |

Two more partial failures have no run of their own, since a passing run pins down when they
happen: an approval whose tool call stays pending (`ApartOnlyByInterruption`)
and a run told to a client that no job refers to
(`OrphansComeOfInterruptions`). Both come of an interruption between two
writes, and of nothing else. The command line has one as well: `config set` writes `gatewayUrl`
(`README.md:131` recommends it) and the API client reads `apiUrl`, so that with
any file that parses no request can be sent; `Address` has it so, and it is one
of the ways a question ends.

What the code loses and no property forbids. Where nothing in the repository says
that a loss must not happen, the property about it names the loss and excludes
everything else; it does not catch the loss itself, and the hazards say so:

- `WaitingIsListed` allows an approval to be missing whose event found the stream down
  or was overtaken by the answer to the fetch;
- `CallsMatchCards` allows any number of calls on an approval that is listed
  twice;
- `CommandsAddUp` speaks of commands that neither overlap nor are cut off;
- `QuestionsEnd` takes the crash of a chat for an end;
- `RunsOfWorkspaceAgents` speaks of the agents at the arrival of the request;
- `ExitCodesTell` does not count a boot that stops because decorators are out of
  reach: that is the run `gateway_boot`;
- `KeyedRetryIsInert` and `RedeliveryIsInert` speak of what arrives once a row is
  there.

The one-shot requests of `Cli` have no property of their own. They are there because they
share a terminal with the other commands, and because they stop at a
configuration file without an address.

Why the bounds are enough. Every safety property relates at most two requests
(the one that wrote a row and the one that overwrites, retries or reads it), so
two requests produce each of its cases; the theorems of section 4 hold for any
number. Two approvals of one tool call, or a key in two workspaces, are the
smallest instances where a row is reached in two ways. The clock needs a value
before, at and after an expiry. Six doublings take the backoff from 500 ms to
its cap; a client never has more than one source alive, so four leave room
for a bug to leak some. On the page an approval has a card from the fetch and one from its
event at most, a second approval shows that a list operation on one leaves
the other's entries alone, and it is its event or removal that makes React draw two
cards of the first anew; three calls are one more than there are cards
(`MaxCalls`). In the gateway one request may hold a stream while the other is
anywhere, and two signals show that shutdown may run twice. Two overlapping
commands are enough to lose a setting. Of a chat, the attempts are counted down
from 2 in place of the code's 60; a second question starts like the first, from a
prompt with nothing kept. Three pieces are one whole line of the log, cut at
every place.

Fairness. `WF` on the steps of a handler: the event loop runs a handler whose
awaited call came back, and the drivers of database and queue answer a call or
report an error (`Faults` lets them). For the browser: a timer that is due
fires, and a connection attempt to a server that stays reachable succeeds. For
the gateway process: what was awaited comes back and boot and shutdown go on; no
client has to leave. For the chat: a request ends within its time limit and a
pause is a timer; the run at the gateway may stay as it is for ever. The page
has safety properties only.
Nothing is assumed of reviewers, clients, providers, or of the server's
availability.

Deadlock is not checked where the requests of an instance are finite: when all
have been handled the model has nothing left to do, the system simply waits for
the next one. Likewise a gateway that has exited. `sse_client`, `approvals_page` and `cli`
check it.

## 4. Proofs

Every invariant of section 3 is a theorem: it holds for every value of the
constants, from the named assumptions of the modules alone. `PROJECT.json` lists
the theorems. They are laid out alike: an inductive invariant `Inv`, that `Init` implies
it, one lemma per action (or per effect several actions share) that the action
keeps it, `Invariance == Spec => []Inv`, and one theorem per property, which
follows from `Inv`. TLC checked each `Inv` on the instance of the component's run
before it was proved. None of the properties below is inductive as it stands,
unless it says so.

### Approval gate (`ApprovalsProofs`)

Any number of approvals, tool calls, workspaces and requests, any expiry,
`Overlap` and `Faults` either way: `TypeCorrect`, `RowsAreOfOneReviewer`,
`ToolCallsFollowApprovals`, `DecisionsAreInTime`, `LateDecisionsAreInert`,
`RecordedCoversBothRows`.

The strengthening (`HandlerInv` of each request) is what a handler knows at each
await: past the expiry check its `now` is not after the expiry; past the first
write the approval is decided, past the second the tool call is; the approval of
a late request is decided and stays so. The first holds although `now` was taken
before the row was read because the clock does not run backwards (`now[r] <=
clock` is a conjunct of its own).

With two further assumptions, `~ Overlap` and `OwnToolCalls` (an approval has a
tool call of its own):

- `DecisionsAreFinal`: nothing rewrites a decided approval;
- `RecordedDecisionsStand`: an acknowledged decision is the one on record;
- `VerdictsPartOnlyByInterruption`: at rest approval and tool call agree, or
  the call waits because the request of the reviewer on record was interrupted;
- `Refinement`: every behaviour of the handler, failures and crashes included,
  is one of `ApprovalProtocol`.

`SerialInv` says that at most one handler is under way, that the rows it is about
to write are still as it read them, and that no tool call is decided ahead of
its approval; `ApartInv` adds which request has a tool call in its hands. The
assumptions cannot be dropped: `approvals_split` is the counterexample. The
schema may or may not rule out two approvals of one tool call; they would write
its row twice, which the protocol does not allow.

### Run intake (`RunsProofs`) and webhooks (`WebhooksProofs`)

`TypeCorrect` of both; `JobsAlwaysHaveRuns`, `KeyedRetriesAreInert`,
`RunsAreOfWorkspaceAgents`, `OrphansAreInterrupted`; `JobsAreAlwaysRecorded`,
`RedeliveriesAreInert`, `AnswersAlwaysRestOnRecords`, `LossesAreInterruptions`.
Any number of requests or attempts, agents, keys, connectors, payloads, faults and
crashes at every await.

The invariants are again what a handler has established so far. Two parts carry
the argument. `KeyTaken` (`PayloadTaken`): a request whose key (payload) was on
record when it arrived finds it at its lookup, as rows are never removed and
keep their key, so that it never gets to its insert. `QueuedOrCutShort`: a
row without a job belongs to a handler that is about to add it, or to one that
ended with an error or in a crash.

### SSE client (`SseClientProofs`)

Any number of EventSources, any backoff and any number of retries:

- `TypeCorrect`, `OneThingIsUnderWay`. The latter is inductive with two facts
  about the fields: `reconnectTimer` is set just when a timer is pending, and a
  client that is not wanted refers to no EventSource;
- `BackoffAlwaysCountsRetries`: after any drops, closings and connections the
  wait is the minimum doubled once per retry, capped. The step is that capping
  before doubling and after comes to the same; that the recursive function
  `Doubled` exists and doubles is by induction;
- `ImplementsSafeEventStream`: each step of the client is a step of `EventStream`
  or changes nothing of it (an error of a connection that was not open yet, a
  timer that fires, a `close()` of a closed client are such stutters). That is the
  safety half of `ImplementsEventStream`; the fairness half stays with TLC.

### Approvals page (`ApprovalsPageProofs`)

Any number of approvals and of calls: `TypeCorrect`, `SettledApprovalsStayGone`,
`WaitingApprovalsAreListed`, `CallsAlwaysMatchCards`. The invariant counts:
an approval is given a card by its event and one by the answer to the fetch
(`Given`). As long as it was given one only, the card whose buttons are enabled and
the decision under way share it (`CallsShareCards`), also when the answer takes
a card away that is submitting or replaces it. `Reconciled` says how little the redrawing of a list
disturbs: it never makes a card submit, and forgets that one does only of an
approval that has two. For such an approval nothing bounds the calls: the run
with `MaxCalls = 3` reaches three with two cards, after an event for the other
approval. `SettledStaysGone` is about the list, the state `approvals`; a card
that React lost may stay on the screen after its approval was settled.

### Gateway process (`GatewayProofs`)

Any requests and any number of signals: `TypeCorrect`,
`ShutdownCutsOffTheAbandoned`, `ExitCodesAlwaysTell`. The invariant says that once a
shutdown is past `fastify.close()` no connection is left and none can come, though
a second signal may have started another shutdown, and that a handler at work
has a client or had one that left. `EncapsulatedNeverListens` generalises the
finding of `gateway_boot`: while the decorators stay in the auth plugin's own
context, no behaviour gets as far as `listen`.

### Command line (`CliProofs`)

Any terminals, keys and values, any bounds: `TypeCorrect`, `ConfigCommandsAddUp`,
`RebuiltContainersRun`, `ChunksMakeNoDifference`.

- Configuration: as long as commands have neither overlapped nor been cut off
  (`tidy`), one command is under way, its copy is what the file is going to say, and
  the file it truncated is empty; the copy of a reset does not depend on what was read, so that a
  reset alone makes the file tidy again.
- Logs: a stream of any length in chunks of one or two pieces. The proof is by
  induction over the text: adding a piece ends the last line or lengthens it
  (`LinesAppend`); wherever a text is cut, its lines but the last are settled and the
  rest is found in the last line and what follows (`LinesConcat`); the lines printed of two
  batches are those of both together (`PrintedConcat`).

### Induction over data (`DataInduction`)

The library's induction theorems take a predicate as a parameter, which the
installed provers cannot instantiate. `DataInduction` states induction over sets
instead (a set of natural numbers with 0 and all successors is `Nat`; a set of
sequences with the empty one and all extensions is `Seq(S)`), from the library's
theorem that `<` is well-founded on `Nat`. That a recursive function exists
(`ChainExists`) and is the only one (`Agreement`) is proved there too, so that a
definition like `Lines` can be unfolded. The recursive definitions of `LogsStream`
and `SseClient` are therefore functions on an initial segment of `Nat`.

### What the assumptions say

They type the tables given as constants (`RowsAssumption`, `HomeAssumption`,
`TableAssumption`), say that switches are Boolean and bounds natural numbers, that
`MIN_BACKOFF_MS` is positive and at most `MAX_BACKOFF_MS`, and that `None` is not
a key, row, body or reply: a proof has to know that the absent row differs from every row,
which for TLC's model values goes without saying.

### Model-checked only

- The liveness properties `VerdictReachesToolCall`, `RunsReachTheQueue`,
  `DeliveriesReachTheQueue`, `OnlyStreamsHoldUpShutdown` and `QuestionsEnd`, and the
  fairness half of `ImplementsEventStream`: fairness is about `ENABLED`, which the
  provers do not handle.
- The four violations, which are counterexamples and need no proof; the first three
  are of one instance each.

## 5. Not modelled, and the plan

Not modelled for good:

- the dashboard pages that fetch once and show, the settings page, whose key
  nothing reads, and the search page, which states no relation between its
  box and its results;
- `terminal.tsx`, which no page uses and whose hazard (output that is there
  before the terminal is ready is not drawn until more comes) is a matter of a
  library's object, and the run graph, which is layout;
- what the health routes report and what the connector stubs log;
- `packages/*` (only manifests in the repository) and deployment files.

What is left, most important first:

1. Chunks of any length in `LogsStream`; `LinesConcat` and `PrintedConcat` are
   already stated for texts of any length.
2. `RunsReachTheQueue` and `DeliveriesReachTheQueue` have safety parts that could be
   proved: a handler between its writes has no step that leaves but the second write, an error
   and a crash.
3. Abstract specifications of the run and webhook intake (recorded, then queued,
   or interrupted) with their refinements, in the manner of `ApprovalProtocol`.
