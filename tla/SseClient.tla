------------------------------ MODULE SseClient ------------------------------
(***************************************************************************)
(* The reconnecting EventSource wrapper of the dashboard                   *)
(* (apps/web/lib/sse-client.ts): one client, the browser's EventSources    *)
(* and timers it creates, and a server that comes and goes.                *)
(*                                                                         *)
(* JavaScript runs a callback to its end, so every method call and every   *)
(* event handler is one action.  The callbacks of the client's options may *)
(* call close() from within a handler.  A client is connected by callers   *)
(* that have not connected it yet or have closed it, as the approvals page *)
(* and createSseHook do.                                                   *)
(***************************************************************************)
EXTENDS Naturals

CONSTANTS
  Sources,      \* EventSource objects; a closed one may be taken as a new one
  None,         \* null
  MinBackoff,   \* MIN_BACKOFF_MS
  MaxBackoff,   \* MAX_BACKOFF_MS
  MaxRetries    \* bound on the count of retries, for the history variable

ASSUME BackoffAssumption ==
  /\ MinBackoff \in Nat \ {0}
  /\ MaxBackoff \in Nat
  /\ MinBackoff <= MaxBackoff
  /\ MaxRetries \in Nat

ASSUME SourcesAssumption == None \notin Sources

VARIABLES
  source,    \* readyState of the EventSources: "closed", "connecting", "open"
  es,        \* this.es
  backoff,   \* this.backoff
  closed,    \* this.closed
  timers,    \* number of timers that have yet to fire
  held,      \* is this.reconnectTimer one of them?
  started,   \* has connect() been called?
  up,        \* is the server reachable?
  retries    \* history: timers that fired since the last onopen, up to MaxRetries

vars == <<source, es, backoff, closed, timers, held, started, up, retries>>

-----------------------------------------------------------------------------
Init ==
  /\ source = [x \in Sources |-> "closed"]
  /\ es = None
  /\ backoff = MinBackoff
  /\ closed = FALSE
  /\ timers = 0
  /\ held = FALSE
  /\ started = FALSE
  /\ up \in BOOLEAN
  /\ retries = 0

Smaller(m, n) == IF m < n THEN m ELSE n

(* doConnect, past its check of this.closed.                               *)
NewSource ==
  \E x \in Sources :
     /\ source[x] = "closed"
     /\ source' = [source EXCEPT ![x] = "connecting"]
     /\ es' = x

(* Mutant: the source is forgotten without being closed.                   *)
DropReferenceOnly ==
  /\ UNCHANGED source
  /\ es' = None

(* this.es?.close(); this.es = null                                        *)
DropSource ==
  /\ source' = [x \in Sources |-> IF x = es THEN "closed" ELSE source[x]]
  /\ es' = None

(* scheduleReconnect, past its check of this.closed.                       *)
ArmTimer ==
  /\ timers' = timers + 1
  /\ held' = TRUE

Connect ==
  /\ ~ started \/ closed
  /\ started' = TRUE
  /\ closed' = FALSE
  /\ NewSource
  /\ UNCHANGED <<backoff, timers, held, up, retries>>

(* close(): clearTimeout forgets the timer the client holds.               *)
CloseEffect ==
  /\ closed' = TRUE
  /\ timers' = IF held THEN timers - 1 ELSE timers
  /\ held' = FALSE
  /\ DropSource

Close ==
  /\ started
  /\ CloseEffect
  /\ UNCHANGED <<backoff, started, up, retries>>

-----------------------------------------------------------------------------
(* Events of an EventSource; the browser dispatches none to a closed one.  *)

(* Mutant: the backoff is not reset.                                       *)
OpenKeepingBackoff(x) ==
  /\ up
  /\ source[x] = "connecting"
  /\ retries' = 0
  /\ \/ /\ source' = [source EXCEPT ![x] = "open"]
        /\ UNCHANGED <<es, closed, timers, held>>
     \/ CloseEffect
  /\ UNCHANGED <<backoff, started, up>>

(* onopen; the onConnect callback may close the client.                    *)
Open(x) ==
  /\ up
  /\ source[x] = "connecting"
  /\ backoff' = MinBackoff
  /\ retries' = 0
  /\ \/ /\ source' = [source EXCEPT ![x] = "open"]
        /\ UNCHANGED <<es, closed, timers, held>>
     \/ CloseEffect
  /\ UNCHANGED <<started, up>>

(* onmessage; the onEvent callback may close the client, otherwise nothing *)
(* of the client changes, whether the event parses or not.                 *)
Message(x) ==
  /\ source[x] = "open"
  /\ CloseEffect
  /\ UNCHANGED <<backoff, started, up, retries>>

(* Mutant: a dropped connection is not tried again.                        *)
ErrorWithoutRetry(x) ==
  /\ ~ up
  /\ source[x] # "closed"
  /\ \/ CloseEffect
     \/ DropSource /\ UNCHANGED <<closed, timers, held>>
  /\ UNCHANGED <<backoff, started, up, retries>>

(* onerror; if the onError callback closes the client there is nothing     *)
(* left to drop and scheduleReconnect returns.                             *)
Error(x) ==
  /\ ~ up
  /\ source[x] # "closed"
  /\ \/ CloseEffect
     \/ DropSource /\ ArmTimer /\ UNCHANGED closed
  /\ UNCHANGED <<backoff, started, up, retries>>

(* Mutant: the backoff grows without limit.                                *)
FireUncapped ==
  /\ timers > 0
  /\ timers' = timers - 1
  /\ held' = FALSE
  /\ backoff' = backoff * 2
  /\ retries' = Smaller(retries + 1, MaxRetries)
  /\ IF closed THEN UNCHANGED <<source, es>> ELSE NewSource
  /\ UNCHANGED <<closed, started, up>>

(* The callback of a timer: the backoff grows, then doConnect.             *)
Fire ==
  /\ timers > 0
  /\ timers' = timers - 1
  /\ held' = FALSE
  /\ backoff' = Smaller(backoff * 2, MaxBackoff)
  /\ retries' = Smaller(retries + 1, MaxRetries)
  /\ IF closed THEN UNCHANGED <<source, es>> ELSE NewSource
  /\ UNCHANGED <<closed, started, up>>

(* External: the server, or the way to it, goes down or comes back.        *)
Toggle ==
  /\ up' = ~ up
  /\ UNCHANGED <<source, es, backoff, closed, timers, held, started, retries>>

Next ==
  \/ Connect \/ Close \/ Fire \/ Toggle
  \/ \E x \in Sources : Open(x) \/ Message(x) \/ Error(x)

Spec == Init /\ [][Next]_vars

(* The browser fires timers that are due, and a request to a server that   *)
(* stays reachable is answered.                                            *)
FairSpec ==
  /\ Spec
  /\ WF_vars(Fire)
  /\ \A x \in Sources : WF_vars(Open(x))

-----------------------------------------------------------------------------
(* Type correctness of the client's fields and of the browser's objects.   *)
TypeOK ==
  /\ source \in [Sources -> {"closed", "connecting", "open"}]
  /\ es \in Sources \cup {None}
  /\ backoff \in MinBackoff..MaxBackoff
  /\ closed \in BOOLEAN
  /\ timers \in Nat
  /\ held \in BOOLEAN
  /\ started \in BOOLEAN
  /\ up \in BOOLEAN
  /\ retries \in 0..MaxRetries

Alive == {x \in Sources : source[x] # "closed"}

Wanted == started /\ ~ closed

(* A client that is wanted has exactly one thing under way, an EventSource *)
(* that is its own or a timer to make one, and a client that was closed    *)
(* none: drops, retries and close() from within a callback never leave it  *)
(* with two, with a source that it can no longer close, or with one that   *)
(* delivers events to a page that is gone.                                 *)
OneThingUnderWay ==
  /\ Alive = IF Wanted /\ es # None THEN {es} ELSE {}
  /\ timers = IF Wanted /\ es = None THEN 1 ELSE 0

(* The minimum, doubled n times.                                           *)
Doubled[n \in 0..MaxRetries] == IF n = 0 THEN MinBackoff ELSE 2 * Doubled[n - 1]

(* The wait before the n-th retry since the last connection is the minimum *)
(* doubled n - 1 times, up to the maximum, across closing and reconnecting.*)
BackoffCountsRetries ==
  retries < MaxRetries => backoff = Smaller(Doubled[retries], MaxBackoff)

(* The client implements the abstract event stream: whatever drops, fires, *)
(* or closes it from a callback, a page sees a link that is off, down or   *)
(* up, that delivers nothing once closed, is given up only when the server *)
(* is gone, and comes up if the server stays.                              *)
Link ==
  IF ~ Wanted THEN "off"
  ELSE IF es # None /\ source[es] = "open" THEN "up" ELSE "down"

Stream == INSTANCE EventStream WITH link <- Link, reachable <- up

ImplementsEventStream == Stream!Spec
=============================================================================
