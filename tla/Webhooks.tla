------------------------------ MODULE Webhooks ------------------------------
(***************************************************************************)
(* Ingestion of webhooks (apps/gateway/src/routes/webhooks.ts): connector  *)
(* lookup, signature, deduplication by payload hash, the delivery row and  *)
(* the webhook-processing job, while the provider redelivers what it was   *)
(* not told "2xx" about.                                                   *)
(*                                                                         *)
(* An attempt <<e, n>> is the n-th time the provider sends event e; the    *)
(* attempts of an event carry the same body.  The handler is one action    *)
(* per call it awaits; whoever manages connectors is outside the           *)
(* repository's code and may switch one on or off at any time.             *)
(***************************************************************************)
EXTENDS Naturals

CONSTANTS
  Events,        \* events the providers have to deliver
  Connectors,    \* connector ids
  Payloads,      \* raw bodies; sha256 tells them apart
  None,          \* null or undefined
  ConnectorOf,   \* :connectorId of the path an event is sent to
  PayloadOf,     \* body of an event
  Known,         \* connectors that have a row
  Signed,        \* connectors whose secretRef leads to a secret
  Genuine,       \* events with a valid signature
  MaxAttempts,   \* how often the provider of an event sends it at most
  Timeouts,      \* may the provider redeliver while it waits for an answer?
  Faults         \* may database and queue calls fail and the process crash?

ASSUME TableAssumption ==
  /\ ConnectorOf \in [Events -> Connectors]
  /\ PayloadOf \in [Events -> Payloads]
  /\ Known \subseteq Connectors
  /\ Signed \subseteq Known
  /\ Genuine \subseteq Events

ASSUME SettingsAssumption ==
  /\ MaxAttempts \in [Events -> Nat]
  /\ Timeouts \in BOOLEAN
  /\ Faults \in BOOLEAN

Attempts == UNION {{e} \X (1..MaxAttempts[e]) : e \in Events}

DeliveryRow == [connector : Connectors, payloadHash : Payloads]

Ok == {"discarded", "duplicate", "accepted"}   \* 200, 200 and 202

NotOk == {"unknown", "unauthorized", "error"}   \* 404, 401 and 500

ASSUME NoneAssumption == None \notin DeliveryRow \cup Ok \cup NotOk

VARIABLES
  active,      \* connectors that are enabled and have status "active"
  delivery,    \* webhook_deliveries rows by the attempt that inserted them
  job,         \* webhook-processing jobs by the attempt that added them
  phase,       \* where the handler of each attempt stands
  reply,       \* what the attempt was answered, None before
  recorded     \* history: was the payload on record when the attempt was sent?

vars == <<active, delivery, job, phase, reply, recorded>>

-----------------------------------------------------------------------------
Connector(a) == ConnectorOf[a[1]]

Payload(a) == PayloadOf[a[1]]

(* Mutant: the event is stored where its hash belongs.                     *)
RowOfUnhashed(a) == [connector |-> Connector(a), payloadHash |-> a[1]]

RowOf(a) == [connector |-> Connector(a), payloadHash |-> Payload(a)]

WithHash(p) == {a \in Attempts : delivery[a] # None /\ delivery[a].payloadHash = p}

Init ==
  /\ active \in SUBSET Known
  /\ delivery = [a \in Attempts |-> None]
  /\ job = [a \in Attempts |-> None]
  /\ phase = [a \in Attempts |-> "new"]
  /\ reply = [a \in Attempts |-> None]
  /\ recorded = [a \in Attempts |-> FALSE]

Handling == {"readingConnector", "lookingUpHash", "inserting", "enqueuing", "responding"}

InFlight(a) == phase[a] \in Handling

Advance(a, next) ==
  /\ phase' = [phase EXCEPT ![a] = next]
  /\ UNCHANGED <<active, reply, recorded>>

Answer(a, code) ==
  /\ phase' = [phase EXCEPT ![a] = "done"]
  /\ reply' = [reply EXCEPT ![a] = code]
  /\ UNCHANGED <<active, delivery, job, recorded>>

-----------------------------------------------------------------------------
(* External: the provider sends an event for the first time, or again when *)
(* the attempt before was not answered with a 2xx, or not yet.             *)
Unanswered(before) ==
  \/ phase[before] = "lost"
  \/ phase[before] = "done" /\ reply[before] \notin Ok
  \/ Timeouts /\ InFlight(before)

Send(a) ==
  /\ phase[a] = "new"
  /\ a[2] > 1 => Unanswered(<<a[1], a[2] - 1>>)
  /\ recorded' = [recorded EXCEPT ![a] = WithHash(Payload(a)) # {}]
  /\ phase' = [phase EXCEPT ![a] = "readingConnector"]
  /\ UNCHANGED <<active, delivery, job, reply>>

(* External: a connector is switched on or off.                            *)
Switch(c) ==
  /\ active' = IF c \in active THEN active \ {c} ELSE active \cup {c}
  /\ UNCHANGED <<delivery, job, phase, reply, recorded>>

-----------------------------------------------------------------------------
(* The handler.                                                            *)

Verified(a) == Connector(a) \in Signed => a[1] \in Genuine

(* Mutant: a signature that does not verify is logged, nothing more.       *)
ReadConnectorUnverified(a) ==
  /\ phase[a] = "readingConnector"
  /\ \/ Connector(a) \notin Known /\ Answer(a, "unknown")
     \/ Connector(a) \in Known \ active /\ Answer(a, "discarded")
     \/ /\ Connector(a) \in active
        /\ Advance(a, "lookingUpHash")
        /\ UNCHANGED <<delivery, job>>

ReadConnector(a) ==
  /\ phase[a] = "readingConnector"
  /\ \/ Connector(a) \notin Known /\ Answer(a, "unknown")
     \/ Connector(a) \in Known \ active /\ Answer(a, "discarded")
     \/ Connector(a) \in active /\ ~ Verified(a) /\ Answer(a, "unauthorized")
     \/ /\ Connector(a) \in active
        /\ Verified(a)
        /\ Advance(a, "lookingUpHash")
        /\ UNCHANGED <<delivery, job>>

(* Mutants: nothing is looked up; the job is added before the row.         *)
LookupHashSkipped(a) ==
  /\ phase[a] = "lookingUpHash"
  /\ Advance(a, "inserting")
  /\ UNCHANGED <<delivery, job>>

LookupHashThenEnqueue(a) ==
  /\ phase[a] = "lookingUpHash"
  /\ \/ WithHash(Payload(a)) # {} /\ Answer(a, "duplicate")
     \/ /\ WithHash(Payload(a)) = {}
        /\ Advance(a, "enqueuing")
        /\ UNCHANGED <<delivery, job>>

(* The lookup is over the deliveries of all connectors.                    *)
LookupHash(a) ==
  /\ phase[a] = "lookingUpHash"
  /\ \/ WithHash(Payload(a)) # {} /\ Answer(a, "duplicate")
     \/ /\ WithHash(Payload(a)) = {}
        /\ Advance(a, "inserting")
        /\ UNCHANGED <<delivery, job>>

(* Mutant: the reply does not wait for the job.                            *)
InsertDeliveryOnly(a) ==
  /\ phase[a] = "inserting"
  /\ delivery' = [delivery EXCEPT ![a] = RowOf(a)]
  /\ Advance(a, "responding")
  /\ UNCHANGED job

InsertDelivery(a) ==
  /\ phase[a] = "inserting"
  /\ delivery' = [delivery EXCEPT ![a] = RowOf(a)]
  /\ Advance(a, "enqueuing")
  /\ UNCHANGED job

Enqueue(a) ==
  /\ phase[a] = "enqueuing"
  /\ job' = [job EXCEPT ![a] = RowOf(a)]
  /\ Advance(a, "responding")
  /\ UNCHANGED delivery

Respond(a) ==
  /\ phase[a] = "responding"
  /\ Answer(a, "accepted")

(* The awaited call is rejected, before it took effect or (in the phase    *)
(* that follows) after it did; the global error handler answers 500.       *)
CallFails(a) ==
  /\ Faults
  /\ InFlight(a)
  /\ Answer(a, "error")

Crash ==
  /\ Faults
  /\ \E a \in Attempts : InFlight(a)
  /\ phase' = [a \in Attempts |-> IF InFlight(a) THEN "lost" ELSE phase[a]]
  /\ UNCHANGED <<active, delivery, job, reply, recorded>>

Handle(a) ==
  ReadConnector(a) \/ LookupHash(a) \/ InsertDelivery(a) \/ Enqueue(a) \/ Respond(a)

Next ==
  \/ \E a \in Attempts : Send(a) \/ Handle(a) \/ CallFails(a)
  \/ Crash
  \/ \E c \in Known : Switch(c)

Spec == Init /\ [][Next]_vars

(* The event loop runs every handler whose awaited call has come back, and *)
(* database and queue answer every call or report an error; no provider    *)
(* has to send anything.                                                   *)
FairSpec == Spec /\ \A a \in Attempts : WF_vars(Handle(a))

-----------------------------------------------------------------------------
(* Type correctness of the tables, the queue and the handlers' state.      *)
TypeOK ==
  /\ active \subseteq Known
  /\ delivery \in [Attempts -> DeliveryRow \cup {None}]
  /\ job \in [Attempts -> DeliveryRow \cup {None}]
  /\ phase \in [Attempts -> Handling \cup {"new", "done", "lost"}]
  /\ reply \in [Attempts -> Ok \cup NotOk \cup {None}]
  /\ recorded \in [Attempts -> BOOLEAN]

-----------------------------------------------------------------------------
(* Safety, whatever overlaps, fails or crashes.                            *)

(* The handler did not get to its end.                                     *)
Interrupted(a) == phase[a] = "lost" \/ reply[a] = "error"

(* A worker never gets a job whose delivery is not on record, nor one for  *)
(* another connector or body than recorded.                                *)
JobsAreRecorded == \A a \in Attempts : job[a] # None => delivery[a] = job[a]

(* A redelivery that is sent when its payload is on record adds neither a  *)
(* row nor a job and is not told it was accepted, whatever the attempt     *)
(* before is still doing and however it ended.  So no payload is processed *)
(* twice by a provider that waits for its answers.                         *)
RedeliveryIsInert ==
  \A a \in Attempts : recorded[a] =>
     delivery[a] = None /\ job[a] = None /\ reply[a] # "accepted"

(* A provider is told "duplicate" or "accepted" only of a payload that is  *)
(* on record for a connector with a row, put there by a request that       *)
(* passed the signature check: a request that fails it leaves no trace     *)
(* that would make a genuine one look like a duplicate.                    *)
AnswersRestOnRecords ==
  \A a \in Attempts : reply[a] \in {"duplicate", "accepted"} =>
     \E b \in WithHash(Payload(a)) : Verified(b) /\ Connector(b) \in Known

(* A provider is told "duplicate" or "accepted" of an event that is neither *)
(* in the queue nor about to be put there only if an attempt with its      *)
(* payload was cut short by an error or a crash.                           *)
LossesComeOfInterruptions ==
  \A a \in Attempts : reply[a] \in {"duplicate", "accepted"} =>
     \E b \in WithHash(Payload(a)) :
        job[b] # None \/ phase[b] = "enqueuing" \/ Interrupted(b)

(* A delivery on record reaches the queue, unless its attempt was cut      *)
(* short.                                                                  *)
DeliveriesReachTheQueue ==
  \A a \in Attempts : delivery[a] # None ~> job[a] # None \/ Interrupted(a)

-----------------------------------------------------------------------------
(* What the route is documented to do, and does not always.                *)

(* A provider is told "2xx" of an event sent to a working connector only   *)
(* when a job for the event is in the queue or about to be put there.      *)
AcknowledgedIsQueued ==
  \A a \in Attempts : reply[a] \in {"duplicate", "accepted"} =>
     \E b \in WithHash(Payload(a)) : job[b] # None \/ phase[b] = "enqueuing"
=============================================================================
