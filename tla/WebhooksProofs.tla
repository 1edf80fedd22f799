--------------------------- MODULE WebhooksProofs ---------------------------
(***************************************************************************)
(* Proofs about Webhooks, for any number of events, connectors, payloads   *)
(* and redeliveries: the type invariant and the safety invariants, whatever *)
(* overlaps, fails or crashes and however connectors are switched.         *)
(***************************************************************************)
EXTENDS Webhooks, TLAPS

LEMMA RowOfType ==
  ASSUME NEW a \in Attempts
  PROVE  /\ RowOf(a) \in DeliveryRow
         /\ RowOf(a) # None
         /\ RowOf(a).payloadHash = Payload(a)
<1>1. a[1] \in Events
  BY DEF Attempts
<1>2. Connector(a) \in Connectors /\ Payload(a) \in Payloads
  BY <1>1, TableAssumption DEF Connector, Payload
<1> QED
  BY <1>2, NoneAssumption DEF RowOf, DeliveryRow

-----------------------------------------------------------------------------
(* The inductive invariant says of every attempt what its handler has      *)
(* established so far.                                                     *)

(* An attempt that is under way has no reply yet.                          *)
InProgress(a) ==
  /\ phase[a] = "new" => ~ recorded[a]
  /\ phase[a] = "new" \/ InFlight(a) => reply[a] = None

(* Row and job come one after the other, and before the reply.             *)
RowThenJob(a) ==
  /\ phase[a] \in {"new", "readingConnector", "lookingUpHash", "inserting"} => delivery[a] = None
  /\ phase[a] = "enqueuing" => delivery[a] # None
  /\ phase[a] = "responding" => job[a] # None
  /\ delivery[a] # None => delivery[a] = RowOf(a)
  /\ job[a] # None => delivery[a] # None /\ job[a] = RowOf(a)

(* Who is past the signature check passed it, for a connector with a row.  *)
Checked(a) ==
  phase[a] \in {"lookingUpHash", "inserting", "enqueuing", "responding"} \/ delivery[a] # None =>
     Verified(a) /\ Connector(a) \in Known

(* A payload that was on record when the attempt was sent stays there:     *)
(* the lookup finds it.                                                    *)
PayloadTaken(a) ==
  recorded[a] =>
     /\ WithHash(Payload(a)) # {}
     /\ phase[a] \notin {"inserting", "enqueuing", "responding"}
     /\ delivery[a] = None
     /\ reply[a] # "accepted"

(* What was replied holds for good.                                        *)
RepliedTruly(a) ==
  /\ reply[a] = "accepted" => job[a] # None
  /\ reply[a] = "duplicate" => WithHash(Payload(a)) # {}

(* A row without its job is on its way to the queue, or was cut short.     *)
QueuedOrCutShort(a) ==
  delivery[a] # None =>
     \/ job[a] # None
     \/ phase[a] \in {"enqueuing", "lost"}
     \/ phase[a] = "done" /\ reply[a] = "error"

AttemptInv(a) ==
  /\ InProgress(a)
  /\ RowThenJob(a)
  /\ Checked(a)
  /\ PayloadTaken(a)
  /\ RepliedTruly(a)
  /\ QueuedOrCutShort(a)

Inv == TypeOK /\ \A a \in Attempts : AttemptInv(a)

LEMMA InvInit == Init => Inv
<1>1. Init => TypeOK
  BY DEF Init, TypeOK
<1>2. Init => \A a \in Attempts : AttemptInv(a)
  BY NoneAssumption DEF Init, Ok, AttemptInv, InProgress, RowThenJob, Checked, PayloadTaken,
     RepliedTruly, QueuedOrCutShort, InFlight, Handling
<1> QED
  BY <1>1, <1>2 DEF Inv

-----------------------------------------------------------------------------
(* One step of an attempt, or of all at a crash.                           *)

LEMMA AnswerInv ==
  ASSUME Inv, NEW a \in Attempts, InFlight(a), NEW code \in Ok \cup NotOk, Answer(a, code),
         code = "accepted" => phase[a] = "responding",
         code = "duplicate" => WithHash(Payload(a)) # {},
         code = "error" \/ phase[a] \in {"readingConnector", "lookingUpHash", "responding"}
  PROVE  Inv'
<1>1. TypeOK'
  BY DEF Inv, TypeOK, Answer
<1>2. /\ phase'[a] = "done" /\ reply'[a] = code
      /\ \A b \in Attempts \ {a} : phase'[b] = phase[b] /\ reply'[b] = reply[b]
      /\ UNCHANGED <<delivery, job, recorded>>
  BY DEF Answer, Inv, TypeOK
<1>3. \A p : WithHash(p)' = WithHash(p)
  BY <1>2 DEF WithHash
<1>4. ASSUME NEW b \in Attempts
      PROVE  AttemptInv(b)'
  <2>1. AttemptInv(b)
    BY DEF Inv
  <2> QED
    BY <1>2, <1>3, <2>1 DEF AttemptInv, InProgress, RowThenJob, Checked, PayloadTaken,
       RepliedTruly, QueuedOrCutShort, InFlight, Handling
<1> QED
  BY <1>1, <1>4 DEF Inv

LEMMA SendInv ==
  ASSUME Inv, NEW a \in Attempts, Send(a)
  PROVE  Inv'
<1>1. TypeOK'
  BY DEF Inv, TypeOK, Send, Handling
<1>2. /\ phase[a] = "new" /\ phase'[a] = "readingConnector"
      /\ recorded'[a] = (WithHash(Payload(a)) # {})
      /\ \A b \in Attempts \ {a} : phase'[b] = phase[b] /\ recorded'[b] = recorded[b]
      /\ UNCHANGED <<delivery, job, reply>>
  BY DEF Send, Inv, TypeOK
<1>3. \A p : WithHash(p)' = WithHash(p)
  BY <1>2 DEF WithHash
<1>4. ASSUME NEW b \in Attempts
      PROVE  AttemptInv(b)'
  <2>1. AttemptInv(b)
    BY DEF Inv
  <2> QED
    BY <1>2, <1>3, <2>1, NoneAssumption DEF AttemptInv, InProgress, RowThenJob, Checked, PayloadTaken,
       RepliedTruly, QueuedOrCutShort, InFlight, Handling, Ok
<1> QED
  BY <1>1, <1>4 DEF Inv

LEMMA ReadConnectorInv ==
  ASSUME Inv, NEW a \in Attempts, ReadConnector(a)
  PROVE  Inv'
<1>1. CASE \E code \in {"unknown", "discarded", "unauthorized"} : Answer(a, code)
  <2>1. PICK code \in {"unknown", "discarded", "unauthorized"} : Answer(a, code)
    BY <1>1
  <2>2. phase[a] = "readingConnector" /\ InFlight(a)
    BY DEF ReadConnector, InFlight, Handling
  <2> QED
    BY <2>1, <2>2, AnswerInv DEF Ok, NotOk
<1>2. CASE /\ Connector(a) \in active
           /\ Verified(a)
           /\ Advance(a, "lookingUpHash")
           /\ UNCHANGED <<delivery, job>>
  <2>1. TypeOK'
    BY <1>2 DEF Inv, TypeOK, Advance, Handling
  <2>2. /\ phase[a] = "readingConnector" /\ phase'[a] = "lookingUpHash"
        /\ \A b \in Attempts \ {a} : phase'[b] = phase[b]
        /\ Verified(a) /\ Connector(a) \in Known
        /\ UNCHANGED <<delivery, job, reply, recorded>>
    BY <1>2 DEF ReadConnector, Advance, Inv, TypeOK
  <2>3. \A p : WithHash(p)' = WithHash(p)
    BY <2>2 DEF WithHash
  <2>4. ASSUME NEW b \in Attempts
        PROVE  AttemptInv(b)'
    <3>1. AttemptInv(b)
      BY DEF Inv
    <3> QED
      BY <2>2, <2>3, <3>1 DEF AttemptInv, InProgress, RowThenJob, Checked, PayloadTaken,
         RepliedTruly, QueuedOrCutShort, InFlight, Handling
  <2> QED
    BY <2>1, <2>4 DEF Inv
<1> QED
  BY <1>1, <1>2 DEF ReadConnector

LEMMA LookupHashInv ==
  ASSUME Inv, NEW a \in Attempts, LookupHash(a)
  PROVE  Inv'
<1>1. CASE WithHash(Payload(a)) # {} /\ Answer(a, "duplicate")
  BY <1>1, AnswerInv DEF LookupHash, InFlight, Handling, Ok
<1>2. CASE /\ WithHash(Payload(a)) = {}
           /\ Advance(a, "inserting")
           /\ UNCHANGED <<delivery, job>>
  <2>1. TypeOK'
    BY <1>2 DEF Inv, TypeOK, Advance, Handling
  <2>2. /\ phase[a] = "lookingUpHash" /\ phase'[a] = "inserting"
        /\ \A b \in Attempts \ {a} : phase'[b] = phase[b]
        /\ WithHash(Payload(a)) = {}
        /\ UNCHANGED <<delivery, job, reply, recorded>>
    BY <1>2 DEF LookupHash, Advance, Inv, TypeOK
  <2>3. \A p : WithHash(p)' = WithHash(p)
    BY <2>2 DEF WithHash
  <2>4. ASSUME NEW b \in Attempts
        PROVE  AttemptInv(b)'
    <3>1. AttemptInv(b)
      BY DEF Inv
    <3> QED
      BY <2>2, <2>3, <3>1 DEF AttemptInv, InProgress, RowThenJob, Checked, PayloadTaken,
         RepliedTruly, QueuedOrCutShort, InFlight, Handling
  <2> QED
    BY <2>1, <2>4 DEF Inv
<1> QED
  BY <1>1, <1>2 DEF LookupHash

(* A row more leaves no payload without one.                               *)
LEMMA InsertDeliveryInv ==
  ASSUME Inv, NEW a \in Attempts, InsertDelivery(a)
  PROVE  Inv'
<1>1. TypeOK'
  BY RowOfType DEF InsertDelivery, Inv, TypeOK, Advance, Handling
<1>2. /\ phase[a] = "inserting" /\ phase'[a] = "enqueuing"
      /\ delivery'[a] = RowOf(a)
      /\ \A b \in Attempts \ {a} : phase'[b] = phase[b] /\ delivery'[b] = delivery[b]
      /\ UNCHANGED <<job, reply, recorded>>
  BY DEF InsertDelivery, Advance, Inv, TypeOK
<1>3. delivery[a] = None
  BY <1>2 DEF Inv, AttemptInv, RowThenJob
<1>4. \A p : WithHash(p) # {} => WithHash(p)' # {}
  BY <1>2, <1>3 DEF WithHash
<1>5. ASSUME NEW b \in Attempts
      PROVE  AttemptInv(b)'
  <2>1. AttemptInv(b)
    BY DEF Inv
  <2> QED
    BY <1>2, <1>3, <1>4, <2>1, RowOfType DEF RowOf, AttemptInv, InProgress, RowThenJob, Checked,
       PayloadTaken, RepliedTruly, QueuedOrCutShort, InFlight, Handling
<1> QED
  BY <1>1, <1>5 DEF Inv

LEMMA EnqueueInv ==
  ASSUME Inv, NEW a \in Attempts, Enqueue(a)
  PROVE  Inv'
<1>1. TypeOK'
  BY RowOfType DEF Enqueue, Inv, TypeOK, Advance, Handling
<1>2. /\ phase[a] = "enqueuing" /\ phase'[a] = "responding"
      /\ job'[a] = RowOf(a)
      /\ \A b \in Attempts \ {a} : phase'[b] = phase[b] /\ job'[b] = job[b]
      /\ UNCHANGED <<delivery, reply, recorded>>
  BY DEF Enqueue, Advance, Inv, TypeOK
<1>3. \A p : WithHash(p)' = WithHash(p)
  BY <1>2 DEF WithHash
<1>4. ASSUME NEW b \in Attempts
      PROVE  AttemptInv(b)'
  <2>1. AttemptInv(b)
    BY DEF Inv
  <2> QED
    BY <1>2, <1>3, <2>1, RowOfType DEF RowOf, AttemptInv, InProgress, RowThenJob, Checked,
       PayloadTaken, RepliedTruly, QueuedOrCutShort, InFlight, Handling
<1> QED
  BY <1>1, <1>4 DEF Inv

LEMMA CrashInv ==
  ASSUME Inv, Crash
  PROVE  Inv'
<1>1. TypeOK'
  BY DEF Crash, Inv, TypeOK
<1>2. /\ \A b \in Attempts : phase'[b] = IF InFlight(b) THEN "lost" ELSE phase[b]
      /\ UNCHANGED <<delivery, job, reply, recorded>>
  BY DEF Crash
<1>3. \A p : WithHash(p)' = WithHash(p)
  BY <1>2 DEF WithHash
<1>4. ASSUME NEW b \in Attempts
      PROVE  AttemptInv(b)'
  <2>1. AttemptInv(b)
    BY DEF Inv
  <2> QED
    BY <1>2, <1>3, <2>1 DEF AttemptInv, InProgress, RowThenJob, Checked, PayloadTaken,
       RepliedTruly, QueuedOrCutShort, InFlight, Handling
<1> QED
  BY <1>1, <1>4 DEF Inv

LEMMA InvStep == Inv /\ [Next]_vars => Inv'
<1> SUFFICES ASSUME Inv, [Next]_vars
             PROVE  Inv'
  OBVIOUS
<1>1. ASSUME NEW a \in Attempts, Respond(a)
      PROVE  Inv'
  BY <1>1, AnswerInv DEF Respond, InFlight, Handling, Ok
<1>2. ASSUME NEW a \in Attempts, CallFails(a)
      PROVE  Inv'
  BY <1>2, AnswerInv DEF CallFails, NotOk
<1>3. CASE UNCHANGED <<delivery, job, phase, reply, recorded>> /\ active' \subseteq Known
  BY <1>3 DEF Inv, TypeOK, AttemptInv, InProgress, RowThenJob, Checked, PayloadTaken,
     RepliedTruly, QueuedOrCutShort, InFlight, WithHash
<1>4. ASSUME NEW c \in Known, Switch(c)
      PROVE  Inv'
  BY <1>3, <1>4 DEF Switch, Inv, TypeOK
<1>5. CASE UNCHANGED vars
  BY <1>3, <1>5 DEF vars, Inv, TypeOK
<1> QED
  BY <1>1, <1>2, <1>4, <1>5, SendInv, ReadConnectorInv, LookupHashInv, InsertDeliveryInv,
     EnqueueInv, CrashInv DEF Next, Handle

LEMMA Invariance == Spec => []Inv
BY InvInit, InvStep, PTL DEF Spec

-----------------------------------------------------------------------------
(* Every reachable state of the webhook route is type correct.             *)
THEOREM TypeCorrect == Spec => []TypeOK
BY Invariance, PTL DEF Inv

(* No job without its delivery, and both about the same connector and      *)
(* body, wherever errors and crashes stop the handler.                     *)
THEOREM JobsAreAlwaysRecorded == Spec => []JobsAreRecorded
<1>1. Inv => JobsAreRecorded
  BY DEF Inv, AttemptInv, RowThenJob, JobsAreRecorded
<1> QED
  BY <1>1, Invariance, PTL

(* A redelivery of a payload on record adds nothing and is not accepted,   *)
(* however the attempt before it ends.                                     *)
THEOREM RedeliveriesAreInert == Spec => []RedeliveryIsInert
<1>1. Inv => RedeliveryIsInert
  BY DEF Inv, AttemptInv, RowThenJob, PayloadTaken, RedeliveryIsInert
<1> QED
  BY <1>1, Invariance, PTL

(* What a provider is told of a payload rests on a delivery that passed    *)
(* the signature check: a forged request leaves nothing behind.            *)
THEOREM AnswersAlwaysRestOnRecords == Spec => []AnswersRestOnRecords
<1>1. ASSUME Inv, NEW a \in Attempts, reply[a] \in {"duplicate", "accepted"}
      PROVE  \E b \in WithHash(Payload(a)) : Verified(b) /\ Connector(b) \in Known
  <2>1. PICK b \in Attempts : b \in WithHash(Payload(a))
    <3>1. CASE reply[a] = "duplicate"
      BY <1>1, <3>1 DEF Inv, AttemptInv, RepliedTruly, WithHash
    <3>2. CASE reply[a] = "accepted"
      BY <1>1, <3>2, RowOfType DEF Inv, AttemptInv, RepliedTruly, RowThenJob, WithHash
    <3> QED
      BY <1>1, <3>1, <3>2
  <2> QED
    BY <1>1, <2>1 DEF Inv, AttemptInv, Checked, WithHash
<1>2. Inv => AnswersRestOnRecords
  BY <1>1 DEF AnswersRestOnRecords
<1> QED
  BY <1>2, Invariance, PTL

(* An event that is acknowledged and neither queued nor about to be is     *)
(* lost to an error or a crash in the middle of an attempt.                *)
THEOREM LossesAreInterruptions == Spec => []LossesComeOfInterruptions
<1>1. ASSUME Inv, NEW a \in Attempts, reply[a] \in {"duplicate", "accepted"}
      PROVE  \E b \in WithHash(Payload(a)) :
                job[b] # None \/ phase[b] = "enqueuing" \/ Interrupted(b)
  <2>1. PICK b \in Attempts : b \in WithHash(Payload(a))
    <3>1. CASE reply[a] = "duplicate"
      BY <1>1, <3>1 DEF Inv, AttemptInv, RepliedTruly, WithHash
    <3>2. CASE reply[a] = "accepted"
      BY <1>1, <3>2, RowOfType DEF Inv, AttemptInv, RepliedTruly, RowThenJob, WithHash
    <3> QED
      BY <1>1, <3>1, <3>2
  <2> QED
    BY <1>1, <2>1 DEF Inv, AttemptInv, QueuedOrCutShort, WithHash, Interrupted
<1>2. Inv => LossesComeOfInterruptions
  BY <1>1 DEF LossesComeOfInterruptions
<1> QED
  BY <1>2, Invariance, PTL
=============================================================================
