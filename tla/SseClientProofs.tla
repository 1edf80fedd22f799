--------------------------- MODULE SseClientProofs ---------------------------
(***************************************************************************)
(* Proofs about SseClient, for any number of EventSources and any backoff: *)
(* the type invariant, that one thing is under way at most, how long the   *)
(* client waits before a retry, and that every step of the client is a     *)
(* step of EventStream or changes nothing of it.                           *)
(***************************************************************************)
EXTENDS SseClient, DataInduction

(* OneThingUnderWay is inductive together with what the client's fields    *)
(* say of it: this.reconnectTimer is the timer that is pending, if one is, *)
(* and a client that is not wanted has no EventSource.                     *)
TimerIsHeld == held <=> timers = 1

ClosedHasNone == ~ Wanted => es = None

Inv == TypeOK /\ OneThingUnderWay /\ TimerIsHeld /\ ClosedHasNone

LEMMA InvInit == Init => Inv
<1>1. Init => TypeOK
  <2>1. Init => /\ source \in [Sources -> {"closed", "connecting", "open"}]
                /\ backoff \in MinBackoff..MaxBackoff /\ timers \in Nat /\ retries \in 0..MaxRetries
    BY BackoffAssumption DEF Init
  <2> QED
    BY <2>1, Zenon DEF Init, TypeOK
<1>2. Init => OneThingUnderWay /\ TimerIsHeld /\ ClosedHasNone
  BY DEF Init, OneThingUnderWay, Alive, Wanted, TimerIsHeld, ClosedHasNone
<1> QED
  BY <1>1, <1>2 DEF Inv

(* The new EventSource is the only one.                                    *)
LEMMA NewSourceAlone ==
  ASSUME TypeOK, Alive = {}, NewSource
  PROVE  /\ source' \in [Sources -> {"closed", "connecting", "open"}]
         /\ es' \in Sources
         /\ es' # None
         /\ Alive' = {es'}
         /\ source'[es'] = "connecting"
<1>1. PICK x \in Sources : source' = [source EXCEPT ![x] = "connecting"] /\ es' = x
  BY DEF NewSource
<1>2. \A y \in Sources : source[y] = "closed"
  BY DEF Alive
<1> QED
  BY <1>1, <1>2, SourcesAssumption DEF TypeOK, Alive

(* Closing what the client refers to leaves no EventSource alive.          *)
LEMMA DropSourceLast ==
  ASSUME TypeOK, OneThingUnderWay, DropSource
  PROVE  /\ source' \in [Sources -> {"closed", "connecting", "open"}]
         /\ es' = None
         /\ Alive' = {}
BY DEF TypeOK, OneThingUnderWay, DropSource, Alive

(* close() leaves nothing behind, wherever it is called from.              *)
LEMMA CloseEffectInv ==
  ASSUME Inv, CloseEffect, backoff' \in MinBackoff..MaxBackoff, retries' \in 0..MaxRetries,
         UNCHANGED <<started, up>>
  PROVE  Inv'
<1>1. Alive' = {} /\ es' = None /\ source' \in [Sources -> {"closed", "connecting", "open"}]
  BY DropSourceLast DEF Inv, CloseEffect
<1>2. closed' = TRUE /\ held' = FALSE
  BY DEF CloseEffect
<1>3. timers' = 0
  BY DEF Inv, TypeOK, OneThingUnderWay, TimerIsHeld, CloseEffect
<1>4. TypeOK'
  BY <1>1, <1>2, <1>3 DEF Inv, TypeOK
<1>5. ~ Wanted'
  BY <1>2 DEF Wanted
<1> QED
  BY <1>1, <1>2, <1>3, <1>4, <1>5 DEF Inv, OneThingUnderWay, TimerIsHeld, ClosedHasNone

-----------------------------------------------------------------------------
(* Every step keeps the invariant.                                         *)

LEMMA ConnectInv ==
  ASSUME Inv, Connect
  PROVE  Inv'
<1>1. ~ Wanted /\ Alive = {} /\ timers = 0
  BY DEF Connect, Wanted, Inv, OneThingUnderWay
<1>2. /\ source' \in [Sources -> {"closed", "connecting", "open"}]
      /\ es' \in Sources /\ es' # None /\ Alive' = {es'}
  BY <1>1, NewSourceAlone DEF Connect, Inv
<1>3. started' = TRUE /\ closed' = FALSE /\ Wanted'
  BY DEF Connect, Wanted
<1>4. TypeOK'
  BY <1>2, <1>3, Zenon DEF Connect, Inv, TypeOK
<1>5. TimerIsHeld'
  BY DEF Connect, Inv, TimerIsHeld
<1> QED
  BY <1>1, <1>2, <1>3, <1>4, <1>5 DEF Connect, Inv, OneThingUnderWay, ClosedHasNone

(* The EventSource an event comes from is the client's own.                *)
LEMMA OwnSource ==
  ASSUME Inv, NEW x \in Sources, source[x] # "closed"
  PROVE  Wanted /\ es # None /\ x = es /\ timers = 0
BY DEF Inv, OneThingUnderWay, Alive

LEMMA OpenInv ==
  ASSUME Inv, NEW x \in Sources, Open(x)
  PROVE  Inv'
<1>1. backoff' \in MinBackoff..MaxBackoff /\ retries' \in 0..MaxRetries
  BY BackoffAssumption DEF Open
<1>2. CASE CloseEffect
  BY <1>1, <1>2, CloseEffectInv DEF Open
<1>3. CASE source' = [source EXCEPT ![x] = "open"] /\ UNCHANGED <<es, closed, timers, held>>
  <2>1. source[x] # "closed"
    BY DEF Open
  <2>2. Alive' = Alive /\ source' \in [Sources -> {"closed", "connecting", "open"}]
    BY <1>3, <2>1 DEF Alive, Inv, TypeOK
  <2>3. UNCHANGED <<es, closed, timers, held, started, up>> /\ Wanted' = Wanted
    BY <1>3 DEF Open, Wanted
  <2>4. TypeOK'
    BY <1>1, <2>2, <2>3, Zenon DEF Inv, TypeOK
  <2> QED
    BY <2>2, <2>3, <2>4 DEF Inv, OneThingUnderWay, TimerIsHeld, ClosedHasNone
<1> QED
  BY <1>2, <1>3 DEF Open

LEMMA ErrorInv ==
  ASSUME Inv, NEW x \in Sources, Error(x)
  PROVE  Inv'
<1>1. CASE CloseEffect
  BY <1>1, CloseEffectInv DEF Error, Inv, TypeOK
<1>2. CASE DropSource /\ ArmTimer /\ UNCHANGED closed
  <2>1. Wanted /\ timers = 0
    BY OwnSource DEF Error
  <2>2. Alive' = {} /\ es' = None /\ source' \in [Sources -> {"closed", "connecting", "open"}]
    BY <1>2, DropSourceLast DEF Inv
  <2>3. timers' = 1 /\ held' = TRUE
    BY <1>2, <2>1 DEF ArmTimer
  <2>4. UNCHANGED <<backoff, closed, started, up, retries>> /\ Wanted' = Wanted
    BY <1>2 DEF Error, Wanted
  <2>5. TypeOK'
    <3>1. timers' \in Nat
      BY <2>3
    <3> QED
      BY <2>2, <2>3, <2>4, <3>1, Zenon DEF Inv, TypeOK
  <2> QED
    BY <2>1, <2>2, <2>3, <2>4, <2>5 DEF Inv, OneThingUnderWay, TimerIsHeld, ClosedHasNone
<1> QED
  BY <1>1, <1>2 DEF Error

(* A timer that fires is the one of a client that is wanted: close() left  *)
(* none, and the check of this.closed is never needed.                     *)
LEMMA FireInv ==
  ASSUME Inv, Fire
  PROVE  Inv'
<1>1. Wanted /\ es = None /\ timers = 1 /\ Alive = {}
  BY DEF Fire, Inv, OneThingUnderWay
<1>2. NewSource
  BY <1>1 DEF Fire, Wanted
<1>3. /\ source' \in [Sources -> {"closed", "connecting", "open"}]
      /\ es' \in Sources /\ es' # None /\ Alive' = {es'}
  BY <1>1, <1>2, NewSourceAlone DEF Inv
<1>4. timers' = 0 /\ held' = FALSE /\ UNCHANGED <<closed, started, up>> /\ Wanted' = Wanted
  BY <1>1 DEF Fire, Wanted
<1>5. backoff' \in MinBackoff..MaxBackoff /\ retries' \in 0..MaxRetries
  BY BackoffAssumption DEF Fire, Smaller, Inv, TypeOK
<1>6. TypeOK'
  <2>1. timers' \in Nat
    BY <1>4
  <2> QED
    BY <1>3, <1>4, <1>5, <2>1, Zenon DEF Inv, TypeOK
<1> QED
  BY <1>1, <1>3, <1>4, <1>6 DEF Inv, OneThingUnderWay, TimerIsHeld, ClosedHasNone

LEMMA InvStep == Inv /\ [Next]_vars => Inv'
<1> SUFFICES ASSUME Inv, [Next]_vars
             PROVE  Inv'
  OBVIOUS
<1>1. CASE Close
  BY <1>1, CloseEffectInv DEF Close, Inv, TypeOK
<1>2. ASSUME NEW x \in Sources, Message(x)
      PROVE  Inv'
  BY <1>2, CloseEffectInv DEF Message, Inv, TypeOK
<1>3. ASSUME UNCHANGED <<source, es, backoff, closed, timers, held, started, retries>>,
             up' \in BOOLEAN
      PROVE  Inv'
  <2>1. Alive' = Alive /\ Wanted' = Wanted
    BY <1>3 DEF Alive, Wanted
  <2>2. TypeOK'
    BY <1>3, Zenon DEF Inv, TypeOK
  <2> QED
    BY <1>3, <2>1, <2>2 DEF Inv, OneThingUnderWay, TimerIsHeld, ClosedHasNone
<1>4. CASE Toggle
  <2>1. up' \in BOOLEAN
    BY <1>4 DEF Toggle
  <2> QED
    BY <1>3, <1>4, <2>1 DEF Toggle
<1>5. CASE UNCHANGED vars
  BY <1>3, <1>5 DEF vars, Inv, TypeOK
<1> QED
  BY <1>1, <1>2, <1>4, <1>5, ConnectInv, OpenInv, ErrorInv, FireInv DEF Next

LEMMA Invariance == Spec => []Inv
BY InvInit, InvStep, PTL DEF Spec

(* Every reachable state of the client is type correct; the backoff stays  *)
(* between its minimum and its maximum.                                    *)
THEOREM TypeCorrect == Spec => []TypeOK
BY Invariance, PTL DEF Inv

(* A client that is wanted has one EventSource or one timer, one that was  *)
(* closed neither, wherever close() was called from.                       *)
THEOREM OneThingIsUnderWay == Spec => []OneThingUnderWay
BY Invariance, PTL DEF Inv

-----------------------------------------------------------------------------
(* The backoff.  Doubled is a recursive function: that there is one, and   *)
(* that it doubles, is by induction.                                       *)

IsDoubled(f) ==
  f = [n \in 0..MaxRetries |-> IF n = 0 THEN MinBackoff ELSE 2 * f[n - 1]]

LEMMA DoubledExists == \E f : IsDoubled(f)
<1> DEFINE h == [q \in Nat \X Nat |-> 2 * q[2]]
<1>1. h \in [Nat \X Nat -> Nat] /\ \A n, v \in Nat : h[<<n, v>>] = 2 * v
  OBVIOUS
<1>2. MinBackoff \in Nat /\ MaxRetries \in Nat
  BY BackoffAssumption
<1> HIDE DEF h
<1>3. PICK f : IsChain(f, MaxRetries, Nat, MinBackoff, h)
  BY <1>1, <1>2, ChainExists
<1>4. ASSUME NEW n \in 1..MaxRetries
      PROVE  f[n] = 2 * f[n - 1]
  <2>1. n - 1 \in 0..MaxRetries - 1 /\ n - 1 \in Nat /\ (n - 1) + 1 = n
    BY <1>2
  <2>2. f[n - 1] \in Nat /\ f[n] = h[<<n - 1, f[n - 1]>>]
    BY <1>2, <1>3, <2>1 DEF IsChain
  <2> QED
    BY <1>1, <2>1, <2>2
<1>5. \A n \in 0..MaxRetries : n = 0 \/ n \in 1..MaxRetries
  BY <1>2
<1>6. IsDoubled(f)
  BY <1>3, <1>4, <1>5 DEF IsChain, IsDoubled
<1> QED
  BY <1>6

LEMMA DoubledIsDoubled == IsDoubled(Doubled)
<1>1. Doubled = CHOOSE f : IsDoubled(f)
  BY Zenon DEF Doubled, IsDoubled
<1> QED
  BY <1>1, DoubledExists, Zenon

LEMMA DoubledSteps ==
  /\ Doubled[0] = MinBackoff
  /\ \A n \in 0..MaxRetries - 1 : Doubled[n] \in Nat /\ Doubled[n + 1] = 2 * Doubled[n]
<1> DEFINE P == {n \in Nat : n <= MaxRetries => Doubled[n] \in Nat}
<1>1. MaxRetries \in Nat /\ MinBackoff \in Nat
  BY BackoffAssumption
<1>2. Doubled[0] = MinBackoff
  BY <1>1, DoubledIsDoubled DEF IsDoubled
<1>3. ASSUME NEW n \in 0..MaxRetries - 1
      PROVE  Doubled[n + 1] = 2 * Doubled[n]
  <2>1. n + 1 \in 0..MaxRetries /\ n + 1 # 0 /\ (n + 1) - 1 = n
    BY <1>1
  <2> QED
    BY <2>1, DoubledIsDoubled DEF IsDoubled
<1>4. 0 \in P
  BY <1>1, <1>2
<1>5. ASSUME NEW n \in P
      PROVE  n + 1 \in P
  <2>1. n \in Nat /\ (n <= MaxRetries => Doubled[n] \in Nat)
    OBVIOUS
  <2>2. ASSUME n + 1 <= MaxRetries
        PROVE  Doubled[n + 1] \in Nat
    <3>1. n \in 0..MaxRetries - 1 /\ Doubled[n] \in Nat
      BY <1>1, <2>1, <2>2
    <3> QED
      BY <1>3, <3>1
  <2> QED
    BY <2>1, <2>2
<1> HIDE DEF P
<1>6. P = Nat
  <2>1. P \in SUBSET Nat
    BY DEF P
  <2> QED
    BY <1>4, <1>5, <2>1, SetInduction
<1>7. \A n \in 0..MaxRetries - 1 : Doubled[n] \in Nat
  BY <1>1, <1>6 DEF P
<1> QED
  BY <1>2, <1>3, <1>7

(* Capping before doubling or after is the same, as long as the cap is     *)
(* applied again.                                                          *)
LEMMA CapDoubling ==
  ASSUME NEW d \in Nat
  PROVE  Smaller(Smaller(d, MaxBackoff) * 2, MaxBackoff) = Smaller(2 * d, MaxBackoff)
BY BackoffAssumption DEF Smaller

LEMMA BackoffStep ==
  ASSUME TypeOK, BackoffCountsRetries, [Next]_vars
  PROVE  BackoffCountsRetries'
<1>1. retries \in 0..MaxRetries /\ MaxRetries \in Nat
  BY BackoffAssumption DEF TypeOK
<1>2. CASE UNCHANGED <<backoff, retries>>
  BY <1>2 DEF BackoffCountsRetries, Smaller
<1>3. CASE backoff' = MinBackoff /\ retries' = 0
  BY <1>3, DoubledSteps, BackoffAssumption DEF BackoffCountsRetries, Smaller
<1>4. CASE Fire
  <2>1. /\ backoff' = Smaller(backoff * 2, MaxBackoff)
        /\ retries' = IF retries + 1 < MaxRetries THEN retries + 1 ELSE MaxRetries
    BY <1>1, <1>4 DEF Fire, Smaller
  <2>2. SUFFICES ASSUME retries' < MaxRetries
                 PROVE  backoff' = Smaller(Doubled[retries'], MaxBackoff)
    BY DEF BackoffCountsRetries, Smaller
  <2>3. retries' = retries + 1 /\ retries < MaxRetries /\ retries \in 0..MaxRetries - 1
    BY <1>1, <2>1, <2>2
  <2>4. backoff = Smaller(Doubled[retries], MaxBackoff)
    BY <2>3 DEF BackoffCountsRetries
  <2>5. Doubled[retries] \in Nat /\ Doubled[retries'] = 2 * Doubled[retries]
    BY <2>3, DoubledSteps
  <2> QED
    BY <2>1, <2>4, <2>5, CapDoubling
<1> QED
  BY <1>2, <1>3, <1>4 DEF Next, vars, Connect, Close, Toggle, Open, Message, Error

(* The wait before a retry is the minimum doubled with every retry since   *)
(* the last connection, up to the maximum, for any minimum and maximum: a  *)
(* connection resets it, closing and connecting anew does not.             *)
THEOREM BackoffAlwaysCountsRetries == Spec => []BackoffCountsRetries
<1>1. Init => BackoffCountsRetries
  BY DoubledSteps, BackoffAssumption DEF Init, BackoffCountsRetries, Smaller
<1> QED
  BY <1>1, TypeCorrect, BackoffStep, PTL DEF Spec

-----------------------------------------------------------------------------
(* The mapping to EventStream, step by step.                               *)

LEMMA StreamInit == Init => Stream!Init
BY DEF Init, Wanted, Link, Stream!Init

LEMMA StopStep ==
  ASSUME Inv, Wanted, CloseEffect, UNCHANGED up
  PROVE  Stream!Stop
<1>1. Link # "off" /\ Link' = "off"
  BY DEF CloseEffect, Wanted, Link
<1> QED
  BY <1>1 DEF Stream!Stop

LEMMA ConnectStep ==
  ASSUME Inv, Connect
  PROVE  Stream!Start
<1>1. ~ Wanted /\ Alive = {}
  BY DEF Connect, Wanted, Inv, OneThingUnderWay
<1>2. es' # None /\ source'[es'] = "connecting"
  BY <1>1, NewSourceAlone DEF Connect, Inv
<1>3. Link = "off" /\ Link' = "down"
  BY <1>1, <1>2 DEF Connect, Wanted, Link
<1> QED
  BY <1>3 DEF Connect, Stream!Start

LEMMA OpenStep ==
  ASSUME Inv, NEW x \in Sources, Open(x)
  PROVE  Stream!Establish \/ Stream!Stop
<1>1. Wanted /\ x = es /\ es # None /\ source[x] = "connecting"
  BY OwnSource DEF Open
<1>2. CASE CloseEffect
  BY <1>1, <1>2, StopStep DEF Open
<1>3. CASE source' = [source EXCEPT ![x] = "open"] /\ UNCHANGED <<es, closed, timers, held>>
  <2>1. Link = "down" /\ Link' = "up"
    BY <1>1, <1>3 DEF Open, Wanted, Link, Inv, TypeOK
  <2> QED
    BY <2>1 DEF Open, Stream!Establish
<1> QED
  BY <1>2, <1>3 DEF Open

(* An error before the connection was open leaves the link as it was.      *)
LEMMA ErrorStep ==
  ASSUME Inv, NEW x \in Sources, Error(x)
  PROVE  Stream!Drop \/ Stream!Stop \/ UNCHANGED Stream!vars
<1>1. Wanted /\ x = es /\ es # None
  BY OwnSource DEF Error
<1>2. CASE CloseEffect
  BY <1>1, <1>2, StopStep DEF Error
<1>3. CASE DropSource /\ ArmTimer /\ UNCHANGED closed
  <2>1. Link \in {"up", "down"} /\ Link' = "down"
    BY <1>1, <1>3 DEF Error, DropSource, Wanted, Link
  <2> QED
    BY <2>1 DEF Error, Stream!Drop, Stream!vars
<1> QED
  BY <1>2, <1>3 DEF Error

LEMMA FireStep ==
  ASSUME Inv, Fire
  PROVE  UNCHANGED Stream!vars
<1>1. Wanted /\ es = None /\ Alive = {} /\ ~ closed
  BY DEF Fire, Inv, OneThingUnderWay, Wanted
<1>2. es' # None /\ source'[es'] = "connecting"
  BY <1>1, NewSourceAlone DEF Fire, Inv
<1>3. Link = "down" /\ Link' = "down"
  BY <1>1, <1>2 DEF Fire, Wanted, Link
<1> QED
  BY <1>3 DEF Fire, Stream!vars

(* What the client does with EventSources and timers is what EventStream   *)
(* promises a page: the link delivers nothing once closed, and only the    *)
(* loss of the server takes an open one down.                              *)
THEOREM ImplementsSafeEventStream == Spec => Stream!SafeSpec
<1>1. Inv /\ [Next]_vars => [Stream!Next]_(Stream!vars)
  <2> SUFFICES ASSUME Inv, [Next]_vars
               PROVE  [Stream!Next]_(Stream!vars)
    OBVIOUS
  <2>1. CASE Close
    <3>1. CASE Wanted
      BY <2>1, <3>1, StopStep DEF Close, Stream!Next
    <3>2. CASE ~ Wanted
      BY <2>1, <3>2 DEF Close, CloseEffect, Wanted, Link, Stream!vars
    <3> QED
      BY <3>1, <3>2
  <2>2. ASSUME NEW x \in Sources, Message(x)
        PROVE  Stream!Stop
    BY <2>2, OwnSource, StopStep DEF Message
  <2>3. CASE Toggle
    <3>1. Link' = Link
      BY <2>3 DEF Toggle, Wanted, Link
    <3> QED
      BY <2>3, <3>1 DEF Toggle, Stream!Toggle, Stream!Next
  <2>4. CASE UNCHANGED vars
    BY <2>4 DEF vars, Wanted, Link, Stream!vars
  <2> QED
    BY <2>1, <2>2, <2>3, <2>4, ConnectStep, OpenStep, ErrorStep, FireStep DEF Next, Stream!Next
<1> QED
  BY <1>1, StreamInit, Invariance, PTL DEF Spec, Stream!SafeSpec
=============================================================================
