------------------------- MODULE ApprovalsPageProofs -------------------------
(***************************************************************************)
(* Proofs about ApprovalsPage, for any number of approvals: the type       *)
(* invariant and the safety invariants of the list, in whatever order the  *)
(* fetch, the events and the answers to decisions arrive.                  *)
(***************************************************************************)
EXTENDS ApprovalsPage, TLAPS

Calls(a) == sent[a] + granted[a]

(* The cards that the page has been given for an approval: one by its      *)
(* event, one by the answer to the fetch.                                  *)
Given(a) ==
  (IF news[a] = "shown" THEN 1 ELSE 0) + (IF fetch = "done" THEN 1 ELSE 0)

(* A page that is not there has nothing, and one that is there has started *)
(* its fetch; an answer is under way only for a fetch that waits for it.   *)
Visit ==
  /\ fetch = "idle" => link = "off" /\ \A a \in Approvals : sent[a] = 0 /\ granted[a] = 0
  /\ link = "off" => /\ fetch \in {"idle", "failed"}
                     /\ \A a \in Approvals : cards[a] = 0
  /\ answer # {} => Loading

(* Every card is one the page was given, and so is every call while the    *)
(* page was given one card only: whose buttons are enabled and the calls   *)
(* under way share it.  React loses a card of two only.                    *)
CallsShareCards(a) ==
  /\ busy[a] <= cards[a]
  /\ cards[a] <= Given(a)
  /\ busy[a] <= Calls(a)
  /\ Mounted /\ Given(a) < 2 => Calls(a) + cards[a] <= Given(a) + busy[a]
  /\ a \in strays => Given(a) = 2

(* A call is granted only by deciding the row, which then stays decided;   *)
(* an approval is announced only when it has a row.                        *)
RowsFirst(a) ==
  /\ granted[a] > 0 => row[a] = "decided"
  /\ row[a] = "absent" => news[a] = "unsent"

(* An approval that waits, and that the answer to the fetch leaves out, is *)
(* listed, will be announced, or was overlooked.                           *)
Listed(a) ==
  Mounted /\ ReadWithout(a) /\ row[a] # "decided" =>
     cards[a] > 0 \/ news[a] = "unsent" \/ a \in overlooked

(* What would bring back an approval that is settled is no longer to come. *)
Settled(a) ==
  a \in settled =>
     /\ cards[a] = 0
     /\ news[a] # "unsent"
     /\ row[a] = "decided"
     /\ \A items \in answer : a \notin items

ApprovalInv(a) == CallsShareCards(a) /\ RowsFirst(a) /\ Listed(a) /\ Settled(a)

Inv == TypeOK /\ Visit /\ \A a \in Approvals : ApprovalInv(a)

-----------------------------------------------------------------------------
LEMMA InvInit == Init => Inv
<1> SUFFICES ASSUME Init
             PROVE  Inv
  OBVIOUS
<1>1. TypeOK
  BY DEF Init, Stream!Init, TypeOK
<1>2. Visit
  BY DEF Init, Stream!Init, Visit
<1>3. ASSUME NEW a \in Approvals
      PROVE  ApprovalInv(a)
  BY <1>3 DEF Init, Stream!Init, ApprovalInv, CallsShareCards, Given, Calls, Mounted,
              RowsFirst, Listed, ReadWithout, Settled
<1> QED
  BY <1>1, <1>2, <1>3 DEF Inv

-----------------------------------------------------------------------------
(* Drawing a new list forgets at most that a card of two is submitting.    *)
LEMMA Reconciled ==
  ASSUME TypeOK, Reconcile
  PROVE  /\ busy' \in [Approvals -> 0..2] /\ strays' \in SUBSET Approvals
         /\ \A a \in Approvals :
               /\ cards'[a] = 0 => busy'[a] = 0
               /\ busy'[a] <= busy[a]
               /\ cards[a] # 2 \/ cards'[a] # 2
                     => /\ cards'[a] # 0 => busy'[a] = busy[a]
                        /\ (a \in strays') = (a \in strays)
<1>1. PICK idle \in SUBSET {a \in Crowded : busy[a] < 2},
           submitting \in SUBSET {a \in Crowded : busy[a] > 0} :
        /\ busy' = [a \in Approvals |->
                      IF cards'[a] = 0 THEN 0
                      ELSE IF a \in submitting THEN busy[a] - 1 ELSE busy[a]]
        /\ strays' = strays \cup idle
  BY DEF Reconcile
<1>2. \A a \in submitting : busy[a] > 0
  BY DEF Crowded
<1>3. \A a \in Approvals : cards[a] # 2 \/ cards'[a] # 2 => a \notin idle /\ a \notin submitting
  BY DEF Crowded
<1>4. strays' \in SUBSET Approvals
  BY <1>1 DEF TypeOK, Crowded
<1>5. \A a \in Approvals : busy[a] \in 0..2
  BY DEF TypeOK
<1>6. busy' \in [Approvals -> 0..2]
  BY <1>1, <1>2, <1>5
<1> QED
  BY <1>1, <1>2, <1>3, <1>4, <1>5, <1>6

-----------------------------------------------------------------------------
(* Every step keeps the invariant.                                         *)

LEMMA MountInv ==
  ASSUME Inv, Mount
  PROVE  Inv'
<1>1. /\ fetch = "idle" /\ fetch' = "first" /\ link = "off" /\ link' = "down"
      /\ UNCHANGED <<reachable, row, news, answer, cards, overlooked, busy, strays, sent, granted, settled>>
  BY DEF Mount, Stream!Start, calls
<1>2. answer = {}
  BY <1>1 DEF Inv, Visit, Loading
<1>3. \A a \in Approvals : cards[a] = 0 /\ sent[a] = 0 /\ granted[a] = 0 /\ busy[a] = 0
  BY <1>1 DEF Inv, Visit, TypeOK, ApprovalInv, CallsShareCards
<1>4. TypeOK'
  BY <1>1 DEF Inv, TypeOK
<1>5. Visit'
  BY <1>1, <1>2 DEF Visit, Loading
<1>6. ASSUME NEW a \in Approvals
      PROVE  ApprovalInv(a)'
  <2>1. CallsShareCards(a)'
    BY <1>1, <1>3, <1>6 DEF Inv, ApprovalInv, CallsShareCards, Calls, Given
  <2>2. RowsFirst(a)' /\ Settled(a)'
    BY <1>1, <1>6 DEF Inv, ApprovalInv, RowsFirst, Settled
  <2>3. Listed(a)'
    BY <1>1, <1>2 DEF Listed, ReadWithout
  <2> QED
    BY <2>1, <2>2, <2>3 DEF ApprovalInv
<1> QED
  BY <1>4, <1>5, <1>6 DEF Inv

LEMMA UnmountInv ==
  ASSUME Inv, Unmount
  PROVE  Inv'
<1>1. /\ link' = "off" /\ fetch' = "failed" /\ answer' = {} /\ strays' = {}
      /\ UNCHANGED <<reachable, row, news, sent, granted, settled, overlooked>>
  BY DEF Unmount, Stream!Stop
<1>2. /\ cards' \in [Approvals -> 0..2] /\ busy' \in [Approvals -> 0..2]
      /\ \A a \in Approvals : cards'[a] = 0 /\ busy'[a] = 0
  BY DEF Unmount
<1>3. TypeOK'
  BY <1>1, <1>2 DEF Inv, TypeOK
<1>4. Visit'
  BY <1>1, <1>2 DEF Visit
<1>5. ASSUME NEW a \in Approvals
      PROVE  ApprovalInv(a)'
  <2>1. CallsShareCards(a)'
    BY <1>1, <1>2, <1>5 DEF Inv, ApprovalInv, TypeOK, CallsShareCards, Calls, Given, Mounted
  <2>2. RowsFirst(a)' /\ Settled(a)' /\ Listed(a)'
    BY <1>1, <1>2, <1>5 DEF Inv, ApprovalInv, RowsFirst, Settled, Listed, Mounted
  <2> QED
    BY <2>1, <2>2 DEF ApprovalInv
<1> QED
  BY <1>3, <1>4, <1>5 DEF Inv

(* What waits when the gateway reads the rows is in the answer.            *)
LEMMA FetchAnsweredInv ==
  ASSUME Inv, FetchAnswered
  PROVE  Inv'
<1>1. /\ Loading /\ Loading' /\ answer = {}
      /\ answer' = {{a \in Approvals : row[a] = "pending"}}
      /\ UNCHANGED <<link, reachable, row, news, fetch, cards, overlooked, busy, strays, sent, granted, settled>>
  BY DEF FetchAnswered, stream, calls, Loading
<1>2. TypeOK'
  BY <1>1 DEF Inv, TypeOK
<1>3. Visit'
  BY <1>1 DEF Inv, Visit
<1>4. ASSUME NEW a \in Approvals
      PROVE  ApprovalInv(a)'
  <2>1. CallsShareCards(a)' /\ RowsFirst(a)'
    BY <1>1, <1>4 DEF Inv, ApprovalInv, CallsShareCards, Calls, Given, Mounted, RowsFirst
  <2>2. Settled(a)'
    BY <1>1, <1>4 DEF Inv, ApprovalInv, Settled
  <2>3. Listed(a)'
    BY <1>1, <1>4 DEF Inv, TypeOK, ApprovalInv, RowsFirst, Listed, Mounted, ReadWithout, Loading
  <2> QED
    BY <2>1, <2>2, <2>3 DEF ApprovalInv
<1> QED
  BY <1>2, <1>3, <1>4 DEF Inv

(* The answer gives an approval a card of its own or takes its cards away. *)
LEMMA FetchDoneInv ==
  ASSUME Inv, FetchDone
  PROVE  Inv'
<1>1. PICK items \in answer : Replace(items)
  BY DEF FetchDone
<1>2. /\ fetch' = "done" /\ answer' = {} /\ fetch \in {"first", "second"} /\ link # "off"
      /\ UNCHANGED <<link, reachable, row, news, sent, granted, settled>>
  BY <1>1 DEF FetchDone, stream, Inv, Visit, Loading
<1>3. /\ cards' \in [Approvals -> 0..2] /\ busy' \in [Approvals -> 0..2]
      /\ strays' \in SUBSET Approvals
      /\ \A a \in Approvals : /\ cards'[a] = IF a \in items THEN 1 ELSE 0
                              /\ busy'[a] = IF a \in items THEN busy[a] ELSE 0
                              /\ (a \in strays') = (a \in strays)
  <2>1. cards' \in [Approvals -> 0..2]
    BY <1>1 DEF Replace
  <2>2. \A a \in Approvals : cards'[a] = IF a \in items THEN 1 ELSE 0
    BY <1>1 DEF Replace
  <2>3. Reconcile /\ TypeOK
    BY <1>1 DEF Replace, Inv
  <2> QED
    BY <2>1, <2>2, <2>3, Reconciled
<1>4. overlooked' = overlooked \cup {a \in Approvals : cards[a] > 0 /\ a \notin items}
  BY <1>1 DEF Replace
<1>5. ASSUME NEW a \in Approvals
      PROVE  ApprovalInv(a)'
  <2>1. CallsShareCards(a)'
    <3>1. /\ Given(a) \in 0..1 /\ Given(a)' = Given(a) + 1 /\ a \notin strays
          /\ cards[a] \in Nat /\ busy[a] \in Nat /\ Calls(a) \in Nat
          /\ CallsShareCards(a) /\ Mounted /\ Calls(a)' = Calls(a)
      BY <1>2, <1>5 DEF Inv, ApprovalInv, TypeOK, CallsShareCards, Calls, Given, Mounted
    <3> QED
      BY <1>3, <1>5, <3>1 DEF CallsShareCards
  <2>2. RowsFirst(a)'
    BY <1>2, <1>5 DEF Inv, ApprovalInv, RowsFirst
  <2>3. Settled(a)'
    BY <1>1, <1>2, <1>3, <1>5 DEF Inv, ApprovalInv, Settled
  <2>4. Listed(a)'
    <3>1. CASE a \in items
      BY <1>3, <1>5, <3>1 DEF Listed
    <3>2. CASE a \notin items
      BY <1>1, <1>2, <1>3, <1>4, <1>5, <3>2 DEF Inv, ApprovalInv, Listed, ReadWithout, Mounted
    <3> QED
      BY <3>1, <3>2
  <2> QED
    BY <2>1, <2>2, <2>3, <2>4 DEF ApprovalInv
<1>7. TypeOK'
  BY <1>2, <1>3, <1>4 DEF Inv, TypeOK
<1>8. Visit'
  BY <1>2 DEF Visit
<1> QED
  BY <1>5, <1>7, <1>8 DEF Inv

LEMMA FetchFailsInv ==
  ASSUME Inv, FetchFails
  PROVE  Inv'
<1>1. /\ Loading /\ fetch' \in {"second", "failed"} /\ answer' = {}
      /\ fetch \in {"first", "second"}
      /\ UNCHANGED <<link, reachable, row, news, cards, overlooked, busy, strays, sent, granted, settled>>
  BY DEF FetchFails, stream, calls, Loading
<1>2. TypeOK'
  BY <1>1 DEF Inv, TypeOK
<1>3. Visit'
  BY <1>1 DEF Inv, Visit
<1>4. ASSUME NEW a \in Approvals
      PROVE  ApprovalInv(a)'
  <2>1. CallsShareCards(a)' /\ RowsFirst(a)' /\ Settled(a)'
    BY <1>1, <1>4 DEF Inv, ApprovalInv, CallsShareCards, Calls, Given, Mounted, RowsFirst, Settled
  <2>2. Listed(a)'
    BY <1>1 DEF Listed, ReadWithout
  <2> QED
    BY <2>1, <2>2 DEF ApprovalInv
<1> QED
  BY <1>2, <1>3, <1>4 DEF Inv

(* An approval that an action leaves alone keeps its part, also when its   *)
(* two cards are drawn anew.                                               *)
LEMMA Untouched ==
  ASSUME Inv, NEW b \in Approvals,
         UNCHANGED <<link, fetch, answer>>,
         UNCHANGED <<row[b], news[b], cards[b], sent[b], granted[b]>>,
         busy'[b] \in Nat, busy'[b] <= busy[b],
         cards[b] # 2 => busy'[b] = busy[b] /\ (b \in strays') = (b \in strays),
         (b \in settled') = (b \in settled), (b \in overlooked') = (b \in overlooked)
  PROVE  ApprovalInv(b)'
<1>1. /\ ApprovalInv(b) /\ cards[b] \in Nat /\ busy[b] \in Nat /\ Calls(b) \in Nat
      /\ UNCHANGED <<Calls(b), Given(b), Mounted>> /\ Given(b) \in 0..2
  BY DEF Inv, TypeOK, Calls, Given, Mounted
<1>2. CallsShareCards(b)'
  <2>1. CASE cards[b] = 2
    BY <1>1, <2>1 DEF ApprovalInv, CallsShareCards
  <2>2. CASE cards[b] # 2
    BY <1>1, <2>2 DEF ApprovalInv, CallsShareCards
  <2> QED
    BY <2>1, <2>2
<1>3. RowsFirst(b)'
  BY <1>1 DEF ApprovalInv, RowsFirst
<1>4. Listed(b)'
  <2>1. ReadWithout(b)' = ReadWithout(b)
    BY DEF ReadWithout
  <2> QED
    BY <1>1, <2>1 DEF ApprovalInv, Listed, Mounted
<1>5. Settled(b)'
  BY <1>1 DEF ApprovalInv, Settled
<1> QED
  BY <1>2, <1>3, <1>4, <1>5 DEF ApprovalInv

LEMMA PushInv ==
  ASSUME Inv, NEW a \in Approvals, Push(a)
  PROVE  Inv'
<1>1. /\ row[a] # "absent" /\ news[a] = "unsent"
      /\ UNCHANGED <<link, reachable, row, fetch, answer, sent, granted, settled>>
  BY DEF Push, stream
<1>2. /\ news' \in [Approvals -> {"unsent", "shown", "missed"}]
      /\ cards' \in [Approvals -> Nat]
      /\ busy' \in [Approvals -> 0..2] /\ strays' \in SUBSET Approvals
      /\ overlooked' \in SUBSET Approvals
      /\ \A b \in Approvals \ {a} : /\ news'[b] = news[b] /\ cards'[b] = cards[b]
                                    /\ (b \in overlooked') = (b \in overlooked)
                                    /\ busy'[b] <= busy[b]
                                    /\ cards[b] # 2 => /\ busy'[b] = busy[b]
                                                       /\ (b \in strays') = (b \in strays)
      /\ UNCHANGED busy[a] /\ (a \in strays') = (a \in strays)
  <2>1. TypeOK /\ \A b \in Approvals : cards[b] \in 0..2 /\ busy[b] \in 0..2
    BY DEF Inv, TypeOK
  <2>2. CASE link = "up"
    <3>1. /\ news' = [news EXCEPT ![a] = "shown"] /\ UNCHANGED overlooked
          /\ cards' = [cards EXCEPT ![a] = @ + 1] /\ Reconcile
      BY <2>2 DEF Push, Prepend
    <3>2. cards'[a] = cards[a] + 1 /\ \A b \in Approvals \ {a} : cards'[b] = cards[b]
      BY <2>1, <3>1 DEF TypeOK
    <3>3. \A b \in Approvals : cards[b] = 0 => busy[b] = 0
      BY <2>1 DEF Inv, ApprovalInv, CallsShareCards
    <3> QED
      BY <2>1, <3>1, <3>2, <3>3, Reconciled DEF TypeOK
  <2>3. CASE link # "up"
    BY <2>1, <2>3 DEF Push, TypeOK
  <2> QED
    BY <2>2, <2>3
<1>3. ApprovalInv(a)'
  <2>1. CASE link = "up"
    <3>1. news'[a] = "shown" /\ cards'[a] = cards[a] + 1
      BY <2>1 DEF Push, Prepend, Inv, TypeOK
    <3>2. CallsShareCards(a)'
      BY <1>1, <1>2, <2>1, <3>1 DEF Inv, TypeOK, ApprovalInv, CallsShareCards, Calls, Given, Mounted
    <3>3. RowsFirst(a)' /\ Settled(a)'
      BY <1>1, <3>1 DEF Inv, ApprovalInv, RowsFirst, Settled
    <3>4. Listed(a)'
      BY <3>1 DEF Listed, Inv, TypeOK
    <3> QED
      BY <3>2, <3>3, <3>4 DEF ApprovalInv
  <2>2. CASE link # "up"
    <3>1. /\ news'[a] = "missed" /\ cards'[a] = cards[a]
          /\ overlooked' = IF ReadWithout(a) THEN overlooked \cup {a} ELSE overlooked
      BY <2>2 DEF Push, Inv, TypeOK
    <3>2. CallsShareCards(a)' /\ RowsFirst(a)' /\ Settled(a)'
      BY <1>1, <1>2, <3>1 DEF Inv, ApprovalInv, CallsShareCards, Calls, Given, Mounted, RowsFirst, Settled
    <3>3. Listed(a)'
      BY <1>1, <3>1 DEF Listed, ReadWithout
    <3> QED
      BY <3>2, <3>3 DEF ApprovalInv
  <2> QED
    BY <2>1, <2>2
<1>4. ASSUME NEW b \in Approvals \ {a}
      PROVE  ApprovalInv(b)'
  BY <1>1, <1>2, <1>4, Untouched DEF Inv
<1>5. \A b \in Approvals : ApprovalInv(b)'
  BY <1>3, <1>4
<1>6. TypeOK'
  <2>1. cards' \in [Approvals -> 0..2]
    BY <1>1, <1>2, <1>5 DEF ApprovalInv, CallsShareCards, Given
  <2> QED
    BY <1>1, <1>2, <2>1 DEF Inv, TypeOK
<1>7. Visit'
  <2>1. link = "off" => UNCHANGED cards
    BY DEF Push
  <2> QED
    BY <1>1, <2>1 DEF Inv, Visit, Loading
<1> QED
  BY <1>5, <1>6, <1>7 DEF Inv

(* A button that can be pressed is on a card, and so on a page that is     *)
(* there.                                                                  *)
LEMMA DecideInv ==
  ASSUME Inv, NEW a \in Approvals, Decide(a)
  PROVE  Inv'
<1>1. /\ \/ busy[a] < cards[a] /\ busy' = [busy EXCEPT ![a] = @ + 1]
         \/ a \in strays /\ UNCHANGED busy
      /\ UNCHANGED <<link, reachable, row, news, fetch, answer, cards, overlooked, strays, granted, settled>>
  BY DEF Decide, Clickable, stream, list
<1>2. /\ \/ busy[a] < cards[a] /\ busy'[a] = busy[a] + 1
         \/ a \in strays /\ busy'[a] = busy[a]
      /\ sent'[a] = sent[a] + 1
      /\ \A b \in Approvals \ {a} : busy'[b] = busy[b] /\ sent'[b] = sent[b]
      /\ busy' \in [Approvals -> Nat] /\ sent' \in [Approvals -> Nat]
  BY <1>1 DEF Decide, Inv, TypeOK
<1>3. link # "off" /\ fetch # "idle"
  <2>1. CASE busy[a] < cards[a]
    BY <2>1 DEF Inv, TypeOK, Visit
  <2>2. CASE a \in strays
    BY <2>2 DEF Inv, TypeOK, Visit, ApprovalInv, CallsShareCards, Given
  <2> QED
    BY <1>1, <2>1, <2>2
<1>4. ApprovalInv(a)'
  <2>1. CallsShareCards(a)'
    BY <1>1, <1>2, <1>3 DEF Inv, TypeOK, ApprovalInv, CallsShareCards, Calls, Given, Mounted
  <2>2. RowsFirst(a)' /\ Settled(a)' /\ Listed(a)'
    BY <1>1 DEF Inv, ApprovalInv, RowsFirst, Settled, Listed, Mounted, ReadWithout
  <2> QED
    BY <2>1, <2>2 DEF ApprovalInv
<1>5. ASSUME NEW b \in Approvals \ {a}
      PROVE  ApprovalInv(b)'
  BY <1>1, <1>2, <1>5, Untouched DEF Inv
<1>6. \A b \in Approvals : ApprovalInv(b)'
  BY <1>4, <1>5
<1>7. TypeOK'
  <2>1. busy' \in [Approvals -> 0..2]
    BY <1>1, <1>2, <1>6 DEF Inv, TypeOK, ApprovalInv, CallsShareCards
  <2> QED
    BY <1>1, <1>2, <2>1 DEF Inv, TypeOK
<1>8. Visit'
  BY <1>1, <1>3 DEF Inv, Visit, Loading
<1> QED
  BY <1>6, <1>7, <1>8 DEF Inv

LEMMA GrantInv ==
  ASSUME Inv, NEW a \in Approvals, Grant(a)
  PROVE  Inv'
<1>1. /\ sent[a] > 0
      /\ UNCHANGED <<link, reachable, news, fetch, answer, cards, overlooked, busy, strays, settled>>
  BY DEF Grant, stream, list
<1>2. /\ row'[a] = "decided" /\ sent'[a] = sent[a] - 1 /\ granted'[a] = granted[a] + 1
      /\ \A b \in Approvals \ {a} :
            row'[b] = row[b] /\ sent'[b] = sent[b] /\ granted'[b] = granted[b]
      /\ row' \in [Approvals -> {"absent", "pending", "decided"}]
      /\ sent' \in [Approvals -> Nat] /\ granted' \in [Approvals -> Nat]
  BY DEF Grant, Inv, TypeOK
<1>3. fetch # "idle"
  BY <1>1 DEF Inv, TypeOK, Visit
<1>4. ApprovalInv(a)'
  <2>1. Calls(a)' = Calls(a)
    BY <1>1, <1>2 DEF Inv, TypeOK, Calls
  <2>2. CallsShareCards(a)'
    BY <1>1, <2>1 DEF Inv, ApprovalInv, CallsShareCards, Given, Mounted
  <2>3. RowsFirst(a)' /\ Settled(a)' /\ Listed(a)'
    BY <1>1, <1>2 DEF Inv, ApprovalInv, RowsFirst, Settled, Listed
  <2> QED
    BY <2>2, <2>3 DEF ApprovalInv
<1>5. ASSUME NEW b \in Approvals \ {a}
      PROVE  ApprovalInv(b)'
  BY <1>1, <1>2, <1>5, Untouched DEF Inv, TypeOK
<1>6. TypeOK'
  BY <1>1, <1>2 DEF Inv, TypeOK
<1>7. Visit'
  BY <1>1, <1>3 DEF Inv, Visit, Loading
<1> QED
  BY <1>4, <1>5, <1>6, <1>7 DEF Inv

(* The card of a decision that was granted, and its doubles, are gone.     *)
LEMMA GrantedInv ==
  ASSUME Inv, NEW a \in Approvals, Granted(a)
  PROVE  Inv'
<1>1. /\ granted[a] > 0
      /\ UNCHANGED <<link, reachable, row, news, fetch, answer, overlooked, sent>>
  BY DEF Granted, stream
<1>2. /\ cards'[a] = 0 /\ busy'[a] = 0 /\ granted'[a] = granted[a] - 1
      /\ \A b \in Approvals \ {a} :
            /\ cards'[b] = cards[b] /\ granted'[b] = granted[b]
            /\ busy'[b] <= busy[b]
            /\ cards[b] # 2 => busy'[b] = busy[b] /\ (b \in strays') = (b \in strays)
      /\ cards' \in [Approvals -> 0..2] /\ busy' \in [Approvals -> 0..2]
      /\ granted' \in [Approvals -> Nat]
      /\ strays' \in SUBSET Approvals /\ (a \in strays') = (a \in strays)
  <2>1. TypeOK /\ \A b \in Approvals : cards[b] \in 0..2 /\ busy[b] \in 0..2
    BY DEF Inv, TypeOK
  <2>2. cards' = [cards EXCEPT ![a] = 0] /\ Reconcile
    BY DEF Granted, Remove
  <2>3. /\ cards'[a] = 0 /\ \A b \in Approvals \ {a} : cards'[b] = cards[b]
        /\ cards' \in [Approvals -> 0..2]
    BY <2>1, <2>2 DEF TypeOK
  <2>4. \A b \in Approvals : cards[b] = 0 => busy[b] = 0
    BY <2>1 DEF Inv, ApprovalInv, CallsShareCards
  <2>5. /\ granted' \in [Approvals -> Nat] /\ granted'[a] = granted[a] - 1
        /\ \A b \in Approvals \ {a} : granted'[b] = granted[b]
    BY <1>1, <2>1 DEF Granted, TypeOK
  <2> QED
    BY <2>1, <2>2, <2>3, <2>4, <2>5, Reconciled
<1>3. /\ settled' = IF news[a] # "unsent" /\ ~ \E items \in answer : a \in items
                    THEN settled \cup {a} ELSE settled
      /\ settled' \in SUBSET Approvals
  BY DEF Granted, Inv, TypeOK
<1>4. row[a] = "decided" /\ fetch # "idle"
  BY <1>1 DEF Inv, TypeOK, Visit, ApprovalInv, RowsFirst
<1>5. ApprovalInv(a)'
  <2>1. CallsShareCards(a)'
    BY <1>1, <1>2 DEF Inv, TypeOK, ApprovalInv, CallsShareCards, Calls, Given, Mounted
  <2>2. RowsFirst(a)' /\ Listed(a)'
    BY <1>1, <1>4 DEF RowsFirst, Listed
  <2>3. Settled(a)'
    BY <1>1, <1>2, <1>3, <1>4 DEF Inv, ApprovalInv, Settled
  <2> QED
    BY <2>1, <2>2, <2>3 DEF ApprovalInv
<1>6. ASSUME NEW b \in Approvals \ {a}
      PROVE  ApprovalInv(b)'
  BY <1>1, <1>2, <1>3, <1>6, Untouched DEF Inv
<1>7. TypeOK'
  BY <1>1, <1>2, <1>3 DEF Inv, TypeOK
<1>8. Visit'
  BY <1>1, <1>2, <1>4 DEF Inv, Visit, Loading
<1> QED
  BY <1>5, <1>6, <1>7, <1>8 DEF Inv

LEMMA RefusedInv ==
  ASSUME Inv, NEW a \in Approvals, Refused(a)
  PROVE  Inv'
<1>1. /\ Calls(a) > 0
      /\ UNCHANGED <<link, reachable, row, news, fetch, answer, cards, overlooked, strays, settled>>
  BY DEF Refused, stream, list, Calls, Inv, TypeOK
<1>2. /\ Calls(a)' = Calls(a) - 1
      /\ granted'[a] > 0 => granted[a] > 0
      /\ sent' \in [Approvals -> Nat] /\ granted' \in [Approvals -> Nat]
      /\ \A b \in Approvals \ {a} : sent'[b] = sent[b] /\ granted'[b] = granted[b]
  BY DEF Refused, Calls, Inv, TypeOK
<1>3. /\ busy'[a] = busy[a] - 1 \/ (busy'[a] = busy[a] /\ busy[a] < Calls(a))
      /\ busy' \in [Approvals -> 0..2]
      /\ \A b \in Approvals \ {a} : busy'[b] = busy[b]
  BY DEF Refused, Calls, Inv, TypeOK
<1>4. fetch # "idle"
  BY <1>1 DEF Inv, TypeOK, Visit, Calls
<1>5. ApprovalInv(a)'
  <2>1. CallsShareCards(a)'
    <3>1. Calls(a) \in Nat /\ Given(a) \in Nat /\ Given(a)' = Given(a) /\ Mounted' = Mounted
      BY <1>1 DEF Inv, TypeOK, Calls, Given, Mounted
    <3> QED
      BY <1>1, <1>2, <1>3, <3>1 DEF Inv, TypeOK, ApprovalInv, CallsShareCards
  <2>2. RowsFirst(a)' /\ Settled(a)' /\ Listed(a)'
    BY <1>1, <1>2 DEF Inv, ApprovalInv, RowsFirst, Settled, Listed, Mounted, ReadWithout
  <2> QED
    BY <2>1, <2>2 DEF ApprovalInv
<1>6. ASSUME NEW b \in Approvals \ {a}
      PROVE  ApprovalInv(b)'
  BY <1>1, <1>2, <1>3, <1>6, Untouched DEF Inv
<1>7. TypeOK'
  BY <1>1, <1>2, <1>3 DEF Inv, TypeOK
<1>8. Visit'
  BY <1>1, <1>4 DEF Inv, Visit, Loading
<1> QED
  BY <1>5, <1>6, <1>7, <1>8 DEF Inv

(* A row that comes new has its event still to come.                       *)
LEMMA RowChangesInv ==
  ASSUME Inv, NEW a \in Approvals, RowChanges(a)
  PROVE  Inv'
<1>1. UNCHANGED <<link, reachable, news, fetch, answer, cards, overlooked, busy, strays, sent, granted, settled>>
  BY DEF RowChanges, stream, list, calls
<1>2. /\ \/ row[a] = "absent" /\ row'[a] = "pending"
         \/ row[a] = "pending" /\ row'[a] = "decided"
      /\ \A b \in Approvals \ {a} : row'[b] = row[b]
      /\ row' \in [Approvals -> {"absent", "pending", "decided"}]
  BY DEF RowChanges, Inv, TypeOK
<1>3. ApprovalInv(a)'
  <2>1. CallsShareCards(a)'
    BY <1>1 DEF Inv, ApprovalInv, CallsShareCards, Calls, Given, Mounted
  <2>2. RowsFirst(a)' /\ Settled(a)' /\ Listed(a)'
    BY <1>1, <1>2 DEF Inv, ApprovalInv, RowsFirst, Settled, Listed
  <2> QED
    BY <2>1, <2>2 DEF ApprovalInv
<1>4. ASSUME NEW b \in Approvals \ {a}
      PROVE  ApprovalInv(b)'
  BY <1>1, <1>2, <1>4, Untouched DEF Inv, TypeOK
<1>5. TypeOK'
  BY <1>1, <1>2 DEF Inv, TypeOK
<1>6. Visit'
  BY <1>1 DEF Inv, Visit, Loading
<1> QED
  BY <1>3, <1>4, <1>5, <1>6 DEF Inv

(* The stream comes and goes, but not from or to the end of the visit.     *)
LEMMA StreamStepInv ==
  ASSUME Inv, StreamStep
  PROVE  Inv'
<1>1. UNCHANGED <<row, news, fetch, answer, cards, overlooked, busy, strays, sent, granted, settled>>
  BY DEF StreamStep, list, calls
<1>2. link' \in {"off", "down", "up"} /\ (link' = "off") = (link = "off")
  BY DEF StreamStep, Stream!Establish, Stream!Drop, Stream!Toggle, Inv, TypeOK
<1>3. reachable' \in BOOLEAN
  BY DEF StreamStep, Stream!Establish, Stream!Drop, Stream!Toggle, Inv, TypeOK
<1>4. TypeOK'
  BY <1>1, <1>2, <1>3, Zenon DEF Inv, TypeOK
<1>5. Visit'
  BY <1>1, <1>2 DEF Inv, Visit, Loading
<1>6. ASSUME NEW a \in Approvals
      PROVE  ApprovalInv(a)'
  <2>1. CallsShareCards(a)' /\ RowsFirst(a)' /\ Settled(a)'
    BY <1>1, <1>2, <1>6 DEF Inv, ApprovalInv, CallsShareCards, Calls, Given, Mounted, RowsFirst, Settled
  <2>2. Listed(a)'
    BY <1>1, <1>2, <1>6 DEF Inv, ApprovalInv, Listed, ReadWithout, Mounted
  <2> QED
    BY <2>1, <2>2 DEF ApprovalInv
<1> QED
  BY <1>4, <1>5, <1>6 DEF Inv

LEMMA InvStep == Inv /\ [Next]_vars => Inv'
<1> SUFFICES ASSUME Inv, [Next]_vars
             PROVE  Inv'
  OBVIOUS
<1>1. CASE UNCHANGED vars
  <2>1. UNCHANGED <<link, reachable, row, news, fetch, answer, cards, overlooked, busy, strays, sent, granted, settled>>
    BY <1>1 DEF vars, stream, list, calls
  <2>2. ASSUME NEW a \in Approvals
        PROVE  ApprovalInv(a)'
    BY <2>1, <2>2, Untouched DEF Inv, TypeOK
  <2> QED
    BY <2>1, <2>2 DEF Inv, TypeOK, Visit, Loading
<1> QED
  BY <1>1, MountInv, UnmountInv, StreamStepInv, FetchAnsweredInv, FetchDoneInv, FetchFailsInv,
     PushInv, DecideInv, GrantInv, GrantedInv, RefusedInv, RowChangesInv DEF Next

LEMMA Invariance == Spec => []Inv
BY InvInit, InvStep, PTL DEF Spec

-----------------------------------------------------------------------------
(* Every reachable state of the page is type correct; an approval has two  *)
(* cards at most, whatever the fetch, the events and the decisions do.     *)
THEOREM TypeCorrect == Spec => []TypeOK
BY Invariance, PTL DEF Inv

(* The filter on the list takes an approval that was decided here for good,*)
(* unless something older was under way when the answer came.              *)
THEOREM SettledApprovalsStayGone == Spec => []SettledStaysGone
<1>1. Inv => SettledStaysGone
  BY DEF Inv, TypeOK, ApprovalInv, Settled, SettledStaysGone
<1> QED
  BY <1>1, Invariance, PTL

(* A list that is loaded shows every approval that waits, but for those    *)
(* whose event is to come and those the page can no longer learn of.       *)
THEOREM WaitingApprovalsAreListed == Spec => []WaitingIsListed
<1>1. Inv => WaitingIsListed
  BY DEF Inv, ApprovalInv, Listed, ReadWithout, WaitingIsListed
<1> QED
  BY <1>1, Invariance, PTL

(* A card that submits has its call under way, and two or more calls are   *)
(* under way on one approval only if both the fetch and an event gave it a *)
(* card.                                                                   *)
THEOREM CallsAlwaysMatchCards == Spec => []CallsMatchCards
<1>1. Inv => CallsMatchCards
  <2> SUFFICES ASSUME Inv, NEW a \in Approvals
               PROVE  /\ busy[a] <= Calls(a)
                      /\ Mounted /\ Calls(a) > 1 => fetch = "done" /\ news[a] = "shown"
    BY DEF CallsMatchCards, Calls
  <2>1. CallsShareCards(a) /\ cards[a] \in Nat /\ busy[a] \in Nat /\ Calls(a) \in Nat
    BY DEF Inv, TypeOK, ApprovalInv, Calls
  <2>2. Given(a) \in Nat /\ (Given(a) >= 2 => fetch = "done" /\ news[a] = "shown")
    BY DEF Given
  <2> QED
    BY <2>1, <2>2 DEF CallsShareCards
<1> QED
  BY <1>1, Invariance, PTL
=============================================================================
