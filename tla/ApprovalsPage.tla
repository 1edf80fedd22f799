--------------------------- MODULE ApprovalsPage ---------------------------
(***************************************************************************)
(* The approvals page of the dashboard (apps/web/app/approvals/page.tsx,   *)
(* components/approval-card.tsx, lib/api-client.ts): one visit to the page,*)
(* from the first render to leaving it.                                    *)
(*                                                                         *)
(* Three things change the list in any order: the answer to the fetch that *)
(* the first effect starts, which replaces the list; approvals pushed over *)
(* the event stream, which are put in front; and decisions taken on its    *)
(* cards, which filter it.  The stream is EventStream; the approval rows,  *)
(* the events announcing them and the answers of the gateway are external. *)
(* An approval may be listed twice, so the list counts its cards.  Their   *)
(* key is then the same, and what React makes of them is left open.        *)
(***************************************************************************)
EXTENDS Naturals

CONSTANTS
  Approvals,  \* ids of the approvals
  MaxCalls    \* bound: decisions on one approval under way

ASSUME MaxCallsAssumption == MaxCalls \in Nat

VARIABLES
  link, reachable,   \* the event stream
  row,        \* approval rows: "absent", "pending" or "decided"
  news,       \* the event of an approval: "unsent", "shown" or "missed"
  fetch,      \* apiGet: "idle", "first" or "second" try, "done", "failed"
  answer,     \* data.items of the answer under way, if there is one
  cards,      \* how often each approval is in the state "approvals"
  busy,       \* how many of those cards are submitting
  strays,     \* approvals with a card that React lost and that can be used
  sent,       \* apiPost calls the gateway has not acted on
  granted,    \* apiPost calls answered with 200, the answer under way
  settled,    \* history: decided here with nothing older under way
  overlooked  \* history: left out by the answer to the fetch, its event lost or undone

stream == <<link, reachable>>
list == <<fetch, answer, cards, overlooked>>
calls == <<busy, strays, sent, granted, settled>>
vars == <<stream, row, news, list, calls>>

Stream == INSTANCE EventStream

Init ==
  /\ Stream!Init
  /\ row \in [Approvals -> {"absent", "pending", "decided"}]
  /\ news \in {n \in [Approvals -> {"unsent", "missed"}] :
                 \A a \in Approvals : row[a] = "absent" => n[a] = "unsent"}
  /\ fetch = "idle"
  /\ answer = {}
  /\ cards = [a \in Approvals |-> 0]
  /\ busy = [a \in Approvals |-> 0]
  /\ strays = {}
  /\ sent = [a \in Approvals |-> 0]
  /\ granted = [a \in Approvals |-> 0]
  /\ settled = {}
  /\ overlooked = {}

Mounted == link # "off"

Loading == fetch \in {"first", "second"}

(* The gateway has read the rows for this page, and not a among them.      *)
ReadWithout(a) == fetch = "done" \/ \E items \in answer : a \notin items

-----------------------------------------------------------------------------
(* The page opens: both effects run.                                       *)
Mount ==
  /\ fetch = "idle"
  /\ Stream!Start
  /\ fetch' = "first"
  /\ UNCHANGED <<row, news, answer, cards, overlooked, calls>>

(* The reader leaves; the answers to calls under way change nothing any    *)
(* more.                                                                   *)
Unmount ==
  /\ Stream!Stop
  /\ fetch' = "failed"
  /\ answer' = {}
  /\ cards' = [a \in Approvals |-> 0]
  /\ busy' = [a \in Approvals |-> 0]
  /\ strays' = {}
  /\ UNCHANGED <<row, news, sent, granted, settled, overlooked>>

(* External: the gateway reads the pending approvals and answers.          *)
FetchAnswered ==
  /\ Loading
  /\ answer = {}
  /\ answer' = {{a \in Approvals : row[a] = "pending"}}
  /\ UNCHANGED <<stream, row, news, fetch, cards, overlooked, calls>>

(* An approval listed twice whose cards stay while the list changes.       *)
Crowded == {a \in Approvals : cards' # cards /\ cards[a] = 2 /\ cards'[a] = 2}

(* The cards drawn for the new list.  One whose key, the id, is still      *)
(* there is kept.  External: of two with the same key React may lose the   *)
(* first, idle or submitting, and draw a new one that is idle; the lost    *)
(* one stays in the document, with its buttons as they were.               *)
Reconcile ==
  \E idle \in SUBSET {a \in Crowded : busy[a] < 2} :
  \E submitting \in SUBSET {a \in Crowded \ idle : busy[a] > 0} :
     /\ busy' = [a \in Approvals |->
                   IF cards'[a] = 0 THEN 0
                   ELSE IF a \in submitting THEN busy[a] - 1 ELSE busy[a]]
     /\ strays' = strays \cup idle

(* setApprovals(data.items)                                                *)
Replace(items) ==
  /\ cards' = [a \in Approvals |-> IF a \in items THEN 1 ELSE 0]
  /\ Reconcile
  /\ overlooked' = overlooked \cup {a \in Approvals : cards[a] > 0 /\ a \notin items}

FetchDone ==
  /\ \E items \in answer : Replace(items)
  /\ fetch' = "done"
  /\ answer' = {}
  /\ UNCHANGED <<stream, row, news, sent, granted, settled>>

(* The request fails or its answer is lost.  ky repeats a GET once where   *)
(* that is of use; then the page shows what it has.                        *)
FetchFails ==
  /\ Loading
  /\ \/ fetch = "first" /\ fetch' = "second"
     \/ fetch' = "failed"
  /\ answer' = {}
  /\ UNCHANGED <<stream, row, news, cards, overlooked, calls>>

-----------------------------------------------------------------------------
(* Mutant: an effect that ran twice left a second client behind.           *)
PrependTwice(a) == cards' = [cards EXCEPT ![a] = @ + 2] /\ Reconcile

(* onEvent: an approval that is announced is put in front, whatever is     *)
(* listed.                                                                 *)
Prepend(a) == cards' = [cards EXCEPT ![a] = @ + 1] /\ Reconcile

(* External: the event of an approval is sent; without an open connection  *)
(* it is lost.                                                             *)
Push(a) ==
  /\ row[a] # "absent"
  /\ news[a] = "unsent"
  /\ IF link = "up"
     THEN /\ news' = [news EXCEPT ![a] = "shown"]
          /\ Prepend(a)
          /\ UNCHANGED overlooked
     ELSE /\ news' = [news EXCEPT ![a] = "missed"]
          /\ overlooked' = IF ReadWithout(a) THEN overlooked \cup {a} ELSE overlooked
          /\ UNCHANGED <<cards, busy, strays>>
  /\ UNCHANGED <<stream, row, fetch, answer, sent, granted, settled>>

(* Mutant: the buttons stay enabled while the card is submitting.          *)
DecideAgain(a) ==
  /\ cards[a] > 0 /\ sent[a] + granted[a] < MaxCalls
  /\ busy' = [busy EXCEPT ![a] = IF @ < cards[a] THEN @ + 1 ELSE @]
  /\ sent' = [sent EXCEPT ![a] = @ + 1]
  /\ UNCHANGED <<stream, row, news, list, strays, granted, settled>>

(* A card of the approval has its buttons enabled.                         *)
Clickable(a) == busy[a] < cards[a]

(* A card in the list is drawn as submitting from here on; one that React  *)
(* lost is never drawn again.                                              *)
Decide(a) ==
  /\ sent[a] + granted[a] < MaxCalls
  /\ \/ Clickable(a) /\ busy' = [busy EXCEPT ![a] = @ + 1]
     \/ a \in strays /\ UNCHANGED busy
  /\ sent' = [sent EXCEPT ![a] = @ + 1]
  /\ UNCHANGED <<stream, row, news, list, strays, granted, settled>>

(* External: the gateway takes the decision.  A request that overlaps the  *)
(* one that decides may be granted as well (module Approvals); which those *)
(* are plays no part here.                                                 *)
Grant(a) ==
  /\ sent[a] > 0
  /\ row' = [row EXCEPT ![a] = "decided"]
  /\ sent' = [sent EXCEPT ![a] = @ - 1]
  /\ granted' = [granted EXCEPT ![a] = @ + 1]
  /\ UNCHANGED <<stream, news, list, busy, strays, settled>>

(* Mutant: only the card that was used is taken out.                       *)
RemoveOne(a) ==
  /\ cards' = [cards EXCEPT ![a] = IF @ > 0 THEN @ - 1 ELSE 0]
  /\ busy' = [busy EXCEPT ![a] = IF @ > 0 THEN @ - 1 ELSE 0]
  /\ UNCHANGED strays

(* Mutant: the list as it was when the button was pressed is filtered, so  *)
(* that what was pushed since is lost.                                     *)
RemoveFromStale(a) ==
  \E since \in SUBSET {b \in Approvals : news[b] = "shown"} :
     /\ cards' = [b \in Approvals |-> IF b \in since \cup {a} THEN 0 ELSE cards[b]]
     /\ Reconcile

(* Every card of the approval goes.                                        *)
Remove(a) ==
  /\ cards' = [cards EXCEPT ![a] = 0]
  /\ Reconcile

(* The answer 200.                                                         *)
Granted(a) ==
  /\ granted[a] > 0
  /\ granted' = [granted EXCEPT ![a] = @ - 1]
  /\ Remove(a)
  /\ settled' = IF news[a] # "unsent" /\ ~ \E items \in answer : a \in items
                THEN settled \cup {a} ELSE settled
  /\ UNCHANGED <<stream, row, news, fetch, answer, overlooked, sent>>

(* The call fails, with 409 or 500 or without an answer, whether or not it *)
(* took effect; the card that made it, if it is still there, is freed.     *)
Refused(a) ==
  /\ \/ /\ sent[a] > 0
        /\ sent' = [sent EXCEPT ![a] = @ - 1]
        /\ UNCHANGED granted
     \/ /\ granted[a] > 0
        /\ granted' = [granted EXCEPT ![a] = @ - 1]
        /\ UNCHANGED sent
  /\ \/ busy[a] > 0 /\ busy' = [busy EXCEPT ![a] = @ - 1]
     \/ busy[a] < sent[a] + granted[a] /\ UNCHANGED busy
  /\ UNCHANGED <<stream, row, news, list, strays, settled>>

-----------------------------------------------------------------------------
(* External: a tool call asks for approval; another reviewer or the expiry *)
(* settles it.                                                             *)
RowChanges(a) ==
  /\ \/ row[a] = "absent" /\ row' = [row EXCEPT ![a] = "pending"]
     \/ row[a] = "pending" /\ row' = [row EXCEPT ![a] = "decided"]
  /\ UNCHANGED <<stream, news, list, calls>>

StreamStep ==
  /\ Stream!Establish \/ Stream!Drop \/ Stream!Toggle
  /\ UNCHANGED <<row, news, list, calls>>

Next ==
  \/ Mount \/ Unmount \/ StreamStep
  \/ FetchAnswered \/ FetchDone \/ FetchFails
  \/ \E a \in Approvals :
        Push(a) \/ Decide(a) \/ Grant(a) \/ Granted(a) \/ Refused(a) \/ RowChanges(a)

Spec == Init /\ [][Next]_vars

-----------------------------------------------------------------------------
(* Type correctness; an approval has at most the two cards that the fetch  *)
(* and its event give it.                                                  *)
TypeOK ==
  /\ link \in {"off", "down", "up"}
  /\ reachable \in BOOLEAN
  /\ row \in [Approvals -> {"absent", "pending", "decided"}]
  /\ news \in [Approvals -> {"unsent", "shown", "missed"}]
  /\ fetch \in {"idle", "first", "second", "done", "failed"}
  /\ answer \in SUBSET SUBSET Approvals
  /\ cards \in [Approvals -> 0..2]
  /\ busy \in [Approvals -> 0..2]
  /\ strays \in SUBSET Approvals
  /\ sent \in [Approvals -> Nat]
  /\ granted \in [Approvals -> Nat]
  /\ settled \in SUBSET Approvals
  /\ overlooked \in SUBSET Approvals

(* An approval that was decided on this page does not come back, unless an *)
(* answer or an event from before the decision was still under way: the    *)
(* filter takes every card of it, also one that an event doubled.          *)
SettledStaysGone == \A a \in settled : cards[a] = 0

(* Once the list is loaded an approval that waits for its decision is on   *)
(* it, or about to be announced, or it is one the page can no longer learn *)
(* of: the gateway read the rows before it was there, and its event found  *)
(* the stream down or was overtaken by the answer.  Nothing fetches again. *)
WaitingIsListed ==
  fetch = "done" /\ Mounted =>
     \A a \in Approvals : row[a] = "pending" =>
        cards[a] > 0 \/ news[a] = "unsent" \/ a \in overlooked

(* A card that is submitting has a call under way, so that it is freed in  *)
(* the end; and as long as an approval was not listed twice, by the fetch  *)
(* and by its event, the page has one decision on it under way at most.    *)
(* Once it was, its cards share a key and nothing limits their calls.      *)
CallsMatchCards ==
  \A a \in Approvals :
     /\ busy[a] <= sent[a] + granted[a]
     /\ Mounted /\ sent[a] + granted[a] > 1 => fetch = "done" /\ news[a] = "shown"
=============================================================================
