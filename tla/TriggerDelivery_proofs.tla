----------------------- MODULE TriggerDelivery_proofs -----------------------
(***************************************************************************)
(* Proofs about TriggerDelivery, for any relays and items, every policy and   *)
(* group, and every bound.                                                  *)
(***************************************************************************)
EXTENDS TriggerDelivery, FiniteSetTheorems, TLAPS

StoredWasPublished == \A n \in Event : events[n] # "unseen" => n \in 1 .. Len(published)

(* What a relay fetched exists, and with the inbox it reaches back to the     *)
(* first event: the cursor it was fetched after may be overtaken meanwhile.   *)
PageCovers ==
  /\ checkpoint <= Len(published)
  /\ \A p \in Process :
       /\ work[p].page \subseteq 1 .. Len(published) /\ work[p].cursor <= Len(published)
       /\ At(p, "fetch") => \A n \in 1 .. work[p].cursor : events[n] # "unseen"
       /\ At(p, "accept") => \A n \in 1 .. work[p].cursor : n \in work[p].page \/ events[n] # "unseen"

(* A run of an event carries the item the event is about.                   *)
Genuine(o) == o[2] \in 1 .. Len(published) /\ published[o[2]] = o[1]

RunsAreGenuine ==
  EventSource =>
    /\ \A o \in Occurrence : runs[o] # "none" => Genuine(o)
    /\ \A p \in Process : ~At(p, "discover") /\ \A o \in work[p].todo : Genuine(o)
    /\ \A p \in Process :
         work[p].pc \in {"group", "cancel", "open", "acknowledge"} => Genuine(work[p].occurrence)

(* An acknowledgement comes after its run.                                  *)
RunBeforeAcknowledgement ==
  \A p \in Process :
    /\ At(p, "advance") => \A o \in work[p].todo : runs[o] # "none"
    /\ At(p, "acknowledge") => runs[work[p].occurrence] # "none"

(* The runs a process is about to cancel are there.                         *)
LiveIsThere == \A p \in Process : At(p, "cancel") => \A o \in work[p].live : runs[o] # "none"

UnopenedHasNoRun == \A o \in Occurrence : opened[o] <= 1 /\ (runs[o] = "none" => opened[o] = 0)

(* Below an occurrence of every-poll nothing is missing, and what is open was *)
(* retried.                                                                 *)
Behind(o) ==
  \A k \in 1 .. o[2] - 1 :
    /\ runs[<<o[1], k>>] # "none"
    /\ runs[<<o[1], k>>] = "running" => <<o[1], k>> \in resumed

EveryPollInTurn ==
  workflow.policy = "every-poll" =>
    /\ \A o \in Occurrence : runs[o] # "none" => Behind(o)
    /\ \A p \in Process : work[p].pc \in {"group", "cancel", "open"} => Behind(work[p].occurrence)

CursorInv == StoredWasPublished /\ PageCovers /\ CursorCoversInbox

RunsInv ==
  /\ RunsAreGenuine /\ RunBeforeAcknowledgement /\ AcknowledgedHasRun /\ LiveIsThere
  /\ UnopenedHasNoRun /\ GroupSharedOnlyByRetry /\ EveryPollInTurn

TriggerInv == TriggerTypeOK /\ CursorInv /\ RunsInv
-----------------------------------------------------------------------------
(***************************************************************************)
(* TYPE CORRECTNESS.                                                        *)
(***************************************************************************)
(* The revision of an item counts changes that were published.              *)
LEMMA RevisionBounded ==
  ASSUME published \in Seq(Subject), NEW s
  PROVE  Revision(s) \in 0 .. Len(published)
<1> DEFINE Changes == {n \in DOMAIN published : published[n] = s}
<1>1. Len(published) \in Nat /\ DOMAIN published = 1 .. Len(published)
  OBVIOUS
<1>2. IsFiniteSet(1 .. Len(published)) /\ Cardinality(1 .. Len(published)) = Len(published)
  <2> DEFINE m == Len(published)
  <2>1. m \in Nat
    BY <1>1
  <2> HIDE DEF m
  <2>2. IsFiniteSet(1 .. m) /\ Cardinality(1 .. m) = m
    BY <2>1, FS_Interval
  <2> QED BY <2>2 DEF m
<1>3. Changes \subseteq 1 .. Len(published)
  BY <1>1
<1> HIDE DEF Changes
<1>4. IsFiniteSet(Changes) /\ Cardinality(Changes) <= Len(published)
  BY <1>2, <1>3, FS_Subset
<1>5. Cardinality(Changes) \in Nat
  BY <1>4, FS_CardinalityType
<1> QED BY <1>1, <1>4, <1>5 DEF Changes, Revision

(* An event, like every revision of an item, has its occurrence.            *)
LEMMA OccurrenceOfChange ==
  ASSUME TriggerTypeOK, NEW s \in Subject, NEW n \in 1 .. Len(published)
  PROVE  <<s, n>> \in Occurrence
<1>1. Len(published) \in Nat /\ Len(published) <= MaxPublished
  BY DEF TriggerTypeOK
<1>2. n \in 1 .. Max(MaxPublished, MaxOccurrence)
  BY <1>1, TriggerAssumption DEF Max
<1> QED BY <1>2 DEF Occurrence

LEMMA OccurrenceParts ==
  ASSUME NEW o \in Occurrence
  PROVE  o[1] \in Subject /\ o[2] \in Nat /\ o[2] >= 1 /\ o = <<o[1], o[2]>>
BY TriggerAssumption DEF Occurrence, Max

(* A process's record stays one when a field is replaced.                   *)
LEMMA PollFields ==
  ASSUME NEW w \in Poll
  PROVE  /\ \A v \in Awaits : [w EXCEPT !.pc = v] \in Poll
         /\ \A v \in SUBSET Subject : [w EXCEPT !.task = v] \in Poll
         /\ \A v \in SUBSET Occurrence : [w EXCEPT !.observed = v] \in Poll
         /\ \A v \in SUBSET Occurrence : [w EXCEPT !.todo = v] \in Poll
         /\ \A v \in 0 .. MaxPublished : [w EXCEPT !.cursor = v] \in Poll
         /\ \A v \in SUBSET Event : [w EXCEPT !.page = v] \in Poll
         /\ \A v \in Occurrence \union {<<>>} : [w EXCEPT !.occurrence = v] \in Poll
         /\ \A v \in SUBSET Occurrence : [w EXCEPT !.live = v] \in Poll
BY DEF Poll

(* The part of the type that concerns the processes.                        *)
WorkTyped ==
  /\ work \in [Process -> Poll]
  /\ \A p \in Process :
       work[p].pc \in {"group", "cancel", "open", "acknowledge"} => work[p].occurrence \in Occurrence

LEMMA AtRestTyped ==
  AtRest \in Poll /\ AtRest.pc = "rest" /\ AtRest.todo = {} /\ AtRest.page = {} /\ AtRest.cursor = 0
BY TriggerAssumption DEF AtRest, Poll, Awaits

(* Whatever a process writes into its own record leaves the others alone.    *)
LEMMA PollTyped ==
  ASSUME TriggerTypeOK, NEW p \in Process, NEW change \in Poll, Set(p, change),
         change.pc \in {"group", "cancel", "open", "acknowledge"} => change.occurrence \in Occurrence
  PROVE  /\ WorkTyped'
         /\ work'[p] = change /\ \A q \in Process \ {p} : work'[q] = work[q]
BY DEF TriggerTypeOK, Set, WorkTyped

LEMMA QueueTyped ==
  ASSUME TriggerTypeOK, NEW p \in Process, NEW items \in SUBSET Occurrence, Queue(p, items)
  PROVE  /\ WorkTyped'
         /\ work'[p].pc \in {"rest", "item"} /\ work'[p].todo = items
         /\ work'[p].page \in {{}, work[p].page} /\ work'[p].cursor = 0
         /\ \A q \in Process \ {p} : work'[q] = work[q]
<1>0. work[p] \in Poll
  BY DEF TriggerTypeOK
<1>1. CASE items = {}
  <2>1. Set(p, AtRest)
    BY <1>1 DEF Queue
  <2> QED BY <1>1, <2>1, PollTyped, AtRestTyped
<1>2. CASE items # {}
  <2> DEFINE change == [work[p] EXCEPT !.pc = "item", !.cursor = 0, !.occurrence = <<>>, !.live = {}, !.todo = items]
  <2>1. 0 \in 0 .. MaxPublished /\ {} \in SUBSET Occurrence /\ <<>> \in Occurrence \union {<<>>}
        /\ "item" \in Awaits
    BY TriggerAssumption DEF Awaits
  <2>2. change \in Poll
    BY <1>0, <2>1, PollFields, Zenon
  <2>3. change.pc = "item" /\ change.todo = items /\ change.page = work[p].page /\ change.cursor = 0
    BY <1>0 DEF Poll
  <2>4. Set(p, change)
    BY <1>2 DEF Queue
  <2> HIDE DEF change
  <2> QED BY <2>2, <2>3, <2>4, PollTyped
<1> QED BY <1>1, <1>2

LEMMA InboxTyped ==
  ASSUME TriggerTypeOK, NEW n, AcknowledgeTriggerEvent(n)
  PROVE  events' \in [Event -> {"unseen", "pending", "accepted"}] /\ checkpoint' = checkpoint
BY DEF TriggerTypeOK, AcknowledgeTriggerEvent

LEMMA AcknowledgedTyped ==
  ASSUME TriggerTypeOK, NEW o, Acknowledged(o)
  PROVE  events' \in [Event -> {"unseen", "pending", "accepted"}] /\ checkpoint' = checkpoint
BY InboxTyped DEF TriggerTypeOK, Acknowledged, inbox

LEMMA BeginPollTyped ==
  ASSUME TriggerTypeOK, NEW p \in Process, NEW task \in SUBSET Subject, BeginPoll(p, task)
  PROVE  TriggerTypeOK'
<1> DEFINE change == [AtRest EXCEPT !.pc = "advance", !.task = task, !.observed = Running, !.todo = Running]
<1>1. Running \in SUBSET Occurrence /\ "advance" \in Awaits
  BY DEF Running, Awaits
<1>2. change \in Poll
  BY <1>1, AtRestTyped, PollFields, Zenon
<1>3. Set(p, change) /\ UNCHANGED <<source, inbox, runs, triggerHistory>>
  BY DEF BeginPoll
<1>4. change.pc = "advance"
  BY AtRestTyped DEF Poll
<1> HIDE DEF change
<1>5. WorkTyped'
  BY <1>2, <1>3, <1>4, PollTyped
<1> QED BY <1>3, <1>5 DEF TriggerTypeOK, WorkTyped, source, inbox, triggerHistory

LEMMA AdvanceRunTyped ==
  ASSUME TriggerTypeOK, NEW p \in Process, AdvanceRun(p)
  PROVE  TriggerTypeOK'
<1>1. PICK o \in work[p].todo : Acknowledged(o) /\ Set(p, [work[p] EXCEPT !.todo = @ \ {o}])
  BY DEF AdvanceRun
<1>2. UNCHANGED <<source, runs, triggerHistory>> /\ work[p].pc = "advance"
  BY DEF AdvanceRun, At
<1>3. work[p] \in Poll /\ work[p].todo \ {o} \in SUBSET Occurrence
  BY DEF TriggerTypeOK, Poll
<1> DEFINE change == [work[p] EXCEPT !.todo = @ \ {o}]
<1>4. change \in Poll
  BY <1>3, PollFields, Zenon
<1>5. change.pc = "advance"
  BY <1>2, <1>3 DEF Poll
<1>6. Set(p, change)
  BY <1>1
<1> HIDE DEF change
<1>7. WorkTyped'
  BY <1>4, <1>5, <1>6, PollTyped
<1> QED BY <1>1, <1>2, <1>7, AcknowledgedTyped DEF TriggerTypeOK, WorkTyped, source, triggerHistory

LEMMA DueTyped ==
  ASSUME TriggerTypeOK, NEW p \in Process, Due(p)
  PROVE  TriggerTypeOK'
<1> DEFINE await == IF EventSource THEN "fetch" ELSE "discover"
           change == [work[p] EXCEPT !.pc = await, !.cursor = checkpoint]
<1>1. await \in Awaits /\ await \in {"fetch", "discover"}
  BY DEF Awaits
<1>2. Set(p, change) /\ UNCHANGED <<source, inbox, runs, triggerHistory>>
  BY DEF Due
<1>3. work[p] \in Poll /\ checkpoint \in 0 .. MaxPublished
  BY DEF TriggerTypeOK
<1> HIDE DEF await
<1>4. change \in Poll
  BY <1>1, <1>3, PollFields, Zenon
<1>5. change.pc = await
  BY <1>3 DEF Poll
<1> HIDE DEF change
<1>6. WorkTyped'
  BY <1>1, <1>2, <1>4, <1>5, PollTyped
<1> QED BY <1>2, <1>6 DEF TriggerTypeOK, WorkTyped, source, inbox, triggerHistory

(* A page holds events that were published, from where its cursor was.       *)
LEMMA PageTyped ==
  ASSUME TriggerTypeOK, NEW cursor \in 0 .. MaxPublished, NEW page \in Pages(cursor)
  PROVE  /\ page.ids \in SUBSET Event /\ page.ids \subseteq 1 .. Len(published)
         /\ page.cursor \in 0 .. MaxPublished /\ page.cursor <= Len(published)
         /\ \A n \in 1 .. page.cursor : n <= cursor \/ n \in page.ids
<1>1. Len(published) \in Nat /\ Len(published) <= MaxPublished
  BY DEF TriggerTypeOK
<1>2. PICK lo \in 1 .. cursor + 1, hi \in cursor .. Len(published), numbered \in BOOLEAN :
        page = Page(lo, hi, numbered)
  BY DEF Pages
<1>3. page.ids = lo .. hi /\ page.cursor \in {0, hi}
  BY <1>2 DEF Page
<1>4. lo \in Nat /\ lo >= 1 /\ hi \in Nat /\ hi <= Len(published) /\ lo <= cursor + 1 /\ cursor \in Nat
  BY <1>1, TriggerAssumption
<1> QED BY <1>1, <1>3, <1>4, TriggerAssumption DEF Event

LEMMA FetchTyped ==
  ASSUME TriggerTypeOK, NEW p \in Process, Fetch(p)
  PROVE  TriggerTypeOK'
<1>1. work[p] \in Poll /\ work[p].cursor \in 0 .. MaxPublished
  BY DEF TriggerTypeOK, Poll
<1>2. PICK page \in Pages(work[p].cursor) :
        Set(p, [work[p] EXCEPT !.pc = "accept", !.page = page.ids, !.cursor = page.cursor])
  BY DEF Fetch, FetchPage
<1>3. UNCHANGED <<source, inbox, runs, triggerHistory>> /\ "accept" \in Awaits
  BY DEF Fetch, FetchPage, Awaits
<1>4. page.ids \in SUBSET Event /\ page.cursor \in 0 .. MaxPublished
  BY <1>1, PageTyped
<1> DEFINE change == [work[p] EXCEPT !.pc = "accept", !.page = page.ids, !.cursor = page.cursor]
<1>5. change \in Poll
  BY <1>1, <1>3, <1>4, PollFields, Zenon
<1>6. change.pc = "accept"
  BY <1>1 DEF Poll
<1>7. Set(p, change)
  BY <1>2
<1> HIDE DEF change
<1>8. WorkTyped'
  BY <1>5, <1>6, <1>7, PollTyped
<1> QED BY <1>3, <1>8 DEF TriggerTypeOK, WorkTyped, source, inbox, triggerHistory

(* What a process does with an unanswered or a stored page.                  *)
LEMMA ListedTyped ==
  ASSUME TriggerTypeOK, NEW p \in Process,
         Set(p, [work[p] EXCEPT !.pc = "list", !.page = {}, !.cursor = 0])
  PROVE  WorkTyped' /\ work'[p].pc = "list" /\ work'[p].page = {} /\ work'[p].cursor = 0
         /\ work'[p].todo = work[p].todo /\ \A q \in Process \ {p} : work'[q] = work[q]
<1> DEFINE change == [work[p] EXCEPT !.pc = "list", !.page = {}, !.cursor = 0]
<1>1. work[p] \in Poll /\ "list" \in Awaits /\ {} \in SUBSET Event /\ 0 \in 0 .. MaxPublished
  BY TriggerAssumption DEF TriggerTypeOK, Awaits
<1>2. change \in Poll
  BY <1>1, PollFields, Zenon
<1>3. change.pc = "list" /\ change.page = {} /\ change.cursor = 0 /\ change.todo = work[p].todo
  BY <1>1 DEF Poll
<1>4. Set(p, change)
  OBVIOUS
<1> HIDE DEF change
<1> QED BY <1>2, <1>3, <1>4, PollTyped

LEMMA AcceptTyped ==
  ASSUME TriggerTypeOK, NEW p \in Process, Accept(p)
  PROVE  TriggerTypeOK'
<1>1. WorkTyped'
  BY ListedTyped DEF Accept
<1>2. events' \in [Event -> {"unseen", "pending", "accepted"}]
  BY DEF Accept, AcceptTriggerEvents, Stored, TriggerTypeOK
<1>3. checkpoint' = work[p].cursor /\ UNCHANGED <<source, runs, triggerHistory>>
  BY DEF Accept, AcceptTriggerEvents
<1>4. work[p].cursor \in 0 .. MaxPublished
  BY DEF TriggerTypeOK, Poll
<1> QED BY <1>1, <1>2, <1>3, <1>4 DEF TriggerTypeOK, WorkTyped, source, triggerHistory

LEMMA OfflineTyped ==
  ASSUME TriggerTypeOK, NEW p \in Process, Offline(p)
  PROVE  TriggerTypeOK'
<1>1. WorkTyped'
  <2>1. CASE Seen("pending") = {}
    BY <2>1, AtRestTyped, PollTyped DEF Offline
  <2>2. CASE Seen("pending") # {}
    BY <2>2, ListedTyped DEF Offline
  <2> QED BY <2>1, <2>2
<1>2. UNCHANGED <<source, inbox, runs, retries, opened, resumed>> /\ faults' = faults + 1
  BY DEF Offline, Fault
<1> QED BY <1>1, <1>2 DEF TriggerTypeOK, WorkTyped, source, inbox

(* A poll that queues items, none of which an occurrence is missing for.     *)
LEMMA HandedTyped ==
  ASSUME TriggerTypeOK, NEW p \in Process, NEW items \in SUBSET Occurrence, Handed(p, items)
  PROVE  /\ WorkTyped' /\ work'[p].pc \in {"rest", "item"} /\ work'[p].todo \subseteq items
         /\ work'[p].page \in {{}, work[p].page} /\ work'[p].cursor = 0
         /\ \A q \in Process \ {p} : work'[q] = work[q]
<1> DEFINE queued == {i \in items : i[1] \in work[p].task} \ work[p].observed
<1>1. queued \in SUBSET Occurrence /\ queued \subseteq items /\ Queue(p, queued)
  BY DEF Handed
<1> HIDE DEF queued
<1> QED BY <1>1, QueueTyped

LEMMA ListPendingTyped ==
  ASSUME TriggerTypeOK, StoredWasPublished, NEW p \in Process, ListPending(p)
  PROVE  TriggerTypeOK'
<1> DEFINE items == {<<published[n], n>> : n \in Seen("pending")}
<1>1. ASSUME NEW n \in Seen("pending") PROVE <<published[n], n>> \in Occurrence
  <2>1. n \in 1 .. Len(published) /\ published[n] \in Subject
    BY DEF Seen, StoredWasPublished, TriggerTypeOK
  <2> QED BY <2>1, OccurrenceOfChange
<1>2. items \in SUBSET Occurrence
  BY <1>1
<1>3. Handed(p, items) /\ UNCHANGED <<source, inbox, runs, triggerHistory>>
  BY DEF ListPending
<1> HIDE DEF items
<1>4. WorkTyped'
  BY <1>2, <1>3, HandedTyped
<1> QED BY <1>3, <1>4 DEF TriggerTypeOK, WorkTyped, source, inbox, triggerHistory

LEMMA DiscoverTyped ==
  ASSUME TriggerTypeOK, NEW p \in Process, Discover(p)
  PROVE  TriggerTypeOK'
<1> DEFINE due == {s \in Subject : Revision(s) > 0 /\ ~Covered(p, s)}
           items == {<<s, Revision(s)>> : s \in due}
<1>1. ASSUME NEW s \in due PROVE <<s, Revision(s)>> \in Occurrence
  <2>1. Revision(s) \in 1 .. Len(published)
    BY RevisionBounded DEF TriggerTypeOK
  <2> QED BY <2>1, OccurrenceOfChange
<1>2. items \in SUBSET Occurrence
  BY <1>1
<1>3. Handed(p, items) /\ UNCHANGED <<source, inbox, runs, triggerHistory>>
  BY DEF Discover
<1> HIDE DEF items
<1>4. WorkTyped'
  BY <1>2, <1>3, HandedTyped
<1> QED BY <1>3, <1>4 DEF TriggerTypeOK, WorkTyped, source, inbox, triggerHistory

(* The two ways an item is taken: it is in hand, or passed over.             *)
LEMMA TakeItemTyped ==
  ASSUME TriggerTypeOK, NEW p \in Process, TakeItem(p)
  PROVE  /\ TriggerTypeOK' /\ UNCHANGED <<source, inbox, runs, triggerHistory>>
         /\ work'[p].page = work[p].page \/ work'[p].page = {}
         /\ work'[p].cursor = work[p].cursor \/ work'[p].cursor = 0
         /\ work'[p].todo \subseteq work[p].todo
         /\ \/ work'[p].pc \in {"rest", "item"}
            \/ /\ work'[p].pc \in {"open", "group"}
               /\ \E i \in work[p].todo : work'[p].occurrence \in WorkflowOccurrence(i) \intersect Occurrence
         /\ \A q \in Process \ {p} : work'[q] = work[q]
<1>1. work[p] \in Poll /\ work[p].todo \in SUBSET Occurrence
  BY DEF TriggerTypeOK, Poll
<1>2. UNCHANGED <<source, inbox, runs, triggerHistory>>
  BY DEF TakeItem
<1>3. PICK i \in work[p].todo :
        \/ \E o \in WorkflowOccurrence(i) \intersect Occurrence :
             Set(p, [work[p] EXCEPT !.pc = IF workflow.group = "none" THEN "open" ELSE "group",
                       !.todo = @ \ {i}, !.occurrence = o])
        \/ Queue(p, work[p].todo \ {i})
  BY DEF TakeItem
<1>4. CASE Queue(p, work[p].todo \ {i})
  <2>1. work[p].todo \ {i} \in SUBSET Occurrence
    BY <1>1
  <2>2. /\ WorkTyped' /\ work'[p].pc \in {"rest", "item"} /\ work'[p].todo = work[p].todo \ {i}
        /\ work'[p].page \in {{}, work[p].page} /\ work'[p].cursor = 0
        /\ \A q \in Process \ {p} : work'[q] = work[q]
    BY <1>4, <2>1, QueueTyped
  <2> QED BY <1>2, <2>2 DEF TriggerTypeOK, WorkTyped, source, inbox, triggerHistory
<1>5. CASE \E o \in WorkflowOccurrence(i) \intersect Occurrence :
             Set(p, [work[p] EXCEPT !.pc = IF workflow.group = "none" THEN "open" ELSE "group",
                       !.todo = @ \ {i}, !.occurrence = o])
  <2> DEFINE await == IF workflow.group = "none" THEN "open" ELSE "group"
  <2>1. PICK o \in WorkflowOccurrence(i) \intersect Occurrence :
          Set(p, [work[p] EXCEPT !.pc = await, !.todo = @ \ {i}, !.occurrence = o])
    BY <1>5
  <2> DEFINE change == [work[p] EXCEPT !.pc = await, !.todo = @ \ {i}, !.occurrence = o]
  <2>2. await \in Awaits /\ await \in {"open", "group"} /\ o \in Occurrence \union {<<>>}
        /\ work[p].todo \ {i} \in SUBSET Occurrence
    BY <1>1 DEF Awaits
  <2> HIDE DEF await
  <2>3. change \in Poll
    BY <1>1, <2>2, PollFields, Zenon
  <2>4. /\ change.pc = await /\ change.todo = work[p].todo \ {i} /\ change.occurrence = o
        /\ change.page = work[p].page /\ change.cursor = work[p].cursor
    BY <1>1 DEF Poll
  <2>5. Set(p, change)
    BY <2>1
  <2> HIDE DEF change
  <2>6. WorkTyped' /\ work'[p] = change /\ \A q \in Process \ {p} : work'[q] = work[q]
    BY <2>1, <2>3, <2>4, <2>5, PollTyped
  <2>7. TriggerTypeOK'
    BY <1>2, <2>6 DEF TriggerTypeOK, WorkTyped, source, inbox, triggerHistory
  <2> QED BY <1>2, <2>1, <2>2, <2>4, <2>6, <2>7
<1> QED BY <1>3, <1>4, <1>5

LEMMA NextItemTyped ==
  ASSUME TriggerTypeOK, NEW p \in Process, NextItem(p)
  PROVE  /\ WorkTyped' /\ work'[p].pc \in {"rest", "item"} /\ work'[p].todo = work[p].todo
         /\ work'[p].page \in {{}, work[p].page} /\ work'[p].cursor = 0
         /\ \A q \in Process \ {p} : work'[q] = work[q]
<1>1. work[p].todo \in SUBSET Occurrence
  BY DEF TriggerTypeOK, Poll
<1> QED BY <1>1, QueueTyped DEF NextItem

(* The item stays in hand, at another await.                                *)
LEMMA InHandTyped ==
  ASSUME TriggerTypeOK, NEW p \in Process,
         work[p].pc \in {"group", "cancel", "open", "acknowledge"},
         NEW await \in {"group", "cancel", "open", "acknowledge"}, NEW live \in SUBSET Occurrence,
         Set(p, [work[p] EXCEPT !.pc = await, !.live = live])
  PROVE  /\ WorkTyped' /\ work'[p].pc = await /\ work'[p].todo = work[p].todo
         /\ work'[p].occurrence = work[p].occurrence /\ work'[p].live = live
         /\ work'[p].page = work[p].page /\ work'[p].cursor = work[p].cursor
         /\ \A q \in Process \ {p} : work'[q] = work[q]
<1> DEFINE change == [work[p] EXCEPT !.pc = await, !.live = live]
<1>1. work[p] \in Poll /\ work[p].occurrence \in Occurrence /\ await \in Awaits
  BY DEF TriggerTypeOK, Awaits
<1>2. change \in Poll
  BY <1>1, PollFields, Zenon
<1>3. /\ change.pc = await /\ change.occurrence = work[p].occurrence /\ change.live = live /\ change.todo = work[p].todo
      /\ change.page = work[p].page /\ change.cursor = work[p].cursor
  BY <1>1 DEF Poll
<1>4. Set(p, change)
  OBVIOUS
<1> HIDE DEF change
<1> QED BY <1>1, <1>2, <1>3, <1>4, PollTyped

LEMMA CheckGroupTyped ==
  ASSUME TriggerTypeOK, NEW p \in Process, CheckGroup(p)
  PROVE  /\ TriggerTypeOK' /\ UNCHANGED <<source, inbox, runs, triggerHistory>>
         /\ work'[p].page \in {{}, work[p].page} /\ work'[p].cursor \in {0, work[p].cursor}
         /\ work'[p].todo = work[p].todo
         /\ \/ work'[p].pc \in {"rest", "item"}
            \/ /\ work[p].pc = "group" /\ work'[p].pc \in {"open", "cancel"}
               /\ work'[p].occurrence = work[p].occurrence /\ work'[p].live \subseteq Running
         /\ \A q \in Process \ {p} : work'[q] = work[q]
<1> DEFINE live == Running \ {work[p].occurrence}
           await == IF live = {} THEN "open" ELSE "cancel"
<1>1. live \in SUBSET Occurrence /\ live \subseteq Running /\ await \in {"open", "cancel"} /\ work[p].pc = "group"
  BY DEF Running, CheckGroup, At
<1>2. UNCHANGED <<source, inbox, runs, triggerHistory>>
  BY DEF CheckGroup, Yield
<1>3. NextItem(p) \/ Set(p, [work[p] EXCEPT !.pc = await, !.live = live])
  BY DEF CheckGroup, Yield
<1> HIDE DEF live, await
<1>4. CASE NextItem(p)
  BY <1>2, <1>4, NextItemTyped DEF TriggerTypeOK, WorkTyped, source, inbox, triggerHistory
<1>5. CASE Set(p, [work[p] EXCEPT !.pc = await, !.live = live])
  <2>1. /\ WorkTyped' /\ work'[p].pc = await /\ work'[p].todo = work[p].todo
        /\ work'[p].occurrence = work[p].occurrence /\ work'[p].live = live
        /\ work'[p].page = work[p].page /\ work'[p].cursor = work[p].cursor
        /\ \A q \in Process \ {p} : work'[q] = work[q]
    BY <1>1, <1>5, InHandTyped
  <2>2. TriggerTypeOK'
    BY <1>2, <2>1 DEF TriggerTypeOK, WorkTyped, source, inbox, triggerHistory
  <2> QED BY <1>1, <1>2, <2>1, <2>2
<1> QED BY <1>3, <1>4, <1>5

LEMMA CancelOtherTyped ==
  ASSUME TriggerTypeOK, NEW p \in Process, CancelOther(p)
  PROVE  /\ TriggerTypeOK' /\ UNCHANGED <<source, inbox, triggerHistory>>
         /\ \E o \in work[p].live : runs' = [runs EXCEPT ![o] = "ended"]
         /\ work'[p].page = work[p].page /\ work'[p].cursor = work[p].cursor
         /\ work'[p].todo = work[p].todo
         /\ work[p].pc = "cancel" /\ work'[p].pc \in {"open", "cancel"}
         /\ work'[p].occurrence = work[p].occurrence /\ work'[p].live \subseteq work[p].live
         /\ \A q \in Process \ {p} : work'[q] = work[q]
<1>1. PICK o \in work[p].live :
        /\ runs' = [runs EXCEPT ![o] = "ended"]
        /\ Set(p, [work[p] EXCEPT !.live = @ \ {o}, !.pc = IF work[p].live = {o} THEN "open" ELSE "cancel"])
  BY DEF CancelOther
<1> DEFINE await == IF work[p].live = {o} THEN "open" ELSE "cancel"
           live == work[p].live \ {o}
<1>2. live \in SUBSET Occurrence /\ live \subseteq work[p].live /\ await \in {"open", "cancel"} /\ work[p].pc = "cancel" /\ work[p] \in Poll
  BY DEF CancelOther, At, TriggerTypeOK, Poll
<1>3. UNCHANGED <<source, inbox, triggerHistory>>
  BY DEF CancelOther
<1>4. Set(p, [work[p] EXCEPT !.live = live, !.pc = await])
  BY <1>1
<1> HIDE DEF live, await
<1>5. [work[p] EXCEPT !.live = live, !.pc = await] = [work[p] EXCEPT !.pc = await, !.live = live]
  BY <1>2 DEF Poll
<1>6. Set(p, [work[p] EXCEPT !.pc = await, !.live = live])
  BY <1>4, <1>5
<1>7. /\ WorkTyped' /\ work'[p].pc = await /\ work'[p].todo = work[p].todo
      /\ work'[p].occurrence = work[p].occurrence /\ work'[p].live = live
      /\ work'[p].page = work[p].page /\ work'[p].cursor = work[p].cursor
      /\ \A q \in Process \ {p} : work'[q] = work[q]
  BY <1>2, <1>6, InHandTyped
<1>8. TriggerTypeOK'
  BY <1>1, <1>3, <1>7 DEF TriggerTypeOK, WorkTyped, source, inbox, triggerHistory
<1> QED BY <1>1, <1>2, <1>3, <1>7, <1>8

(* A run that is opened is a new one, and with a group the only one.         *)
Opens(o) ==
  /\ runs[o] = "none" /\ runs' = [runs EXCEPT ![o] = "running"]
  /\ opened' = [opened EXCEPT ![o] = @ + 1]
  /\ workflow.group # "none" => Running = {}

LEMMA OpenRunTyped ==
  ASSUME TriggerTypeOK, NEW p \in Process, OpenRun(p)
  PROVE  /\ TriggerTypeOK' /\ UNCHANGED <<source, inbox, faults, retries, resumed>>
         /\ work[p].pc = "open" /\ work[p].occurrence \in Occurrence
         /\ work'[p].page \in {{}, work[p].page} /\ work'[p].cursor \in {0, work[p].cursor}
         /\ work'[p].todo = work[p].todo
         /\ \/ UNCHANGED <<runs, opened>> /\ work'[p].pc \in {"rest", "item"}
            \/ /\ UNCHANGED <<runs, opened>> \/ Opens(work[p].occurrence)
               /\ work'[p].pc = "acknowledge" /\ work'[p].occurrence = work[p].occurrence
               /\ runs'[work[p].occurrence] # "none"
         /\ \A q \in Process \ {p} : work'[q] = work[q]
<1> DEFINE o == work[p].occurrence
           await == "acknowledge"
           live == work[p].live
<1>1. /\ work[p].pc = "open" /\ o \in Occurrence /\ work[p] \in Poll /\ live \in SUBSET Occurrence
      /\ UNCHANGED <<source, inbox, faults, retries, resumed>>
  BY DEF OpenRun, At, TriggerTypeOK, Poll
<1>2. \/ UNCHANGED <<runs, opened>> /\ NextItem(p)
      \/ /\ (UNCHANGED <<runs, opened>> /\ runs[o] # "none") \/ Opens(o)
         /\ Set(p, [work[p] EXCEPT !.pc = await])
  BY DEF OpenRun, OpenWorkflowRun, Opens, GroupOccupied
<1>3. CASE UNCHANGED <<runs, opened>> /\ NextItem(p)
  <2>1. TriggerTypeOK'
    BY <1>1, <1>3, NextItemTyped DEF TriggerTypeOK, WorkTyped, source, inbox
  <2> QED BY <1>1, <1>3, <2>1, NextItemTyped
<1>4. CASE /\ (UNCHANGED <<runs, opened>> /\ runs[o] # "none") \/ Opens(o)
           /\ Set(p, [work[p] EXCEPT !.pc = await])
  <2>1. [work[p] EXCEPT !.pc = await] = [work[p] EXCEPT !.pc = await, !.live = live]
    BY <1>1 DEF Poll
  <2>2. Set(p, [work[p] EXCEPT !.pc = await, !.live = live])
    BY <1>4, <2>1
  <2>3. /\ WorkTyped' /\ work'[p].pc = await /\ work'[p].todo = work[p].todo
        /\ work'[p].occurrence = o
        /\ work'[p].page = work[p].page /\ work'[p].cursor = work[p].cursor
        /\ \A q \in Process \ {p} : work'[q] = work[q]
    BY <1>1, <2>2, InHandTyped
  <2>4. /\ runs' \in [Occurrence -> {"none", "running", "ended"}] /\ runs'[o] # "none"
        /\ opened' \in [Occurrence -> Nat]
    <3>1. CASE UNCHANGED <<runs, opened>> /\ runs[o] # "none"
      BY <3>1 DEF TriggerTypeOK
    <3>2. CASE Opens(o)
      BY <1>1, <3>2 DEF Opens, TriggerTypeOK
    <3> QED BY <1>4, <3>1, <3>2
  <2>5. TriggerTypeOK'
    BY <1>1, <2>3, <2>4 DEF TriggerTypeOK, WorkTyped, source, inbox
  <2> QED BY <1>1, <1>4, <2>3, <2>4, <2>5
<1> QED BY <1>2, <1>3, <1>4

LEMMA AcknowledgeItemTyped ==
  ASSUME TriggerTypeOK, NEW p \in Process, AcknowledgeItem(p)
  PROVE  TriggerTypeOK'
<1>1. NextItem(p) /\ Acknowledged(work[p].occurrence) /\ UNCHANGED <<source, runs, triggerHistory>>
  BY DEF AcknowledgeItem
<1> QED BY <1>1, NextItemTyped, AcknowledgedTyped DEF TriggerTypeOK, WorkTyped, source, triggerHistory

LEMMA ItemFailsTyped ==
  ASSUME TriggerTypeOK, NEW p \in Process, ItemFails(p)
  PROVE  TriggerTypeOK'
<1>1. NextItem(p) /\ faults' = faults + 1 /\ UNCHANGED <<source, inbox, runs, retries, opened, resumed>>
  BY DEF ItemFails, Fault
<1> QED BY <1>1, NextItemTyped DEF TriggerTypeOK, WorkTyped, source, inbox

LEMMA RestTyped ==
  ASSUME TriggerTypeOK, NEW p \in Process, NotDue(p) \/ Crash(p)
  PROVE  TriggerTypeOK'
<1>1. Set(p, AtRest) /\ faults' \in {faults, faults + 1}
      /\ UNCHANGED <<source, inbox, runs, retries, opened, resumed>>
  BY DEF NotDue, Crash, Fault, triggerHistory
<1>2. WorkTyped'
  BY <1>1, PollTyped, AtRestTyped
<1> QED BY <1>1, <1>2 DEF TriggerTypeOK, WorkTyped, source, inbox

LEMMA PublishTyped ==
  ASSUME TriggerTypeOK, NEW s \in Subject, Publish(s)
  PROVE  /\ TriggerTypeOK' /\ Len(published') = Len(published) + 1
         /\ \A n \in 1 .. Len(published) : published'[n] = published[n]
         /\ UNCHANGED <<workflow, inbox, runs, work, triggerHistory>>
<1>1. /\ published' \in Seq(Subject) /\ Len(published') = Len(published) + 1
      /\ \A n \in 1 .. Len(published) : published'[n] = published[n]
      /\ Len(published') <= MaxPublished
      /\ UNCHANGED <<workflow, inbox, runs, work, triggerHistory>>
  BY TriggerAssumption DEF TriggerTypeOK, Publish
<1> QED BY <1>1 DEF TriggerTypeOK, inbox, triggerHistory

LEMMA EndOrRetryTyped ==
  ASSUME TriggerTypeOK, NEW o \in Occurrence, RunEnds(o) \/ RetryRun(o)
  PROVE  TriggerTypeOK'
<1>1. CASE RunEnds(o)
  BY <1>1 DEF TriggerTypeOK, RunEnds, source, inbox, triggerHistory
<1>2. CASE RetryRun(o)
  BY <1>2 DEF TriggerTypeOK, RetryRun, source, inbox
<1> QED BY <1>1, <1>2

LEMMA TypePreserved ==
  ASSUME TriggerTypeOK, StoredWasPublished, [TriggerNext]_triggerVars
  PROVE  TriggerTypeOK'
<1>1. ASSUME NEW p \in Process,
             \/ BeginPoll(p, Subject) \/ \E s \in Subject : BeginPoll(p, {s})
             \/ NotDue(p) \/ Due(p) \/ Awaited(p)
             \/ Offline(p) \/ ItemFails(p) \/ Crash(p)
      PROVE  TriggerTypeOK'
  <2>1. CASE BeginPoll(p, Subject) \/ \E s \in Subject : BeginPoll(p, {s})
    BY <2>1, BeginPollTyped
  <2>2. CASE NotDue(p) \/ Crash(p)
    BY <2>2, RestTyped
  <2>3. CASE Due(p)
    BY <2>3, DueTyped
  <2>4. CASE Offline(p) \/ ItemFails(p)
    BY <2>4, OfflineTyped, ItemFailsTyped
  <2>5. CASE AdvanceRun(p) \/ Fetch(p) \/ Accept(p)
    BY <2>5, AdvanceRunTyped, FetchTyped, AcceptTyped
  <2>6. CASE ListPending(p) \/ Discover(p)
    BY <2>6, ListPendingTyped, DiscoverTyped
  <2>7. CASE TakeItem(p) \/ CheckGroup(p) \/ CancelOther(p)
    BY <2>7, TakeItemTyped, CheckGroupTyped, CancelOtherTyped
  <2>8. CASE OpenRun(p) \/ AcknowledgeItem(p)
    BY <2>8, OpenRunTyped, AcknowledgeItemTyped
  <2> QED BY <1>1, <2>1, <2>2, <2>3, <2>4, <2>5, <2>6, <2>7, <2>8 DEF Awaited
<1>2. CASE UNCHANGED triggerVars
  BY <1>2 DEF TriggerTypeOK, triggerVars, source, inbox, triggerHistory
<1> QED BY <1>1, <1>2, PublishTyped, EndOrRetryTyped DEF TriggerNext
-----------------------------------------------------------------------------
(***************************************************************************)
(* THE CURSOR.                                                              *)
(***************************************************************************)
(* What most steps do to the inbox and to what was fetched: an event may be  *)
(* ticked off, and the process that moves holds at most what it held.        *)
Keeps(p) ==
  /\ published' = published /\ checkpoint' = checkpoint /\ workflow' = workflow
  /\ \A n \in Event : events'[n] = events[n] \/ (events[n] = "pending" /\ events'[n] = "accepted")
  /\ work'[p].pc \notin {"fetch", "accept", "discover"}
  /\ work'[p].page \subseteq work[p].page /\ work'[p].cursor \in {0, work[p].cursor}
  /\ \A q \in Process \ {p} : work'[q] = work[q]

LEMMA AcknowledgedKeeps ==
  ASSUME TriggerTypeOK, NEW o, Acknowledged(o)
  PROVE  \A n \in Event : events'[n] = events[n] \/ (events[n] = "pending" /\ events'[n] = "accepted")
BY DEF TriggerTypeOK, Acknowledged, AcknowledgeTriggerEvent, inbox

LEMMA MovesKeep ==
  ASSUME TriggerTypeOK, StoredWasPublished, NEW p \in Process,
         \/ BeginPoll(p, Subject) \/ \E s \in Subject : BeginPoll(p, {s})
         \/ NotDue(p) \/ Crash(p) \/ AdvanceRun(p)
  PROVE  Keeps(p)
<1>1. ASSUME NEW task \in SUBSET Subject, BeginPoll(p, task) PROVE Keeps(p)
  <2>1. /\ work' = [work EXCEPT ![p] = [AtRest EXCEPT !.pc = "advance", !.task = task,
                                                      !.observed = Running, !.todo = Running]]
        /\ UNCHANGED <<published, workflow, events, checkpoint>>
    BY <1>1 DEF BeginPoll, Set, source, inbox
  <2>2. work'[p] = [AtRest EXCEPT !.pc = "advance", !.task = task, !.observed = Running, !.todo = Running]
        /\ \A q \in Process \ {p} : work'[q] = work[q]
    BY <2>1 DEF TriggerTypeOK
  <2>3. work'[p].pc = "advance" /\ work'[p].page = {} /\ work'[p].cursor = 0
    BY <2>2, AtRestTyped DEF Poll
  <2> QED BY <2>1, <2>2, <2>3 DEF Keeps
<1>2. CASE NotDue(p) \/ Crash(p)
  <2>1. Set(p, AtRest) /\ UNCHANGED <<published, workflow, events, checkpoint>>
    BY <1>2 DEF NotDue, Crash, source, inbox
  <2>2. work'[p] = AtRest /\ \A q \in Process \ {p} : work'[q] = work[q]
    BY <2>1, PollTyped, AtRestTyped
  <2> QED BY <2>1, <2>2, AtRestTyped DEF Keeps
<1>3. CASE AdvanceRun(p)
  <2>1. PICK o \in work[p].todo : Acknowledged(o) /\ Set(p, [work[p] EXCEPT !.todo = @ \ {o}])
    BY <1>3 DEF AdvanceRun
  <2>2. work'[p] = [work[p] EXCEPT !.todo = @ \ {o}] /\ \A q \in Process \ {p} : work'[q] = work[q]
    BY <2>1 DEF Set, TriggerTypeOK
  <2>3. work[p] \in Poll /\ work[p].pc = "advance"
    BY <1>3 DEF TriggerTypeOK, AdvanceRun, At
  <2>4. work'[p].pc = "advance" /\ work'[p].page = work[p].page /\ work'[p].cursor = work[p].cursor
    BY <2>2, <2>3 DEF Poll
  <2>5. published' = published /\ workflow' = workflow
    BY <1>3 DEF AdvanceRun, source
  <2> QED BY <2>1, <2>2, <2>4, <2>5, AcknowledgedKeeps, AcknowledgedTyped DEF Keeps
<1> QED BY <1>1, <1>2, <1>3

LEMMA OfflineKeeps ==
  ASSUME TriggerTypeOK, NEW p \in Process, Offline(p)
  PROVE  Keeps(p) /\ work'[p].todo \subseteq work[p].todo /\ UNCHANGED <<runs, opened, resumed>>
         /\ work'[p].pc \in {"rest", "list"}
<1>0. UNCHANGED <<published, workflow, events, checkpoint, runs, opened, resumed>>
  BY DEF Offline, source, inbox
<1>1. CASE Seen("pending") = {}
  <2>1. work'[p] = AtRest /\ \A q \in Process \ {p} : work'[q] = work[q]
    BY <1>1, PollTyped, AtRestTyped DEF Offline
  <2> QED BY <1>0, <2>1, AtRestTyped DEF Keeps
<1>2. CASE Seen("pending") # {}
  <2>1. /\ work'[p].pc = "list" /\ work'[p].page = {} /\ work'[p].cursor = 0
        /\ work'[p].todo = work[p].todo /\ \A q \in Process \ {p} : work'[q] = work[q]
    BY <1>2, ListedTyped DEF Offline
  <2> QED BY <1>0, <2>1 DEF Keeps
<1> QED BY <1>1, <1>2

(* The items handed to the queue.                                           *)
LEMMA ListPendingKeeps ==
  ASSUME TriggerTypeOK, StoredWasPublished, NEW p \in Process, ListPending(p)
  PROVE  /\ Keeps(p) /\ UNCHANGED <<runs, opened, resumed>>
         /\ work'[p].pc \in {"rest", "item"}
         /\ work'[p].todo \subseteq {<<published[n], n>> : n \in Seen("pending")}
<1> DEFINE items == {<<published[n], n>> : n \in Seen("pending")}
<1>1. ASSUME NEW n \in Seen("pending") PROVE <<published[n], n>> \in Occurrence
  <2>1. n \in 1 .. Len(published) /\ published[n] \in Subject
    BY DEF Seen, StoredWasPublished, TriggerTypeOK
  <2> QED BY <2>1, OccurrenceOfChange
<1>2. items \in SUBSET Occurrence
  BY <1>1
<1>3. Handed(p, items) /\ UNCHANGED <<published, workflow, events, checkpoint, runs, opened, resumed>>
  BY DEF ListPending, source, inbox, triggerHistory
<1> HIDE DEF items
<1>4. /\ work'[p].pc \in {"rest", "item"} /\ work'[p].todo \subseteq items
      /\ work'[p].page \in {{}, work[p].page} /\ work'[p].cursor = 0
      /\ \A q \in Process \ {p} : work'[q] = work[q]
  BY <1>2, <1>3, HandedTyped
<1>5. Keeps(p)
  BY <1>3, <1>4 DEF Keeps
<1> QED BY <1>3, <1>4, <1>5 DEF items

LEMMA DiscoverKeeps ==
  ASSUME TriggerTypeOK, NEW p \in Process, Discover(p)
  PROVE  Keeps(p) /\ UNCHANGED <<runs, opened, resumed>> /\ work'[p].pc \in {"rest", "item"}
<1> DEFINE due == {s \in Subject : Revision(s) > 0 /\ ~Covered(p, s)}
           items == {<<s, Revision(s)>> : s \in due}
<1>1. ASSUME NEW s \in due PROVE <<s, Revision(s)>> \in Occurrence
  <2>1. Revision(s) \in 1 .. Len(published)
    BY RevisionBounded DEF TriggerTypeOK
  <2> QED BY <2>1, OccurrenceOfChange
<1>2. items \in SUBSET Occurrence
  BY <1>1
<1>3. Handed(p, items) /\ UNCHANGED <<published, workflow, events, checkpoint, runs, opened, resumed>>
  BY DEF Discover, source, inbox, triggerHistory
<1> HIDE DEF items
<1> QED BY <1>2, <1>3, HandedTyped DEF Keeps

LEMMA ItemStepKeeps ==
  ASSUME TriggerTypeOK, NEW p \in Process,
         TakeItem(p) \/ CheckGroup(p) \/ CancelOther(p) \/ OpenRun(p) \/ AcknowledgeItem(p) \/ ItemFails(p)
  PROVE  Keeps(p) /\ work'[p].todo \subseteq work[p].todo
<1>1. CASE TakeItem(p)
  BY <1>1, TakeItemTyped DEF Keeps, source, inbox
<1>2. CASE CheckGroup(p)
  BY <1>2, CheckGroupTyped DEF Keeps, source, inbox
<1>3. CASE CancelOther(p)
  BY <1>3, CancelOtherTyped DEF Keeps, source, inbox
<1>4. CASE OpenRun(p)
  BY <1>4, OpenRunTyped DEF Keeps, source, inbox
<1>5. CASE AcknowledgeItem(p)
  BY <1>5, NextItemTyped, AcknowledgedKeeps, AcknowledgedTyped DEF Keeps, source, AcknowledgeItem
<1>6. CASE ItemFails(p)
  BY <1>6, NextItemTyped DEF Keeps, source, inbox, ItemFails
<1> QED BY <1>1, <1>2, <1>3, <1>4, <1>5, <1>6

LEMMA KeepsCursor ==
  ASSUME TriggerTypeOK, CursorInv, NEW p \in Process, Keeps(p)
  PROVE  CursorInv'
<1>1. Len(published) \in Nat /\ checkpoint \in Nat /\ Len(published) <= MaxPublished
  BY TriggerAssumption DEF TriggerTypeOK
<1>2. \A n \in Event : events[n] # "unseen" <=> events'[n] # "unseen"
  BY DEF Keeps, TriggerTypeOK
<1>3. StoredWasPublished'
  BY <1>2 DEF CursorInv, StoredWasPublished, Keeps
<1>4. PageCovers'
  <2>1. checkpoint' <= Len(published')
    BY DEF CursorInv, PageCovers, Keeps
  <2>2. work'[p].page \subseteq 1 .. Len(published') /\ work'[p].cursor <= Len(published')
    BY <1>1 DEF CursorInv, PageCovers, Keeps
  <2>3. ASSUME NEW q \in Process \ {p}, NEW n \in 1 .. work[q].cursor PROVE n \in Event
    BY <1>1, <2>3, TriggerAssumption DEF CursorInv, PageCovers, Event, TriggerTypeOK, Poll
  <2>4. ~At(p, "fetch")' /\ ~At(p, "accept")'
    BY DEF Keeps, At
  <2>5. ASSUME NEW q \in Process \ {p}
        PROVE  /\ work'[q].page \subseteq 1 .. Len(published') /\ work'[q].cursor <= Len(published')
               /\ At(q, "fetch")' => \A n \in 1 .. work'[q].cursor : events'[n] # "unseen"
               /\ At(q, "accept")' => \A n \in 1 .. work'[q].cursor : n \in work'[q].page \/ events'[n] # "unseen"
    BY <1>2, <2>3, <2>5 DEF CursorInv, PageCovers, Keeps, At
  <2> QED BY <2>1, <2>2, <2>4, <2>5 DEF PageCovers
<1>5. CursorCoversInbox'
  <2>1. \A n \in 1 .. checkpoint : n \in Event
    BY <1>1, TriggerAssumption DEF CursorInv, PageCovers, Event
  <2> QED BY <1>2, <2>1 DEF CursorInv, CursorCoversInbox, Keeps
<1> QED BY <1>3, <1>4, <1>5 DEF CursorInv

(* The step of a process at a fetch.                                        *)
LEMMA FetchingCursor ==
  ASSUME TriggerTypeOK, CursorInv, NEW p \in Process, Due(p) \/ Fetch(p)
  PROVE  CursorInv'
<1>0. Len(published) \in Nat /\ Len(published) <= MaxPublished /\ work[p] \in Poll
      /\ UNCHANGED <<published, workflow, events, checkpoint>>
  <2>1. UNCHANGED <<source, inbox>>
    BY DEF Due, Fetch, FetchPage
  <2> QED BY <2>1 DEF TriggerTypeOK, source, inbox
<1>1. CASE Due(p)
  <2>1. work' = [work EXCEPT ![p] = [work[p] EXCEPT !.pc = IF EventSource THEN "fetch" ELSE "discover",
                                                    !.cursor = checkpoint]]
    BY <1>1 DEF Due, Set
  <2>2. /\ work'[p] = [work[p] EXCEPT !.pc = IF EventSource THEN "fetch" ELSE "discover", !.cursor = checkpoint]
        /\ \A q \in Process \ {p} : work'[q] = work[q]
    BY <2>1 DEF TriggerTypeOK
  <2>3. work'[p].pc # "accept" /\ work'[p].cursor = checkpoint /\ work'[p].page = work[p].page
    BY <1>0, <2>2 DEF Poll
  <2> QED BY <1>0, <2>2, <2>3 DEF CursorInv, StoredWasPublished, PageCovers, CursorCoversInbox, At
<1>2. CASE Fetch(p)
  <2>1. PICK page \in Pages(work[p].cursor) :
          Set(p, [work[p] EXCEPT !.pc = "accept", !.page = page.ids, !.cursor = page.cursor])
    BY <1>2 DEF Fetch, FetchPage
  <2>2. /\ work'[p] = [work[p] EXCEPT !.pc = "accept", !.page = page.ids, !.cursor = page.cursor]
        /\ \A q \in Process \ {p} : work'[q] = work[q]
    BY <2>1 DEF TriggerTypeOK, Set
  <2>3. work'[p].pc = "accept" /\ work'[p].cursor = page.cursor /\ work'[p].page = page.ids
    BY <1>0, <2>2 DEF Poll
  <2>4. work[p].cursor \in 0 .. MaxPublished /\ work[p].pc = "fetch"
    BY <1>0, <1>2 DEF Poll, Fetch, FetchPage, At
  <2>5. /\ page.ids \subseteq 1 .. Len(published) /\ page.cursor <= Len(published) /\ page.cursor \in 0 .. MaxPublished
        /\ \A n \in 1 .. page.cursor : n <= work[p].cursor \/ n \in page.ids
    BY <2>4, PageTyped
  <2>6. \A n \in 1 .. page.cursor : n \in page.ids \/ events[n] # "unseen"
    <3>1. \A n \in 1 .. page.cursor : n <= work[p].cursor => n \in 1 .. work[p].cursor
      BY <2>4, <2>5, TriggerAssumption
    <3> QED BY <2>4, <2>5, <3>1 DEF CursorInv, PageCovers, At
  <2>7. StoredWasPublished' /\ CursorCoversInbox'
    BY <1>0 DEF CursorInv, StoredWasPublished, CursorCoversInbox
  <2>8. \A n \in 1 .. page.cursor : n \in work'[p].page \/ events'[n] # "unseen"
    BY <1>0, <2>3, <2>6
  <2>9. PageCovers'
    <3> DEFINE Covers(w) == /\ w.page \subseteq 1 .. Len(published) /\ w.cursor <= Len(published)
                            /\ w.pc = "fetch" => \A n \in 1 .. w.cursor : events[n] # "unseen"
                            /\ w.pc = "accept" => \A n \in 1 .. w.cursor : n \in w.page \/ events[n] # "unseen"
    <3>1. published' = published /\ events' = events /\ checkpoint' = checkpoint /\ checkpoint <= Len(published)
      BY <1>0 DEF CursorInv, PageCovers
    <3>2. \A q \in Process : Covers(work[q])
      BY DEF CursorInv, PageCovers, At
    <3>3. Covers(work'[p])
      BY <2>3, <2>5, <2>8, <3>1
    <3>4. \A q \in Process : Covers(work'[q])
      BY <2>2, <3>2, <3>3, Zenon
    <3> QED BY <3>1, <3>4 DEF PageCovers, At
  <2> QED BY <2>7, <2>9 DEF CursorInv
<1> QED BY <1>1, <1>2

(* A page and its cursor are stored together.                               *)
LEMMA AcceptCursor ==
  ASSUME TriggerTypeOK, CursorInv, NEW p \in Process, Accept(p)
  PROVE  CursorInv'
<1>0. /\ Len(published) \in Nat /\ Len(published) <= MaxPublished /\ work[p] \in Poll
      /\ work[p].pc = "accept" /\ work[p].cursor \in 0 .. MaxPublished /\ work[p].page \in SUBSET Event
  BY DEF TriggerTypeOK, Accept, At, Poll
<1>1. /\ work'[p].pc = "list" /\ work'[p].page = {} /\ work'[p].cursor = 0
      /\ \A q \in Process \ {p} : work'[q] = work[q]
  BY ListedTyped DEF Accept
<1>2. /\ events' = Stored(work[p].page) /\ checkpoint' = work[p].cursor
      /\ UNCHANGED <<published, workflow>>
  BY DEF Accept, AcceptTriggerEvents, source
<1>3. \A n \in Event : events[n] # "unseen" \/ n \in work[p].page => events'[n] # "unseen"
  BY <1>2 DEF Stored, TriggerTypeOK
<1>4. \A n \in Event : events'[n] # "unseen" => events[n] # "unseen" \/ n \in work[p].page
  BY <1>2 DEF Stored, TriggerTypeOK
<1>5. StoredWasPublished'
  BY <1>2, <1>4 DEF CursorInv, StoredWasPublished, PageCovers
<1>6. CursorCoversInbox'
  <2>1. \A n \in 1 .. work[p].cursor : n \in Event
    BY <1>0, TriggerAssumption DEF Event
  <2> QED BY <1>0, <1>2, <1>3, <2>1 DEF CursorInv, PageCovers, CursorCoversInbox, At
<1>7. PageCovers'
  <2>1. ASSUME NEW q \in Process \ {p}, NEW n \in 1 .. work[q].cursor PROVE n \in Event
    BY <1>0, <2>1, TriggerAssumption DEF CursorInv, PageCovers, Event, TriggerTypeOK, Poll
  <2>2. checkpoint' <= Len(published')
    BY <1>2 DEF CursorInv, PageCovers
  <2>3. work'[p].page \subseteq 1 .. Len(published') /\ work'[p].cursor <= Len(published')
        /\ ~At(p, "fetch")' /\ ~At(p, "accept")'
    BY <1>0, <1>1, <1>2 DEF At
  <2>4. ASSUME NEW q \in Process \ {p}
        PROVE  /\ work'[q].page \subseteq 1 .. Len(published') /\ work'[q].cursor <= Len(published')
               /\ At(q, "fetch")' => \A n \in 1 .. work'[q].cursor : events'[n] # "unseen"
               /\ At(q, "accept")' => \A n \in 1 .. work'[q].cursor : n \in work'[q].page \/ events'[n] # "unseen"
    BY <1>1, <1>2, <1>3, <2>1, <2>4 DEF CursorInv, PageCovers, At
  <2> QED BY <2>2, <2>3, <2>4 DEF PageCovers
<1> QED BY <1>5, <1>6, <1>7 DEF CursorInv

LEMMA PublishCursor ==
  ASSUME TriggerTypeOK, CursorInv, NEW s \in Subject, Publish(s)
  PROVE  CursorInv'
<1>1. /\ Len(published) \in Nat /\ Len(published') = Len(published) + 1
      /\ UNCHANGED <<events, checkpoint, work>> /\ checkpoint \in Nat
      /\ \A p \in Process : work[p].cursor \in Nat
  BY PublishTyped, TriggerAssumption DEF inbox, TriggerTypeOK, Poll
<1>2. 1 .. Len(published) \subseteq 1 .. Len(published')
  BY <1>1
<1>3. StoredWasPublished' /\ CursorCoversInbox'
  BY <1>1, <1>2 DEF CursorInv, StoredWasPublished, CursorCoversInbox
<1>4. PageCovers'
  BY <1>1, <1>2 DEF CursorInv, PageCovers, At
<1> QED BY <1>3, <1>4 DEF CursorInv

LEMMA CursorPreserved ==
  ASSUME TriggerTypeOK, CursorInv, [TriggerNext]_triggerVars
  PROVE  CursorInv'
<1>1. ASSUME NEW p \in Process,
             \/ BeginPoll(p, Subject) \/ \E s \in Subject : BeginPoll(p, {s})
             \/ NotDue(p) \/ Due(p) \/ Awaited(p)
             \/ Offline(p) \/ ItemFails(p) \/ Crash(p)
      PROVE  CursorInv'
  <2>1. CASE Due(p) \/ Fetch(p)
    BY <2>1, FetchingCursor
  <2>2. CASE Accept(p)
    BY <2>2, AcceptCursor
  <2>3. CASE \/ BeginPoll(p, Subject) \/ \E s \in Subject : BeginPoll(p, {s})
             \/ NotDue(p) \/ Crash(p) \/ AdvanceRun(p)
    BY <2>3, MovesKeep, KeepsCursor DEF CursorInv
  <2>4. CASE Offline(p) \/ ListPending(p) \/ Discover(p)
    BY <2>4, OfflineKeeps, ListPendingKeeps, DiscoverKeeps, KeepsCursor DEF CursorInv
  <2>5. CASE TakeItem(p) \/ CheckGroup(p) \/ CancelOther(p) \/ OpenRun(p) \/ AcknowledgeItem(p) \/ ItemFails(p)
    BY <2>5, ItemStepKeeps, KeepsCursor
  <2> QED BY <1>1, <2>1, <2>2, <2>3, <2>4, <2>5 DEF Awaited
<1>2. CASE (\E o \in Occurrence : RunEnds(o) \/ RetryRun(o)) \/ UNCHANGED triggerVars
  <2>1. UNCHANGED <<published, events, checkpoint, work>>
    BY <1>2 DEF RunEnds, RetryRun, source, inbox, triggerVars
  <2> QED BY <2>1 DEF CursorInv, StoredWasPublished, PageCovers, CursorCoversInbox, At
<1> QED BY <1>1, <1>2, PublishCursor DEF TriggerNext
-----------------------------------------------------------------------------
(***************************************************************************)
(* RUNS.                                                                    *)
(***************************************************************************)
(* What a step may do to the runs: open one that was not there, end one, or   *)
(* take one up again that is on record as retried.                          *)
RunsAfter ==
  \/ UNCHANGED <<runs, opened, resumed>>
  \/ resumed' = resumed /\ \E p \in Process : At(p, "open") /\ Opens(work[p].occurrence)
  \/ UNCHANGED <<opened, resumed>> /\ \E o \in Occurrence : runs[o] # "none" /\ runs' = [runs EXCEPT ![o] = "ended"]
  \/ /\ opened' = opened
     /\ \E o \in Occurrence :
          /\ runs[o] # "none" /\ runs' = [runs EXCEPT ![o] = "running"] /\ resumed' = resumed \union {o}

(* What a step of a process leaves it with.                                 *)
WorkAfter(p) ==
  /\ \A q \in Process \ {p} : work'[q] = work[q]
  /\ \A o \in work'[p].todo :
       \/ o \in work[p].todo
       \/ (o \in Occurrence /\ runs[o] # "none")
       \/ (EventSource => \E n \in Seen("pending") : o = <<published[n], n>>)
  /\ work'[p].pc = "discover" => ~EventSource
  /\ work'[p].pc = "advance" => \A o \in work'[p].todo : runs[o] # "none"
  /\ work'[p].pc = "cancel" => \A o \in work'[p].live : runs[o] # "none"
  /\ work'[p].pc \in {"group", "cancel", "open"} =>
       \/ work[p].pc \in {"group", "cancel", "open"} /\ work'[p].occurrence = work[p].occurrence
       \/ \E i \in work[p].todo : work'[p].occurrence \in WorkflowOccurrence(i) \intersect Occurrence
  /\ work'[p].pc = "acknowledge" =>
       work[p].pc = "open" /\ work'[p].occurrence = work[p].occurrence /\ runs'[work[p].occurrence] # "none"

(* An event that is ticked off has its run.                                 *)
TicksOff(p) ==
  EventSource => \A n \in Event : events'[n] = "accepted" /\ events[n] # "accepted" =>
    \E o \in Occurrence : Genuine(o) /\ runs[o] # "none" /\ n = o[2]

(* The same after the step.                                                 *)
BehindAfter(o) ==
  \A k \in 1 .. o[2] - 1 :
    /\ runs'[<<o[1], k>>] # "none"
    /\ runs'[<<o[1], k>>] = "running" => <<o[1], k>> \in resumed'

LEMMA PollBegins ==
  ASSUME TriggerTypeOK, RunsInv, NEW p \in Process, NEW task \in SUBSET Subject, BeginPoll(p, task)
  PROVE  WorkAfter(p) /\ TicksOff(p) /\ RunsAfter /\ UNCHANGED source
<1>1. work'[p] = [AtRest EXCEPT !.pc = "advance", !.task = task, !.observed = Running, !.todo = Running]
      /\ \A q \in Process \ {p} : work'[q] = work[q]
  BY DEF BeginPoll, Set, TriggerTypeOK
<1>2. work'[p].pc = "advance" /\ work'[p].todo = Running
  BY <1>1, AtRestTyped DEF Poll
<1>3. UNCHANGED <<source, events, runs, opened, resumed>>
  BY DEF BeginPoll, inbox, triggerHistory
<1> QED BY <1>1, <1>2, <1>3 DEF WorkAfter, TicksOff, RunsAfter, Running

LEMMA PollAdvances ==
  ASSUME TriggerTypeOK, RunsInv, NEW p \in Process, AdvanceRun(p)
  PROVE  WorkAfter(p) /\ TicksOff(p) /\ RunsAfter /\ UNCHANGED source
<1>1. PICK o \in work[p].todo : Acknowledged(o) /\ Set(p, [work[p] EXCEPT !.todo = @ \ {o}])
  BY DEF AdvanceRun
<1>2. work'[p] = [work[p] EXCEPT !.todo = @ \ {o}] /\ \A q \in Process \ {p} : work'[q] = work[q]
  BY <1>1 DEF Set, TriggerTypeOK
<1>3. work[p] \in Poll /\ work[p].pc = "advance" /\ UNCHANGED <<source, runs, opened, resumed>>
  BY DEF TriggerTypeOK, AdvanceRun, At, triggerHistory
<1>4. work'[p].pc = "advance" /\ work'[p].todo = work[p].todo \ {o}
  BY <1>2, <1>3 DEF Poll
<1>5. runs[o] # "none" /\ \A q \in work[p].todo : runs[q] # "none"
  BY <1>1, <1>3 DEF RunsInv, RunBeforeAcknowledgement, At
<1>6. TicksOff(p)
  <2>1. EventSource => Genuine(o)
    BY DEF RunsInv, RunsAreGenuine
  <2>2. EventSource => \A n \in Event : events'[n] # events[n] => n = o[2]
    BY <1>1 DEF Acknowledged, AcknowledgeTriggerEvent, TriggerTypeOK
  <2>3. o \in Occurrence
    BY <1>1, <1>3 DEF Poll
  <2> QED BY <1>5, <2>1, <2>2, <2>3 DEF TicksOff
<1> QED BY <1>2, <1>3, <1>4, <1>5, <1>6 DEF WorkAfter, RunsAfter

LEMMA PollEnds ==
  ASSUME TriggerTypeOK, RunsInv, NEW p \in Process, NotDue(p) \/ Crash(p)
  PROVE  WorkAfter(p) /\ TicksOff(p) /\ RunsAfter /\ UNCHANGED source
<1>1. Set(p, AtRest) /\ UNCHANGED <<source, events, runs, opened, resumed>>
  BY DEF NotDue, Crash, inbox, triggerHistory
<1>2. work'[p] = AtRest /\ \A q \in Process \ {p} : work'[q] = work[q]
  BY <1>1, PollTyped, AtRestTyped
<1> QED BY <1>1, <1>2, AtRestTyped DEF WorkAfter, TicksOff, RunsAfter

LEMMA PollFetches ==
  ASSUME TriggerTypeOK, RunsInv, NEW p \in Process, Due(p) \/ Fetch(p) \/ Accept(p)
  PROVE  WorkAfter(p) /\ TicksOff(p) /\ RunsAfter /\ UNCHANGED source
<1>0. work[p] \in Poll
  BY DEF TriggerTypeOK
<1>1. CASE Due(p)
  <2>1. work'[p] = [work[p] EXCEPT !.pc = IF EventSource THEN "fetch" ELSE "discover", !.cursor = checkpoint]
        /\ \A q \in Process \ {p} : work'[q] = work[q]
    BY <1>1 DEF Due, Set, TriggerTypeOK
  <2>2. work'[p].pc = (IF EventSource THEN "fetch" ELSE "discover") /\ work'[p].todo = work[p].todo
    BY <1>0, <2>1 DEF Poll
  <2>3. UNCHANGED <<source, events, runs, opened, resumed>>
    BY <1>1 DEF Due, inbox, triggerHistory
  <2> QED BY <2>1, <2>2, <2>3 DEF WorkAfter, TicksOff, RunsAfter
<1>2. CASE Fetch(p)
  <2>1. PICK page : Set(p, [work[p] EXCEPT !.pc = "accept", !.page = page.ids, !.cursor = page.cursor])
    BY <1>2 DEF Fetch, FetchPage
  <2>2. work'[p] = [work[p] EXCEPT !.pc = "accept", !.page = page.ids, !.cursor = page.cursor]
        /\ \A q \in Process \ {p} : work'[q] = work[q]
    BY <2>1 DEF Set, TriggerTypeOK
  <2>3. work'[p].pc = "accept" /\ work'[p].todo = work[p].todo
    BY <1>0, <2>2 DEF Poll
  <2>4. UNCHANGED <<source, events, runs, opened, resumed>>
    BY <1>2 DEF Fetch, FetchPage, inbox, triggerHistory
  <2> QED BY <2>2, <2>3, <2>4 DEF WorkAfter, TicksOff, RunsAfter
<1>3. CASE Accept(p)
  <2>1. work'[p].pc = "list" /\ work'[p].todo = work[p].todo /\ \A q \in Process \ {p} : work'[q] = work[q]
    BY <1>3, ListedTyped DEF Accept
  <2>2. UNCHANGED <<source, runs, opened, resumed>> /\ events' = Stored(work[p].page)
    BY <1>3 DEF Accept, AcceptTriggerEvents, triggerHistory
  <2>3. TicksOff(p)
    BY <2>2 DEF TicksOff, Stored, TriggerTypeOK
  <2> QED BY <2>1, <2>2, <2>3 DEF WorkAfter, RunsAfter
<1> QED BY <1>1, <1>2, <1>3

LEMMA PollLists ==
  ASSUME TriggerTypeOK, StoredWasPublished, RunsInv, NEW p \in Process,
         Offline(p) \/ ListPending(p) \/ Discover(p)
  PROVE  WorkAfter(p) /\ TicksOff(p) /\ RunsAfter /\ UNCHANGED source
<1>1. UNCHANGED <<source, events>>
  BY DEF Offline, ListPending, Discover, inbox
<1>2. CASE Offline(p)
  BY <1>1, <1>2, OfflineKeeps DEF WorkAfter, TicksOff, RunsAfter, Keeps
<1>3. CASE ListPending(p)
  BY <1>1, <1>3, ListPendingKeeps DEF WorkAfter, TicksOff, RunsAfter, Keeps
<1>4. CASE Discover(p)
  <2>1. ~EventSource
    BY <1>4 DEF RunsInv, RunsAreGenuine, Discover
  <2> QED BY <1>1, <1>4, <2>1, DiscoverKeeps DEF WorkAfter, TicksOff, RunsAfter, Keeps
<1> QED BY <1>2, <1>3, <1>4

LEMMA ItemTaken ==
  ASSUME TriggerTypeOK, RunsInv, NEW p \in Process, TakeItem(p) \/ CheckGroup(p) \/ CancelOther(p)
  PROVE  WorkAfter(p) /\ TicksOff(p) /\ RunsAfter /\ UNCHANGED source
<1>1. CASE TakeItem(p)
  <2>1. UNCHANGED <<source, events, runs, opened, resumed>>
    BY <1>1, TakeItemTyped DEF inbox, triggerHistory
  <2> QED BY <1>1, <2>1, TakeItemTyped DEF WorkAfter, TicksOff, RunsAfter
<1>2. CASE CheckGroup(p)
  <2>1. UNCHANGED <<source, events, runs, opened, resumed>>
    BY <1>2, CheckGroupTyped DEF inbox, triggerHistory
  <2>2. \A o \in Running : runs[o] # "none"
    BY DEF Running
  <2> QED BY <1>2, <2>1, <2>2, CheckGroupTyped DEF WorkAfter, TicksOff, RunsAfter
<1>3. CASE CancelOther(p)
  <2>1. UNCHANGED <<source, events, opened, resumed>>
    BY <1>3, CancelOtherTyped DEF inbox, triggerHistory
  <2>2. \A o \in work[p].live : o \in Occurrence /\ runs[o] # "none"
    BY <1>3, CancelOtherTyped DEF RunsInv, LiveIsThere, At, TriggerTypeOK, Poll
  <2>3. RunsAfter
    BY <1>3, <2>1, <2>2, CancelOtherTyped DEF RunsAfter
  <2> QED BY <1>3, <2>1, <2>2, <2>3, CancelOtherTyped DEF WorkAfter, TicksOff
<1> QED BY <1>1, <1>2, <1>3

LEMMA ItemFinished ==
  ASSUME TriggerTypeOK, RunsInv, NEW p \in Process, OpenRun(p) \/ AcknowledgeItem(p) \/ ItemFails(p)
  PROVE  WorkAfter(p) /\ TicksOff(p) /\ RunsAfter /\ UNCHANGED source
<1>1. CASE OpenRun(p)
  <2>1. UNCHANGED <<source, events, resumed>>
    BY <1>1, OpenRunTyped DEF inbox
  <2>2. RunsAfter
    BY <1>1, <2>1, OpenRunTyped DEF RunsAfter, At
  <2> QED BY <1>1, <2>1, <2>2, OpenRunTyped DEF WorkAfter, TicksOff
<1>2. CASE AcknowledgeItem(p)
  <2>1. NextItem(p) /\ Acknowledged(work[p].occurrence) /\ UNCHANGED <<source, runs, opened, resumed>>
        /\ work[p].pc = "acknowledge"
    BY <1>2 DEF AcknowledgeItem, triggerHistory, At
  <2>2. EventSource => Genuine(work[p].occurrence)
    BY <2>1 DEF RunsInv, RunsAreGenuine
  <2>3. runs[work[p].occurrence] # "none"
    BY <2>1 DEF RunsInv, RunBeforeAcknowledgement, At
  <2>4. EventSource => \A n \in Event : events'[n] # events[n] => n = work[p].occurrence[2]
    BY <2>1 DEF Acknowledged, AcknowledgeTriggerEvent, TriggerTypeOK
  <2>5. work[p].occurrence \in Occurrence
    BY <2>1 DEF TriggerTypeOK
  <2>6. TicksOff(p)
    BY <2>2, <2>3, <2>4, <2>5 DEF TicksOff
  <2> QED BY <2>1, <2>6, NextItemTyped DEF WorkAfter, RunsAfter
<1>3. CASE ItemFails(p)
  <2>1. NextItem(p) /\ UNCHANGED <<source, events, runs, opened, resumed>>
    BY <1>3 DEF ItemFails, inbox
  <2> QED BY <2>1, NextItemTyped DEF WorkAfter, TicksOff, RunsAfter
<1> QED BY <1>1, <1>2, <1>3

(* What is on record stays on record; what is behind an occurrence too.      *)
LEMMA RunsStay ==
  ASSUME TriggerTypeOK, RunsAfter
  PROVE  /\ \A o \in Occurrence : runs[o] # "none" => runs'[o] # "none"
         /\ \A o : (o \in Occurrence /\ Behind(o)) => BehindAfter(o)
<1>1. \A o \in Occurrence : runs[o] # "none" => runs'[o] # "none"
  BY DEF RunsAfter, Opens, TriggerTypeOK
<1>2. ASSUME NEW o \in Occurrence, Behind(o), NEW k \in 1 .. o[2] - 1
      PROVE  runs'[<<o[1], k>>] # "none" /\ (runs'[<<o[1], k>>] = "running" => <<o[1], k>> \in resumed')
  <2> DEFINE b == <<o[1], k>>
  <2>1. b \in Occurrence
    BY <1>2, OccurrenceParts, TriggerAssumption DEF Occurrence, Max
  <2>2. runs[b] # "none" /\ (runs[b] = "running" => b \in resumed)
    BY <1>2 DEF Behind
  <2> HIDE DEF b
  <2>3. runs'[b] # "none" /\ (runs'[b] = "running" => b \in resumed')
    BY <2>1, <2>2 DEF RunsAfter, Opens, TriggerTypeOK
  <2> QED BY <2>3 DEF b
<1>3. ASSUME NEW o \in Occurrence, Behind(o) PROVE BehindAfter(o)
  BY <1>2, <1>3 DEF BehindAfter
<1> QED BY <1>1, <1>3

(* Opening counts once, and a group or an item keeps one run in progress.    *)
LEMMA RecordPreserved ==
  ASSUME TriggerTypeOK, RunsInv, RunsAfter, UNCHANGED workflow
  PROVE  /\ UnopenedHasNoRun' /\ GroupSharedOnlyByRetry'
         /\ EventSource => \A o \in Occurrence : runs'[o] # "none" => Genuine(o)
         /\ workflow.policy = "every-poll" => \A o \in Occurrence : runs'[o] # "none" => BehindAfter(o)
<1>0. \A p \in Process : At(p, "open") => work[p].occurrence \in Occurrence
  BY DEF TriggerTypeOK, At
<1>1. UnopenedHasNoRun'
  <2>0. /\ \A o \in Occurrence : opened[o] <= 1 /\ (runs[o] = "none" => opened[o] = 0)
        /\ runs \in [Occurrence -> {"none", "running", "ended"}] /\ opened \in [Occurrence -> Nat]
    BY DEF RunsInv, UnopenedHasNoRun, TriggerTypeOK
  <2>1. CASE UNCHANGED <<runs, opened, resumed>>
    BY <2>0, <2>1 DEF UnopenedHasNoRun
  <2>2. CASE \E p \in Process : At(p, "open") /\ Opens(work[p].occurrence)
    <3>1. PICK o \in Occurrence : Opens(o)
      BY <1>0, <2>2
    <3> QED BY <2>0, <3>1 DEF Opens, UnopenedHasNoRun
  <2>3. CASE opened' = opened /\ \E o \in Occurrence : runs[o] # "none" /\ runs' = [runs EXCEPT ![o] = "ended"]
    BY <2>0, <2>3 DEF UnopenedHasNoRun
  <2>4. CASE opened' = opened /\ \E o \in Occurrence : runs[o] # "none" /\ runs' = [runs EXCEPT ![o] = "running"]
    BY <2>0, <2>4 DEF UnopenedHasNoRun
  <2> QED BY <2>1, <2>2, <2>3, <2>4 DEF RunsAfter
<1>2. GroupSharedOnlyByRetry'
  <2>1. CASE UNCHANGED <<runs, opened, resumed>>
    BY <2>1 DEF RunsInv, GroupSharedOnlyByRetry, Running, source
  <2>2. CASE resumed' = resumed /\ \E p \in Process : At(p, "open") /\ Opens(work[p].occurrence)
    <3>1. PICK o \in Occurrence : Opens(o)
      BY <1>0, <2>2
    <3>2. workflow.group # "none" => \A x \in Running' : x = o
      BY <3>1 DEF Opens, Running, TriggerTypeOK
    <3> QED BY <3>2 DEF GroupSharedOnlyByRetry, source
  <2>3. CASE UNCHANGED <<opened, resumed>>
             /\ \E o \in Occurrence : runs[o] # "none" /\ runs' = [runs EXCEPT ![o] = "ended"]
    <3>1. Running' \subseteq Running
      BY <2>3 DEF Running, TriggerTypeOK
    <3> QED BY <2>3, <3>1 DEF RunsInv, GroupSharedOnlyByRetry, source
  <2>4. CASE \E o \in Occurrence :
               /\ runs[o] # "none" /\ runs' = [runs EXCEPT ![o] = "running"]
               /\ resumed' = resumed \union {o}
    <3>1. PICK o \in Occurrence : runs' = [runs EXCEPT ![o] = "running"] /\ resumed' = resumed \union {o}
      BY <2>4
    <3>2. Running' \subseteq Running \union {o}
      BY <3>1 DEF Running, TriggerTypeOK
    <3> QED BY <3>1, <3>2 DEF RunsInv, GroupSharedOnlyByRetry, source
  <2> QED BY <2>1, <2>2, <2>3, <2>4 DEF RunsAfter
<1>3. ASSUME NEW o \in Occurrence, runs'[o] # "none"
      PROVE  runs[o] # "none" \/ \E p \in Process : At(p, "open") /\ work[p].occurrence = o
  BY <1>0, <1>3 DEF RunsAfter, Opens, TriggerTypeOK
<1>4. EventSource => \A o \in Occurrence : runs'[o] # "none" => Genuine(o)
  BY <1>3 DEF RunsInv, RunsAreGenuine, At
<1>5. workflow.policy = "every-poll" => \A o \in Occurrence : runs'[o] # "none" => BehindAfter(o)
  <2>1. workflow.policy = "every-poll" => \A o \in Occurrence : runs'[o] # "none" => Behind(o)
    BY <1>3 DEF RunsInv, EveryPollInTurn, At
  <2> QED BY <2>1, RunsStay
<1> QED BY <1>1, <1>2, <1>4, <1>5

(* The occurrence every-poll derives continues the runs of the item.         *)
LEMMA EveryPollContinues ==
  ASSUME TriggerTypeOK, RunsInv, workflow.policy = "every-poll", NEW i \in Occurrence,
         NEW o \in WorkflowOccurrence(i) \intersect Occurrence
  PROVE  Behind(o)
<1>1. PICK n \in EveryPoll(i[1]) : o = <<i[1], n>>
  BY DEF WorkflowOccurrence
<1>2. i[1] \in Subject /\ n \in Nat
  BY <1>1, OccurrenceParts
<1>3. CASE LatestOf(i[1]) = {}
  <2>1. n = 1
    BY <1>1, <1>3 DEF EveryPoll
  <2> QED BY <1>1, <2>1 DEF Behind
<1>4. CASE LatestOf(i[1]) # {}
  <2>1. PICK m \in LatestOf(i[1]) : n = IF runs[<<i[1], m>>] = "running" THEN m ELSE m + 1
    BY <1>1, <1>4 DEF EveryPoll
  <2>2. m \in 1 .. MaxOccurrence /\ runs[<<i[1], m>>] # "none"
    BY <2>1 DEF LatestOf
  <2>3. <<i[1], m>> \in Occurrence
    BY <1>2, <2>2, TriggerAssumption DEF Occurrence, Max
  <2>4. Behind(<<i[1], m>>)
    BY <2>2, <2>3 DEF RunsInv, EveryPollInTurn
  <2>5. CASE runs[<<i[1], m>>] = "running"
    BY <1>1, <2>1, <2>4, <2>5
  <2>6. CASE runs[<<i[1], m>>] # "running"
    <3>1. o = <<i[1], m + 1>>
      BY <1>1, <2>1, <2>6
    <3>2. ASSUME NEW k \in 1 .. m
          PROVE  runs[<<i[1], k>>] # "none" /\ (runs[<<i[1], k>>] = "running" => <<i[1], k>> \in resumed)
      <4>1. CASE k = m
        BY <2>2, <2>6, <4>1
      <4>2. CASE k # m
        <5>1. k \in 1 .. m - 1
          BY <2>2, <4>2, TriggerAssumption
        <5> QED BY <2>4, <5>1 DEF Behind
      <4> QED BY <4>1, <4>2
    <3>3. (m + 1) - 1 = m
      BY <2>2, TriggerAssumption
    <3> QED BY <3>1, <3>2, <3>3 DEF Behind
  <2> QED BY <2>5, <2>6
<1> QED BY <1>3, <1>4

LEMMA RunsPreserved ==
  ASSUME TriggerTypeOK, TriggerTypeOK', StoredWasPublished, RunsInv, RunsAfter, UNCHANGED source,
         NEW p \in Process, WorkAfter(p), TicksOff(p)
  PROVE  RunsInv'
<1>0. /\ \A q \in Process \ {p} : work'[q] = work[q]
      /\ work[p].todo \in SUBSET Occurrence /\ \A q \in Process : work[q].live \in SUBSET Occurrence
      /\ \A q \in Process : work[q].todo \in SUBSET Occurrence
      /\ \A q \in Process : work[q].pc \in {"group", "cancel", "open", "acknowledge"} => work[q].occurrence \in Occurrence
      /\ published' = published /\ workflow' = workflow
  BY DEF WorkAfter, TriggerTypeOK, Poll, source
<1>1. /\ \A o \in Occurrence : runs[o] # "none" => runs'[o] # "none"
      /\ \A o : (o \in Occurrence /\ Behind(o)) => BehindAfter(o)
  BY RunsStay
<1>2. /\ UnopenedHasNoRun' /\ GroupSharedOnlyByRetry'
      /\ EventSource => \A o \in Occurrence : runs'[o] # "none" => Genuine(o)
      /\ workflow.policy = "every-poll" => \A o \in Occurrence : runs'[o] # "none" => BehindAfter(o)
  BY <1>0, RecordPreserved
<1>3. RunsAreGenuine'
  <2>1. ASSUME EventSource, NEW o \in work'[p].todo PROVE Genuine(o)
    <3>1. ASSUME NEW n \in Seen("pending") PROVE Genuine(<<published[n], n>>)
      BY <3>1 DEF Seen, StoredWasPublished, Genuine
    <3> QED BY <2>1, <3>1 DEF WorkAfter, RunsInv, RunsAreGenuine
  <2>2. ASSUME EventSource, work'[p].pc \in {"group", "cancel", "open", "acknowledge"}
        PROVE  Genuine(work'[p].occurrence)
    <3>1. ASSUME NEW i \in work[p].todo, work'[p].occurrence \in WorkflowOccurrence(i)
          PROVE  work'[p].occurrence = i
      BY <2>2, <3>1 DEF WorkflowOccurrence, EventSource
    <3> QED BY <2>2, <3>1 DEF WorkAfter, RunsInv, RunsAreGenuine
  <2>3. EventSource => work'[p].pc # "discover"
    BY DEF WorkAfter
  <2>4. \A o : Genuine(o)' <=> Genuine(o)
    BY <1>0 DEF Genuine
  <2>5. EventSource' <=> EventSource
    BY <1>0 DEF EventSource
  <2> QED BY <1>0, <1>2, <2>1, <2>2, <2>3, <2>4, <2>5 DEF RunsInv, RunsAreGenuine, At
<1>4. RunBeforeAcknowledgement'
  <2>1. ASSUME work'[p].pc = "advance", NEW o \in work'[p].todo PROVE runs'[o] # "none"
    <3>1. o \in Occurrence /\ runs[o] # "none"
      BY <2>1 DEF WorkAfter, TriggerTypeOK, Poll
    <3> QED BY <1>1, <3>1
  <2>2. work'[p].pc = "acknowledge" => runs'[work'[p].occurrence] # "none"
    BY DEF WorkAfter
  <2>3. ASSUME NEW q \in Process \ {p}
        PROVE  /\ At(q, "advance")' => \A o \in work'[q].todo : runs'[o] # "none"
               /\ At(q, "acknowledge")' => runs'[work'[q].occurrence] # "none"
    BY <1>0, <1>1, <2>3 DEF RunsInv, RunBeforeAcknowledgement, At
  <2> QED BY <2>1, <2>2, <2>3 DEF RunBeforeAcknowledgement, At
<1>5. AcknowledgedHasRun'
  <2> SUFFICES ASSUME EventSource, NEW n \in Event, events'[n] = "accepted"
               PROVE  runs'[<<published[n], n>>] # "none"
    BY <1>0 DEF AcknowledgedHasRun, Seen, EventSource
  <2>1. CASE events[n] = "accepted"
    <3>1. n \in 1 .. Len(published) /\ published[n] \in Subject
      BY <2>1 DEF StoredWasPublished, TriggerTypeOK
    <3>2. <<published[n], n>> \in Occurrence
      BY <3>1, OccurrenceOfChange
    <3>3. runs[<<published[n], n>>] # "none"
      BY <2>1 DEF RunsInv, AcknowledgedHasRun, Seen
    <3> QED BY <1>1, <3>2, <3>3
  <2>2. CASE events[n] # "accepted"
    <3>1. PICK o \in Occurrence : Genuine(o) /\ runs[o] # "none" /\ n = o[2]
      BY <2>2 DEF TicksOff
    <3>2. o = <<published[n], n>>
      BY <3>1, OccurrenceParts DEF Genuine
    <3> QED BY <1>1, <3>1, <3>2
  <2> QED BY <2>1, <2>2
<1>6. LiveIsThere'
  <2>1. ASSUME work'[p].pc = "cancel", NEW o \in work'[p].live PROVE runs'[o] # "none"
    <3>1. o \in Occurrence /\ runs[o] # "none"
      BY <2>1 DEF WorkAfter, TriggerTypeOK, Poll
    <3> QED BY <1>1, <3>1
  <2>2. ASSUME NEW q \in Process \ {p}, work[q].pc = "cancel", NEW o \in work[q].live PROVE runs'[o] # "none"
    BY <1>0, <1>1, <2>2 DEF RunsInv, LiveIsThere, At
  <2> QED BY <1>0, <2>1, <2>2 DEF LiveIsThere, At
<1>7. EveryPollInTurn'
  <2> SUFFICES ASSUME workflow.policy = "every-poll"
               PROVE  \A q \in Process : work'[q].pc \in {"group", "cancel", "open"} => BehindAfter(work'[q].occurrence)
    BY <1>0, <1>2 DEF EveryPollInTurn, Behind, BehindAfter
  <2>1. ASSUME work'[p].pc \in {"group", "cancel", "open"}
        PROVE  work'[p].occurrence \in Occurrence /\ Behind(work'[p].occurrence)
    <3>1. CASE work[p].pc \in {"group", "cancel", "open"} /\ work'[p].occurrence = work[p].occurrence
      BY <1>0, <3>1 DEF RunsInv, EveryPollInTurn
    <3>2. CASE \E i \in work[p].todo : work'[p].occurrence \in WorkflowOccurrence(i) \intersect Occurrence
      BY <1>0, <3>2, EveryPollContinues
    <3> QED BY <2>1, <3>1, <3>2 DEF WorkAfter
  <2>2. ASSUME work'[p].pc \in {"group", "cancel", "open"} PROVE BehindAfter(work'[p].occurrence)
    BY <1>1, <2>1, <2>2
  <2>3. ASSUME NEW q \in Process \ {p}, work[q].pc \in {"group", "cancel", "open"}
        PROVE  BehindAfter(work[q].occurrence)
    BY <1>0, <1>1, <2>3 DEF RunsInv, EveryPollInTurn
  <2> QED BY <1>0, <2>2, <2>3
<1> QED BY <1>2, <1>3, <1>4, <1>5, <1>6, <1>7 DEF RunsInv
(* The provider and the operators leave the processes where they are.        *)
LEMMA RunsPreservedOutside ==
  ASSUME TriggerTypeOK, TriggerTypeOK', StoredWasPublished, RunsInv, RunsAfter,
         UNCHANGED <<work, events, workflow>>,
         Len(published) <= Len(published'), \A n \in 1 .. Len(published) : published'[n] = published[n]
  PROVE  RunsInv'
<1>0. Len(published) \in Nat /\ Len(published') \in Nat
  BY DEF TriggerTypeOK
<1>1. \A o \in Occurrence : runs[o] # "none" => runs'[o] # "none"
  BY RunsStay
<1>2. \A o : Genuine(o) => Genuine(o)'
  BY <1>0 DEF Genuine
<1>3. /\ UnopenedHasNoRun' /\ GroupSharedOnlyByRetry'
      /\ EventSource => \A o \in Occurrence : runs'[o] # "none" => Genuine(o)
      /\ workflow.policy = "every-poll" => \A o \in Occurrence : runs'[o] # "none" => BehindAfter(o)
  BY RecordPreserved
<1>4. RunsAreGenuine'
  BY <1>2, <1>3 DEF RunsInv, RunsAreGenuine, EventSource, At
<1>5. RunBeforeAcknowledgement' /\ LiveIsThere'
  <2>1. \A p \in Process :
          /\ work[p].todo \in SUBSET Occurrence /\ work[p].live \in SUBSET Occurrence
          /\ At(p, "acknowledge") => work[p].occurrence \in Occurrence
    BY DEF TriggerTypeOK, Poll, At
  <2>2. RunBeforeAcknowledgement'
    BY <1>1, <2>1 DEF RunsInv, RunBeforeAcknowledgement, At
  <2> QED BY <1>1, <2>1, <2>2 DEF RunsInv, LiveIsThere, At
<1>6. AcknowledgedHasRun'
  <2> SUFFICES ASSUME EventSource, NEW n \in Event, events[n] = "accepted"
               PROVE  runs'[<<published'[n], n>>] # "none"
    BY DEF AcknowledgedHasRun, Seen, EventSource
  <2>1. n \in 1 .. Len(published) /\ published[n] \in Subject
    BY DEF StoredWasPublished, TriggerTypeOK
  <2>2. <<published[n], n>> \in Occurrence /\ runs[<<published[n], n>>] # "none"
    BY <2>1, OccurrenceOfChange DEF RunsInv, AcknowledgedHasRun, Seen
  <2> QED BY <1>1, <2>1, <2>2
<1>7. EveryPollInTurn'
  <2>1. \A p \in Process : work[p].pc \in {"group", "cancel", "open"} => work[p].occurrence \in Occurrence
    BY DEF TriggerTypeOK
  <2>2. ASSUME workflow.policy = "every-poll", NEW p \in Process, work[p].pc \in {"group", "cancel", "open"}
        PROVE  BehindAfter(work[p].occurrence)
    BY <2>1, <2>2, RunsStay DEF RunsInv, EveryPollInTurn
  <2> QED BY <1>3, <2>2 DEF EveryPollInTurn, Behind, BehindAfter
<1> QED BY <1>3, <1>4, <1>5, <1>6, <1>7 DEF RunsInv

LEMMA RunsStepPreserved ==
  ASSUME TriggerTypeOK, TriggerTypeOK', StoredWasPublished, RunsInv, [TriggerNext]_triggerVars
  PROVE  RunsInv'
<1>1. ASSUME NEW p \in Process,
             \/ BeginPoll(p, Subject) \/ \E s \in Subject : BeginPoll(p, {s})
             \/ NotDue(p) \/ Due(p) \/ Awaited(p)
             \/ Offline(p) \/ ItemFails(p) \/ Crash(p)
      PROVE  WorkAfter(p) /\ TicksOff(p) /\ RunsAfter /\ UNCHANGED source
  BY <1>1, PollBegins, PollAdvances, PollEnds, PollFetches, PollLists, ItemTaken, ItemFinished DEF Awaited
<1>2. ASSUME NEW s \in Subject, Publish(s) PROVE RunsInv'
  <2>1. /\ Len(published) \in Nat /\ Len(published') = Len(published) + 1
        /\ \A n \in 1 .. Len(published) : published'[n] = published[n]
    BY <1>2 DEF Publish, TriggerTypeOK
  <2>2. UNCHANGED <<work, events, workflow, runs, opened, resumed>>
    BY <1>2 DEF Publish, inbox, triggerHistory
  <2>3. RunsAfter /\ Len(published) <= Len(published')
    BY <2>1, <2>2 DEF RunsAfter
  <2> QED BY <2>1, <2>2, <2>3, RunsPreservedOutside
<1>3. ASSUME NEW o \in Occurrence, RunEnds(o) \/ RetryRun(o) PROVE RunsInv'
  <2>1. UNCHANGED <<work, events, workflow, published>>
    BY <1>3 DEF RunEnds, RetryRun, source, inbox
  <2>2. RunsAfter
    BY <1>3 DEF RunEnds, RetryRun, RunsAfter, triggerHistory
  <2>3. Len(published) \in Nat
    BY DEF TriggerTypeOK
  <2>4. Len(published) <= Len(published') /\ \A n \in 1 .. Len(published) : published'[n] = published[n]
    BY <2>1, <2>3
  <2> QED BY <2>1, <2>2, <2>4, RunsPreservedOutside
<1>4. CASE UNCHANGED triggerVars
  <2>1. UNCHANGED <<work, events, workflow, published, runs, opened, resumed>>
    BY <1>4 DEF triggerVars, source, inbox, triggerHistory
  <2>2. Len(published) \in Nat
    BY DEF TriggerTypeOK
  <2>3. RunsAfter /\ Len(published) <= Len(published') /\ \A n \in 1 .. Len(published) : published'[n] = published[n]
    BY <2>1, <2>2 DEF RunsAfter
  <2> QED BY <2>1, <2>3, RunsPreservedOutside
<1>5. ASSUME NEW p \in Process, WorkAfter(p), TicksOff(p), RunsAfter, UNCHANGED source PROVE RunsInv'
  BY <1>5, RunsPreserved
<1> QED BY <1>1, <1>2, <1>3, <1>4, <1>5 DEF TriggerNext
-----------------------------------------------------------------------------
(***************************************************************************)
(* THE THEOREMS.                                                            *)
(***************************************************************************)
LEMMA TriggerInitially == TriggerInit => TriggerInv
<1> SUFFICES ASSUME TriggerInit PROVE TriggerInv
  OBVIOUS
<1>1. TriggerTypeOK
  <2>1. published \in Seq(Subject) /\ Len(published) = 0 /\ 0 <= MaxPublished
    BY TriggerAssumption DEF TriggerInit
  <2> QED BY <2>1, AtRestTyped, TriggerAssumption DEF TriggerInit, TriggerTypeOK
<1>2. \A p \in Process : work[p] = AtRest
  BY DEF TriggerInit
<1>3. CursorInv
  BY <1>2, AtRestTyped, TriggerAssumption
     DEF TriggerInit, CursorInv, StoredWasPublished, PageCovers, CursorCoversInbox, At
<1>4. RunsInv
  <2>1. RunsAreGenuine /\ RunBeforeAcknowledgement /\ LiveIsThere /\ EveryPollInTurn
    BY <1>2, AtRestTyped
       DEF TriggerInit, RunsAreGenuine, RunBeforeAcknowledgement, LiveIsThere, EveryPollInTurn, At
  <2>2. AcknowledgedHasRun /\ UnopenedHasNoRun /\ GroupSharedOnlyByRetry
    BY DEF TriggerInit, AcknowledgedHasRun, UnopenedHasNoRun, GroupSharedOnlyByRetry, Seen, Running
  <2> QED BY <2>1, <2>2 DEF RunsInv
<1> QED BY <1>1, <1>3, <1>4 DEF TriggerInv

LEMMA TriggerInvPreserved == TriggerInv /\ [TriggerNext]_triggerVars => TriggerInv'
<1> SUFFICES ASSUME TriggerInv, [TriggerNext]_triggerVars PROVE TriggerInv'
  OBVIOUS
<1>1. TriggerTypeOK /\ CursorInv /\ RunsInv /\ StoredWasPublished
  BY DEF TriggerInv, CursorInv
<1>2. TriggerTypeOK'
  BY <1>1, TypePreserved
<1> QED BY <1>1, <1>2, CursorPreserved, RunsStepPreserved DEF TriggerInv

LEMMA TriggerInvHolds == TriggerSpec => []TriggerInv
BY TriggerInitially, TriggerInvPreserved, PTL DEF TriggerSpec

(* The tables and the polls keep their shapes, whatever the relays do.       *)
THEOREM TriggerTypeCorrect == TriggerSpec => []TriggerTypeOK
<1>1. TriggerInv => TriggerTypeOK
  BY DEF TriggerInv
<1> QED BY <1>1, TriggerInvHolds, PTL

(* The stored cursor never passes an event that is not in the inbox.         *)
THEOREM CursorNeverPassesAnEvent == TriggerSpec => []CursorCoversInbox
<1>1. TriggerInv => CursorCoversInbox
  BY DEF TriggerInv, CursorInv
<1> QED BY <1>1, TriggerInvHolds, PTL

(* An event is acknowledged only with its run on record.                     *)
THEOREM AcknowledgedAfterItsRun == TriggerSpec => []AcknowledgedHasRun
<1>1. TriggerInv => AcknowledgedHasRun
  BY DEF TriggerInv, RunsInv
<1> QED BY <1>1, TriggerInvHolds, PTL

(* However often an event is delivered, its run is opened once.               *)
THEOREM OpenedAtMostOnce == TriggerSpec => []StartedOnce
<1>1. TriggerInv => StartedOnce
  BY DEF TriggerInv, RunsInv, UnopenedHasNoRun, StartedOnce
<1> QED BY <1>1, TriggerInvHolds, PTL

(* Starting never puts a second run into a concurrency group.                *)
THEOREM GroupKeptByStarts == TriggerSpec => []GroupSharedOnlyByRetry
<1>1. TriggerInv => GroupSharedOnlyByRetry
  BY DEF TriggerInv, RunsInv
<1> QED BY <1>1, TriggerInvHolds, PTL

(* Under every-poll a second run of an item is live only after a retry.      *)
THEOREM EveryPollKeepsOne == TriggerSpec => []EveryPollAlone
<1>1. TriggerInv => EveryPollAlone
  <2> SUFFICES ASSUME TriggerInv, workflow.policy = "every-poll",
                      NEW o \in Running, NEW q \in Running, o[1] = q[1], o # q
               PROVE  o \in resumed \/ q \in resumed
    BY DEF EveryPollAlone
  <2>1. /\ o \in Occurrence /\ q \in Occurrence /\ runs[o] = "running" /\ runs[q] = "running"
        /\ Behind(o) /\ Behind(q)
    BY DEF TriggerInv, RunsInv, EveryPollInTurn, Running
  <2>2. o = <<o[1], o[2]>> /\ q = <<q[1], q[2]>> /\ o[2] \in Nat /\ q[2] \in Nat /\ o[2] >= 1 /\ q[2] >= 1
    BY <2>1, OccurrenceParts
  <2>3. o[2] < q[2] \/ q[2] < o[2]
    BY <2>2
  <2>4. CASE o[2] < q[2]
    BY <2>1, <2>2, <2>4 DEF Behind
  <2>5. CASE q[2] < o[2]
    BY <2>1, <2>2, <2>5 DEF Behind
  <2> QED BY <2>3, <2>4, <2>5
<1> QED BY <1>1, TriggerInvHolds, PTL
=============================================================================
