------------------------- MODULE WorkflowIndex_proofs -------------------------
(***************************************************************************)
(* Proofs about WorkflowIndex, for any runs, processes and dashboards and     *)
(* every bound, in whatever order saves commit after reading the clock.      *)
(***************************************************************************)
EXTENDS WorkflowIndex, TLAPS

Hand == [ pc : {"idle", "list", "index", "event", "acknowledge", "import", "retried", "logged",
                "save", "retry"},
          rows : SUBSET (DOMAIN outbox), copies : SUBSET Copy, saves : SUBSET Save ]

Event == [rev : Nat, projected : BOOLEAN]

(* A copy in circulation was queued once.                                   *)
Queued(copy) == \E id \in DOMAIN outbox : outbox[id] = copy

KnownVersions ==
  /\ \A r \in Run : ledger[r].rev > 0 => Queued(CopyOf(r))
  /\ \A r \in Run : index[r] = Unsaved \/ Queued([run |-> r, rev |-> index[r].rev, at |-> index[r].at])
  /\ \A p \in Process : \A copy \in work[p].copies : Queued(copy)

(* The index is not behind the revision, but for saves stamped in an other     *)
(* order than they committed.                                               *)
Covers(r, rev) == index[r].rev >= rev \/ Straddled(r, rev)

(* A row whose event is due is in the index.                                *)
RowIsIndexed ==
  \A p \in Process : \A id \in work[p].rows :
    work[p].pc \in {"event", "acknowledge"} /\ IsNext(p, id) => Covers(outbox[id].run, outbox[id].rev)

IndexInv == IndexTypeOK /\ KnownVersions /\ RowIsIndexed /\ DeliveredIsIndexed
-----------------------------------------------------------------------------
(***************************************************************************)
(* TYPE CORRECTNESS.                                                        *)
(***************************************************************************)
LEMMA Shapes ==
  ASSUME IndexTypeOK
  PROVE  /\ work \in [Process -> Hand] /\ \A p \in Process : work[p] \in Hand
         /\ \A r \in Run : ledger[r] \in Version /\ index[r] \in Version /\ CopyOf(r) \in Copy
         /\ \A id \in DOMAIN outbox : outbox[id] \in Copy
<1>1. work \in [Process -> Hand]
  BY DEF IndexTypeOK, Hand
<1>2. \A r \in Run : ledger[r] \in Version /\ index[r] \in Version
  BY DEF IndexTypeOK
<1>3. \A r \in Run : CopyOf(r) \in Copy
  BY <1>2 DEF Version, Copy, CopyOf
<1>4. \A id \in DOMAIN outbox : outbox[id] \in Copy
  BY DEF IndexTypeOK
<1> QED BY <1>1, <1>2, <1>3, <1>4

LEMMA IdleHand == Idle.pc = "idle" /\ Idle.rows = {} /\ Idle.copies = {} /\ Idle.saves = {} /\ Idle \in Hand
BY DEF Idle, Hand

(* A save: the run moves on, and the queue has one more row.                 *)
LEMMA Saved ==
  ASSUME IndexTypeOK, NEW r \in Run, NEW at \in Nat, SaveWorkflow(r, at)
  PROVE  /\ ledger' \in [Run -> Version] /\ outbox' \in Seq(Copy) /\ delivered' = delivered
         /\ ledger'[r].rev = ledger[r].rev + 1 /\ ledger'[r].at = at
         /\ \A s \in Run \ {r} : ledger'[s] = ledger[s]
         /\ Len(outbox) \in Nat /\ DOMAIN outbox = 1 .. Len(outbox) /\ DOMAIN outbox' = 1 .. Len(outbox) + 1
         /\ \A id \in DOMAIN outbox : id \in DOMAIN outbox' /\ outbox'[id] = outbox[id]
         /\ outbox'[Len(outbox) + 1] = [run |-> r, rev |-> ledger[r].rev + 1, at |-> at]
<1>1. ledger[r] \in Version /\ ledger \in [Run -> Version] /\ outbox \in Seq(Copy)
  BY DEF IndexTypeOK
<1>3. [run |-> r, rev |-> ledger[r].rev + 1, at |-> at] \in Copy
  BY <1>1 DEF Version, Copy
<1>4. outbox' \in Seq(Copy) /\ delivered' = delivered
  BY <1>1, <1>3 DEF SaveWorkflow
<1>5. ledger' = [ledger EXCEPT ![r] = [rev |-> ledger[r].rev + 1, at |-> at]]
  BY DEF SaveWorkflow
<1>6. /\ ledger' \in [Run -> Version] /\ ledger'[r].rev = ledger[r].rev + 1 /\ ledger'[r].at = at
      /\ \A s \in Run \ {r} : ledger'[s] = ledger[s]
  BY <1>1, <1>5 DEF Version
<1>7. /\ Len(outbox) \in Nat /\ DOMAIN outbox = 1 .. Len(outbox) /\ DOMAIN outbox' = 1 .. Len(outbox) + 1
      /\ \A id \in DOMAIN outbox : id \in DOMAIN outbox' /\ outbox'[id] = outbox[id]
      /\ outbox'[Len(outbox) + 1] = [run |-> r, rev |-> ledger[r].rev + 1, at |-> at]
  BY <1>1, <1>3 DEF SaveWorkflow
<1> QED BY <1>4, <1>6, <1>7

LEMMA Indexed ==
  ASSUME IndexTypeOK, NEW copy \in Copy, SyncRun(copy)
  PROVE  /\ index' \in [Run -> Version] /\ folder' \in [known : BOOLEAN, removed : BOOLEAN]
         /\ folder'.removed = folder.removed
         /\ \A s \in Run \ {copy.run} : index'[s] = index[s]
         /\ \/ Outdated(copy) /\ index' = index
            \/ ~Outdated(copy) /\ index'[copy.run] = [rev |-> copy.rev, at |-> copy.at]
BY DEF IndexTypeOK, SyncRun, FolderSeen, Copy, Version

(* A process's new hand.                                                    *)
Becomes(p, w) == work' = [work EXCEPT ![p] = w]

LEMMA HandTyped ==
  ASSUME IndexTypeOK, NEW p \in Process, DOMAIN outbox \subseteq DOMAIN outbox',
         NEW w \in Hand, Becomes(p, w)
  PROVE  work' \in [Process -> Hand'] /\ work'[p] = w /\ \A q \in Process \ {p} : work'[q] = work[q]
<1>1. work \in [Process -> Hand]
  BY Shapes
<1>2. \A h \in Hand : h \in Hand'
  BY DEF Hand
<1> QED BY <1>1, <1>2 DEF Becomes

(* What a step leaves a process with: copies it had, or has just read in the  *)
(* ledger; an event or an acknowledgement is due for the row it was at.       *)
HandAfter(p) ==
  /\ work' \in [Process -> Hand']
  /\ \A q \in Process \ {p} : work'[q] = work[q]
  /\ \A copy \in work'[p].copies : copy \in work[p].copies \/ \E r \in Run : ledger[r].rev > 0 /\ copy = CopyOf(r)
  /\ work'[p].pc \in {"event", "acknowledge"} =>
       work'[p].rows = work[p].rows /\ (IndexRow(p) \/ (work[p].pc = "event" /\ index' = index))

LEMMA WalksOn ==
  ASSUME IndexTypeOK, NEW p \in Process,
         NEW pc \in {"list", "event", "acknowledge", "logged"}, Goto(p, pc), DOMAIN outbox \subseteq DOMAIN outbox',
         pc = "event" => IndexRow(p), pc = "acknowledge" => work[p].pc = "event" /\ index' = index
  PROVE  HandAfter(p)
<1> DEFINE w == [work[p] EXCEPT !.pc = pc]
<1>0. work[p] \in Hand
  BY Shapes
<1>1. w \in Hand /\ w.pc = pc /\ w.rows = work[p].rows /\ w.copies = work[p].copies
  BY <1>0 DEF Hand
<1>2. Becomes(p, w)
  BY DEF Goto, Becomes
<1> HIDE DEF w
<1> QED BY <1>1, <1>2, HandTyped DEF HandAfter

LEMMA Rests ==
  ASSUME IndexTypeOK, NEW p \in Process, Rest(p), DOMAIN outbox \subseteq DOMAIN outbox'
  PROVE  HandAfter(p)
BY HandTyped, IdleHand DEF Rest, Becomes, HandAfter

LEMMA Reads ==
  ASSUME IndexTypeOK, NEW p \in Process, ReadOutbox(p)
  PROVE  HandAfter(p)
<1>0. outbox' = outbox
  BY DEF ReadOutbox, repository
<1>1. CASE PendingProjections = {}
  BY <1>0, <1>1, Rests DEF ReadOutbox, Rest
<1>2. CASE PendingProjections # {}
  <2> DEFINE w == [Idle EXCEPT !.pc = "index", !.rows = PendingProjections]
  <2>1. w \in Hand /\ w.pc = "index" /\ w.copies = {}
    BY DEF Idle, Hand, PendingProjections
  <2>2. Becomes(p, w)
    BY <1>2 DEF ReadOutbox, Becomes
  <2> HIDE DEF w
  <2> QED BY <1>0, <2>1, <2>2, HandTyped DEF HandAfter
<1> QED BY <1>1, <1>2

LEMMA Acknowledges ==
  ASSUME IndexTypeOK, NEW p \in Process, AcknowledgeRow(p)
  PROVE  HandAfter(p)
<1>0. outbox' = outbox /\ work[p] \in Hand
  BY Shapes DEF AcknowledgeRow, AcknowledgeProjection
<1>1. PICK id \in work[p].rows : RowDone(p, id)
  BY DEF AcknowledgeRow
<1>2. CASE work[p].rows = {id}
  BY <1>0, <1>1, <1>2, Rests DEF RowDone, Rest
<1>3. CASE work[p].rows # {id}
  <2> DEFINE w == [work[p] EXCEPT !.pc = "index", !.rows = work[p].rows \ {id}]
  <2>1. w \in Hand /\ w.pc = "index" /\ w.copies = work[p].copies
    BY <1>0 DEF Hand
  <2>2. Becomes(p, w)
    BY <1>1, <1>3 DEF RowDone, Becomes
  <2> HIDE DEF w
  <2> QED BY <1>0, <2>1, <2>2, HandTyped DEF HandAfter
<1> QED BY <1>2, <1>3

LEMMA Imports ==
  ASSUME IndexTypeOK, NEW p \in Process, Snapshot(p), outbox' = outbox
  PROVE  HandAfter(p)
<1> DEFINE copies == {CopyOf(r) : r \in {r \in Run : ledger[r].rev > 0}}
           w == [Idle EXCEPT !.pc = "import", !.copies = copies]
<1>1. copies \subseteq Copy
  BY Shapes
<1>2. \A copy \in copies : \E r \in Run : ledger[r].rev > 0 /\ copy = CopyOf(r)
  OBVIOUS
<1> HIDE DEF copies
<1>3. w \in Hand /\ w.pc = "import" /\ w.copies = copies
  BY <1>1 DEF Idle, Hand
<1>4. Becomes(p, w)
  BY DEF Snapshot, Becomes, copies
<1> HIDE DEF w
<1> QED BY <1>2, <1>3, <1>4, HandTyped DEF HandAfter

LEMMA ImportsRun ==
  ASSUME IndexTypeOK, NEW p \in Process, ImportRun(p)
  PROVE  HandAfter(p)
<1>0. outbox' = outbox /\ work[p] \in Hand /\ work[p].pc = "import"
  BY Shapes DEF ImportRun, repository, At
<1>1. PICK copy \in work[p].copies : work' = [work EXCEPT ![p].copies = @ \ {copy}]
  BY DEF ImportRun
<1> DEFINE w == [work[p] EXCEPT !.copies = @ \ {copy}]
<1>2. w \in Hand /\ w.pc = "import" /\ w.copies \subseteq work[p].copies
  BY <1>0 DEF Hand
<1>3. Becomes(p, w)
  BY <1>1 DEF Becomes
<1> HIDE DEF w
<1> QED BY <1>0, <1>2, <1>3, HandTyped DEF HandAfter

LEMMA LogsRetried ==
  ASSUME IndexTypeOK, NEW p \in Process, LogRetried(p)
  PROVE  HandAfter(p)
<1> DEFINE w == [Idle EXCEPT !.pc = "list"]
<1>0. outbox' = outbox
  BY DEF LogRetried, repository
<1>1. w \in Hand /\ w.pc = "list" /\ w.copies = {}
  BY DEF Idle, Hand
<1>2. Becomes(p, w)
  BY DEF LogRetried, Becomes
<1> HIDE DEF w
<1> QED BY <1>0, <1>1, <1>2, HandTyped DEF HandAfter

(* Who waits for the write lock has nothing at hand but the save.            *)
LEMMA ReadsClock ==
  ASSUME IndexTypeOK, NEW p \in Process, NEW r \in Run, NEW pc \in {"save", "retry"},
         ReadClock(p, r, pc), outbox' = outbox
  PROVE  HandAfter(p) /\ clock' \in Nat
<1> DEFINE saves == {[run |-> r, at |-> clock']}
           w == [Idle EXCEPT !.pc = pc, !.saves = saves]
<1>0. clock' \in Nat
  BY DEF ReadClock, IndexTypeOK
<1>1. saves \subseteq Save
  BY <1>0 DEF Save
<1>2. Becomes(p, w)
  BY DEF ReadClock, Becomes
<1> HIDE DEF saves
<1>3. w \in Hand /\ w.pc = pc /\ w.copies = {}
  BY <1>1 DEF Idle, Hand
<1> HIDE DEF w
<1> QED BY <1>0, <1>2, <1>3, HandTyped DEF HandAfter

(* A save that commits was stamped.                                         *)
LEMMA Stamped ==
  ASSUME IndexTypeOK, NEW p \in Process, NEW save \in work[p].saves
  PROVE  save.run \in Run /\ save.at \in Nat
BY Shapes DEF Hand, Save

LEMMA TransitionSaves ==
  ASSUME IndexTypeOK, NEW p \in Process, TransitionSaved(p)
  PROVE  HandAfter(p)
<1> DEFINE w == [Idle EXCEPT !.pc = "list"]
<1>0. PICK save \in work[p].saves : SaveWorkflow(save.run, save.at)
  BY DEF TransitionSaved
<1>1. DOMAIN outbox \subseteq DOMAIN outbox'
  BY <1>0, Stamped, Saved
<1>2. w \in Hand /\ w.pc = "list" /\ w.copies = {}
  BY DEF Idle, Hand
<1>3. Becomes(p, w)
  BY DEF TransitionSaved, Becomes
<1> HIDE DEF w
<1> QED BY <1>1, <1>2, <1>3, HandTyped DEF HandAfter

(* All steps of a process but the save of a dashboard that retries a run.     *)
LEMMA HandSteps ==
  ASSUME IndexTypeOK, NEW p \in Process,
         \/ \E r \in Run : Transition(p, r) \/ RetryExecution(p, r)
         \/ TransitionSaved(p) \/ ListWorkflowRuns(p) \/ Drain(p) \/ RowFails(p) \/ Crash(p)
         \/ Sync(p) \/ ImportRun(p) \/ ImportEnds(p)
         \/ IndexRetried(p) \/ LogRetried(p) \/ RetriedFails(p) \/ Register(p)
  PROVE  HandAfter(p)
<1>1. ASSUME NEW r \in Run, Transition(p, r) \/ RetryExecution(p, r) PROVE HandAfter(p)
  <2>1. outbox' = outbox
    BY <1>1 DEF Transition, RetryExecution, repository
  <2> QED BY <1>1, <2>1, ReadsClock DEF Transition, RetryExecution
<1>2. CASE ListWorkflowRuns(p) \/ IndexRow(p) \/ EventRow(p) \/ IndexRetried(p)
  <2>1. outbox' = outbox
    BY <1>2 DEF ListWorkflowRuns, IndexRow, EventRow, IndexRetried, repository
  <2> QED BY <1>2, <2>1, WalksOn DEF ListWorkflowRuns, IndexRow, EventRow, IndexRetried, At
<1>3. CASE RowFails(p) \/ Crash(p) \/ ImportEnds(p) \/ RetriedFails(p)
  <2>1. outbox' = outbox /\ Rest(p)
    BY <1>3 DEF RowFails, Crash, ImportEnds, RetriedFails, repository, EndRound
  <2> QED BY <2>1, Rests
<1>4. CASE Sync(p) \/ Register(p)
  <2>1. outbox' = outbox /\ Snapshot(p)
    BY <1>4 DEF Sync, Register, repository
  <2> QED BY <2>1, Imports
<1> QED BY <1>1, <1>2, <1>3, <1>4, TransitionSaves, Reads, Acknowledges, ImportsRun, LogsRetried DEF Drain

(* The save of a dashboard that retries a run: its hand is the copy it queued. *)
LEMMA RetrySaves ==
  ASSUME IndexTypeOK, NEW d \in Process, RetrySaved(d)
  PROVE  /\ work' \in [Process -> Hand'] /\ \A q \in Process \ {d} : work'[q] = work[q]
         /\ work'[d].pc = "retried" /\ work'[d].rows = {}
         /\ \A copy \in work'[d].copies : copy = outbox'[Len(outbox) + 1]
<1>1. PICK save \in work[d].saves :
        /\ SaveWorkflow(save.run, save.at)
        /\ work' = [work EXCEPT ![d] = [Idle EXCEPT !.pc = "retried",
                      !.copies = {[run |-> save.run, rev |-> ledger[save.run].rev + 1, at |-> save.at]}]]
  BY DEF RetrySaved
<1> DEFINE copies == {[run |-> save.run, rev |-> ledger[save.run].rev + 1, at |-> save.at]}
           w == [Idle EXCEPT !.pc = "retried", !.copies = copies]
<1>2. /\ DOMAIN outbox \subseteq DOMAIN outbox' /\ save.run \in Run /\ save.at \in Nat
      /\ outbox'[Len(outbox) + 1] = [run |-> save.run, rev |-> ledger[save.run].rev + 1, at |-> save.at]
  BY <1>1, Saved, Stamped
<1>3. ledger[save.run] \in Version
  BY <1>2, Shapes
<1>4. copies \subseteq Copy /\ \A copy \in copies : copy = outbox'[Len(outbox) + 1]
  BY <1>2, <1>3 DEF Copy, Version
<1>5. Becomes(d, w)
  BY <1>1 DEF Becomes
<1> HIDE DEF copies
<1>6. w \in Hand /\ w.pc = "retried" /\ w.copies = copies /\ w.rows = {}
  BY <1>4 DEF Idle, Hand
<1> HIDE DEF w
<1> QED BY <1>2, <1>4, <1>5, <1>6, HandTyped

(* What a step does to the repository: nothing, a save, or a row ticked off.  *)
LEMMA RepositorySteps ==
  ASSUME IndexTypeOK, IndexNext
  PROVE  \/ ledger' = ledger /\ outbox' = outbox /\ delivered' = delivered
         \/ \E r \in Run : \E at \in Nat : SaveWorkflow(r, at) /\ index' = index
         \/ /\ ledger' = ledger /\ outbox' = outbox /\ index' = index
            /\ \E p \in Process : \E id \in work[p].rows :
                 work[p].pc = "acknowledge" /\ IsNext(p, id) /\ delivered' = delivered \union {id}
<1>1. ASSUME NEW p \in Process, TransitionSaved(p) \/ RetrySaved(p)
      PROVE  \E r \in Run : \E at \in Nat : SaveWorkflow(r, at) /\ index' = index
  <2>1. PICK save \in work[p].saves : SaveWorkflow(save.run, save.at)
    BY <1>1 DEF TransitionSaved, RetrySaved
  <2>2. save.run \in Run /\ save.at \in Nat
    BY Stamped
  <2>3. index' = index
    BY <1>1 DEF TransitionSaved, RetrySaved, registry
  <2> QED BY <2>1, <2>2, <2>3
<1>2. ASSUME NEW p \in Process, AcknowledgeRow(p)
      PROVE  /\ ledger' = ledger /\ outbox' = outbox /\ index' = index
             /\ \E id \in work[p].rows :
                  work[p].pc = "acknowledge" /\ IsNext(p, id) /\ delivered' = delivered \union {id}
  BY <1>2 DEF AcknowledgeRow, AcknowledgeProjection, At, registry
<1>3. ASSUME NEW p \in Process,
             \/ \E r \in Run : Transition(p, r) \/ RetryExecution(p, r)
             \/ ListWorkflowRuns(p) \/ ReadOutbox(p) \/ IndexRow(p) \/ EventRow(p) \/ RowFails(p) \/ Crash(p)
             \/ Sync(p) \/ ImportRun(p) \/ ImportEnds(p) \/ IndexRetried(p) \/ LogRetried(p)
             \/ RetriedFails(p) \/ Register(p) \/ RemoveFolder(p)
      PROVE  ledger' = ledger /\ outbox' = outbox /\ delivered' = delivered
  BY <1>3 DEF Transition, RetryExecution, ListWorkflowRuns, ReadOutbox, IndexRow, EventRow, RowFails,
       Crash, Sync, ImportRun, ImportEnds, IndexRetried, LogRetried, RetriedFails, Register, RemoveFolder, repository
<1>4. Dashboard \subseteq Process
  BY IndexAssumption
<1> QED BY <1>1, <1>2, <1>3, <1>4 DEF IndexNext, DashboardStep, Drain

(* What it does to the index: nothing, or it saves a copy that a process has   *)
(* at hand or that is in the queue.                                         *)
LEMMA IndexSteps ==
  ASSUME IndexTypeOK, IndexNext
  PROVE  \/ index' = index
         \/ \E id \in DOMAIN outbox : SyncRun(outbox[id])
         \/ \E p \in Process : \E copy \in work[p].copies : SyncRun(copy)
<1>0. \A p \in Process : work[p].rows \subseteq DOMAIN outbox
  BY Shapes DEF Hand
<1>1. ASSUME NEW p \in Process, IndexRow(p) PROVE \E id \in DOMAIN outbox : SyncRun(outbox[id])
  BY <1>0, <1>1 DEF IndexRow
<1>2. ASSUME NEW p \in Process, ImportRun(p) \/ IndexRetried(p)
      PROVE  \E copy \in work[p].copies : SyncRun(copy)
  BY <1>2 DEF ImportRun, IndexRetried
<1>3. ASSUME NEW p \in Process,
             \/ \E r \in Run : Transition(p, r) \/ RetryExecution(p, r)
             \/ TransitionSaved(p) \/ RetrySaved(p)
             \/ ListWorkflowRuns(p) \/ ReadOutbox(p) \/ EventRow(p) \/ AcknowledgeRow(p) \/ RowFails(p)
             \/ Crash(p) \/ Sync(p) \/ ImportEnds(p) \/ LogRetried(p) \/ RetriedFails(p) \/ Register(p)
             \/ RemoveFolder(p)
      PROVE  index' = index
  BY <1>3 DEF Transition, RetryExecution, TransitionSaved, RetrySaved, ListWorkflowRuns, ReadOutbox, EventRow, AcknowledgeRow,
       RowFails, Crash, Sync, ImportEnds, LogRetried, RetriedFails, Register, RemoveFolder, registry
<1>4. Dashboard \subseteq Process
  BY IndexAssumption
<1> QED BY <1>1, <1>2, <1>3, <1>4 DEF IndexNext, DashboardStep, Drain

LEMMA FolderSteps ==
  ASSUME IndexTypeOK, IndexNext
  PROVE  /\ folder' \in [known : BOOLEAN, removed : BOOLEAN]
         /\ folder.removed /\ ~folder'.removed => \E d \in Dashboard : Register(d)
<1>0. folder \in [known : BOOLEAN, removed : BOOLEAN]
  BY DEF IndexTypeOK
<1>1. ASSUME NEW p \in Process, IndexRow(p) \/ ImportRun(p) \/ IndexRetried(p)
      PROVE  folder' = FolderSeen
  BY <1>1 DEF IndexRow, ImportRun, IndexRetried, SyncRun
<1>2. ASSUME NEW p \in Process,
             \/ \E r \in Run : Transition(p, r) \/ RetryExecution(p, r)
             \/ TransitionSaved(p) \/ RetrySaved(p)
             \/ ListWorkflowRuns(p) \/ ReadOutbox(p) \/ EventRow(p) \/ AcknowledgeRow(p) \/ RowFails(p)
             \/ Crash(p) \/ Sync(p) \/ ImportEnds(p) \/ LogRetried(p) \/ RetriedFails(p)
      PROVE  folder' = folder
  BY <1>2 DEF Transition, RetryExecution, TransitionSaved, RetrySaved, ListWorkflowRuns, ReadOutbox, EventRow, AcknowledgeRow,
       RowFails, Crash, Sync, ImportEnds, LogRetried, RetriedFails, registry
<1>3. ASSUME NEW p \in Process, RemoveFolder(p)
      PROVE  folder' = [folder EXCEPT !.removed = TRUE]
  BY <1>3 DEF RemoveFolder
<1>4. ASSUME NEW p \in Process, Register(p)
      PROVE  folder' = [known |-> TRUE, removed |-> FALSE]
  BY <1>4 DEF Register
<1>5. Dashboard \subseteq Process
  BY IndexAssumption
<1>6. \/ folder' \in {folder, FolderSeen, [folder EXCEPT !.removed = TRUE]}
      \/ folder' = [known |-> TRUE, removed |-> FALSE] /\ \E d \in Dashboard : Register(d)
  BY <1>1, <1>2, <1>3, <1>4, <1>5 DEF IndexNext, DashboardStep, Drain
<1>7. \A f \in {folder, FolderSeen, [folder EXCEPT !.removed = TRUE]} :
        f \in [known : BOOLEAN, removed : BOOLEAN] /\ f.removed \in {folder.removed, TRUE}
  BY <1>0 DEF FolderSeen
<1>8. [known |-> TRUE, removed |-> FALSE] \in [known : BOOLEAN, removed : BOOLEAN]
  OBVIOUS
<1>9. CASE folder' \in {folder, FolderSeen, [folder EXCEPT !.removed = TRUE]}
  <2>1. folder' \in [known : BOOLEAN, removed : BOOLEAN] /\ folder'.removed \in {folder.removed, TRUE}
    BY <1>7, <1>9
  <2> HIDE <1>6, <1>7, <1>9
  <2> QED BY <2>1, Zenon
<1>10. CASE folder' = [known |-> TRUE, removed |-> FALSE] /\ \E d \in Dashboard : Register(d)
  BY <1>8, <1>10
<1> QED BY <1>6, <1>9, <1>10

LEMMA LogSteps ==
  ASSUME IndexTypeOK, IndexNext
  PROVE  log' \in [Run -> Seq(Event)] /\ receipts' \subseteq Run \X Nat
<1>0. log \in [Run -> Seq(Event)] /\ receipts \subseteq Run \X Nat
  BY DEF IndexTypeOK, Event
<1>1. ASSUME NEW copy \in Copy, AppendProjectedEvent(copy)
      PROVE  log' \in [Run -> Seq(Event)] /\ receipts' \subseteq Run \X Nat
  <2>1. copy.run \in Run /\ copy.rev \in Nat
    BY DEF Copy
  <2>2. [rev |-> copy.rev, projected |-> TRUE] \in Event /\ log[copy.run] \in Seq(Event)
    BY <1>0, <2>1 DEF Event
  <2>3. Append(log[copy.run], [rev |-> copy.rev, projected |-> TRUE]) \in Seq(Event)
    BY <2>2
  <2>4. CASE <<copy.run, copy.rev>> \in receipts
    BY <1>0, <1>1, <2>4 DEF AppendProjectedEvent
  <2>5. CASE <<copy.run, copy.rev>> \notin receipts
    <3> DEFINE more == Append(log[copy.run], [rev |-> copy.rev, projected |-> TRUE])
    <3>1. more \in Seq(Event)
      BY <2>3
    <3>2. log' = [log EXCEPT ![copy.run] = more] /\ receipts' = receipts \union {<<copy.run, copy.rev>>}
      BY <1>1, <2>5 DEF AppendProjectedEvent
    <3> HIDE DEF more
    <3> QED BY <1>0, <2>1, <3>1, <3>2
  <2> QED BY <2>4, <2>5
<1>2. ASSUME NEW p \in Process, EventRow(p)
      PROVE  log' \in [Run -> Seq(Event)] /\ receipts' \subseteq Run \X Nat
  <2>1. work[p].rows \subseteq DOMAIN outbox
    BY Shapes DEF Hand
  <2> QED BY <1>1, <1>2, <2>1, Shapes DEF EventRow
<1>3. ASSUME NEW p \in Process, LogRetried(p)
      PROVE  log' \in [Run -> Seq(Event)] /\ receipts' \subseteq Run \X Nat
  <2>1. PICK copy \in work[p].copies :
          log' = [log EXCEPT ![copy.run] = Append(@, [rev |-> copy.rev, projected |-> FALSE])]
    BY <1>3 DEF LogRetried
  <2>2. copy.run \in Run /\ copy.rev \in Nat
    BY Shapes DEF Hand, Copy
  <2>3. [rev |-> copy.rev, projected |-> FALSE] \in Event /\ log[copy.run] \in Seq(Event)
    BY <1>0, <2>2 DEF Event
  <2>4. Append(log[copy.run], [rev |-> copy.rev, projected |-> FALSE]) \in Seq(Event)
    BY <2>3
  <2>5. receipts' = receipts
    BY <1>3 DEF LogRetried
  <2> QED BY <1>0, <2>1, <2>2, <2>4, <2>5
<1>4. ASSUME NEW p \in Process,
             \/ \E r \in Run : Transition(p, r) \/ RetryExecution(p, r)
             \/ TransitionSaved(p) \/ RetrySaved(p)
             \/ ListWorkflowRuns(p) \/ ReadOutbox(p) \/ IndexRow(p) \/ AcknowledgeRow(p) \/ RowFails(p)
             \/ Crash(p) \/ Sync(p) \/ ImportRun(p) \/ ImportEnds(p) \/ IndexRetried(p)
             \/ RetriedFails(p) \/ Register(p) \/ RemoveFolder(p)
      PROVE  log' = log /\ receipts' = receipts
  BY <1>4 DEF Transition, RetryExecution, TransitionSaved, RetrySaved, ListWorkflowRuns, ReadOutbox, IndexRow, AcknowledgeRow,
       RowFails, Crash, Sync, ImportRun, ImportEnds, IndexRetried, RetriedFails, Register,
       RemoveFolder, registry
<1>5. Dashboard \subseteq Process
  BY IndexAssumption
<1> QED BY <1>0, <1>2, <1>3, <1>4, <1>5 DEF IndexNext, DashboardStep, Drain

LEMMA HistorySteps ==
  ASSUME IndexTypeOK, IndexNext
  PROVE  clock' \in Nat /\ faults' \in Nat /\ imports' \in Nat
<1>0. clock \in Nat /\ faults \in Nat /\ imports \in Nat
  BY DEF IndexTypeOK
<1>1. ASSUME NEW p \in Process,
             \/ \E r \in Run : Transition(p, r) \/ RetryExecution(p, r)
             \/ TransitionSaved(p) \/ RetrySaved(p)
             \/ ListWorkflowRuns(p) \/ Drain(p) \/ RowFails(p) \/ Crash(p) \/ Sync(p) \/ ImportRun(p)
             \/ ImportEnds(p) \/ IndexRetried(p) \/ LogRetried(p) \/ RetriedFails(p) \/ Register(p)
             \/ RemoveFolder(p)
      PROVE  /\ clock' \in {clock, clock + 1}
             /\ faults' \in {faults, faults + 1} /\ imports' \in {imports, imports + 1}
  BY <1>1 DEF Transition, RetryExecution, ReadClock, TransitionSaved, RetrySaved, ListWorkflowRuns, Drain,
       ReadOutbox, IndexRow, EventRow, AcknowledgeRow, RowFails, Crash, Sync, ImportRun, ImportEnds, IndexRetried, LogRetried,
       RetriedFails, Register, RemoveFolder, history
<1>2. Dashboard \subseteq Process
  BY IndexAssumption
<1>3. /\ clock' \in {clock, clock + 1}
      /\ faults' \in {faults, faults + 1} /\ imports' \in {imports, imports + 1}
  BY <1>1, <1>2 DEF IndexNext, DashboardStep
<1> QED BY <1>0, <1>3

(* Every process's hand stays well-formed; only one process's hand changes.   *)
LEMMA WorkSteps ==
  ASSUME IndexTypeOK, IndexNext
  PROVE  \/ \E p \in Process : HandAfter(p)
         \/ \E d \in Process : RetrySaved(d)
         \/ work' = work
<1>1. Dashboard \subseteq Process
  BY IndexAssumption
<1>2. \A d \in Process : RemoveFolder(d) => work' = work
  BY DEF RemoveFolder
<1> QED BY <1>1, <1>2, HandSteps DEF IndexNext, DashboardStep

LEMMA TypeStep ==
  ASSUME IndexTypeOK, IndexNext
  PROVE  IndexTypeOK'
<1>1. /\ ledger' \in [Run -> Version] /\ outbox' \in Seq(Copy) /\ delivered' \subseteq DOMAIN outbox'
      /\ DOMAIN outbox \subseteq DOMAIN outbox'
  <2>1. CASE ledger' = ledger /\ outbox' = outbox /\ delivered' = delivered
    BY <2>1 DEF IndexTypeOK
  <2>2. ASSUME NEW r \in Run, NEW at \in Nat, SaveWorkflow(r, at)
        PROVE  <1>1!:
    <3>1. delivered \subseteq DOMAIN outbox
      BY DEF IndexTypeOK
    <3> QED BY <2>2, <3>1, Saved
  <2>3. CASE /\ ledger' = ledger /\ outbox' = outbox
             /\ \E p \in Process : \E id \in work[p].rows : delivered' = delivered \union {id}
    BY <2>3, Shapes DEF IndexTypeOK, Hand
  <2> QED BY <2>1, <2>2, <2>3, RepositorySteps
<1>2. index' \in [Run -> Version]
  <2>1. \A copy \in Copy : SyncRun(copy) => index' \in [Run -> Version]
    BY Indexed
  <2>2. index \in [Run -> Version] /\ \A p \in Process : work[p].copies \subseteq Copy
    BY Shapes DEF IndexTypeOK, Hand
  <2> QED BY <2>1, <2>2, IndexSteps, Shapes
<1>3. work' \in [Process -> Hand']
  <2>1. CASE work' = work
    <3>1. \A h \in Hand : h \in Hand'
      BY <1>1 DEF Hand
    <3> QED BY <2>1, <3>1, Shapes
  <2> QED BY <2>1, WorkSteps, RetrySaves DEF HandAfter
<1> QED BY <1>1, <1>2, <1>3, FolderSteps, LogSteps, HistorySteps DEF IndexTypeOK, Hand, Event

(* The revisions, timestamps, rows, copies and events keep their types, and no  *)
(* process holds a row or ticks one off that was never queued.               *)
THEOREM IndexTypeCorrect == IndexSpec => []IndexTypeOK
<1>1. IndexInit => IndexTypeOK
  BY DEF IndexInit, IndexTypeOK, Unsaved, Version, NoFolder, Idle
<1>2. IndexTypeOK /\ [IndexNext]_indexVars => IndexTypeOK'
  <2>1. IndexTypeOK /\ UNCHANGED indexVars => IndexTypeOK'
    BY DEF IndexTypeOK, indexVars, repository, registry, history
  <2> QED BY <2>1, TypeStep
<1> QED BY <1>1, <1>2, PTL DEF IndexSpec

(* A removed folder comes back only when somebody registers it, whatever runs   *)
(* other processes go on indexing (RemovedUntilRegistered).                  *)
THEOREM RemovalIsKept == IndexSpec => RemovedUntilRegistered
<1>1. IndexTypeOK /\ [IndexNext]_indexVars
        => [folder.removed /\ ~folder'.removed => \E d \in Dashboard : Register(d)]_indexVars
  BY FolderSteps
<1> QED BY <1>1, IndexTypeCorrect, PTL DEF IndexSpec, RemovedUntilRegistered
-----------------------------------------------------------------------------
(***************************************************************************)
(* THE COPIES IN THE INDEX.  A queued copy takes the place of one of a later  *)
(* revision only if it is stamped later, and then the queue shows that saves   *)
(* of the run committed in an other order than they were stamped.            *)
(***************************************************************************)
LEMMA QueuedIsCopy == ASSUME IndexTypeOK, NEW copy, Queued(copy) PROVE copy \in Copy
BY Shapes DEF Queued

(* The index goes back behind a revision only for a copy that was stamped in    *)
(* an other order than it committed; and it covers the copy just saved.       *)
LEMMA SyncCovers ==
  ASSUME IndexTypeOK, KnownVersions, NEW copy, Queued(copy), SyncRun(copy)
  PROVE  /\ \A s \in Run, rev \in Nat : Covers(s, rev) => index'[s].rev >= rev \/ Straddled(s, rev)
         /\ index'[copy.run].rev >= copy.rev
         /\ \A s \in Run : index'[s] = index[s] \/ (s = copy.run /\ index'[s] = [rev |-> copy.rev, at |-> copy.at])
<1>1. copy \in Copy
  BY QueuedIsCopy
<1>2. copy.run \in Run /\ copy.rev \in Nat /\ copy.at \in Nat
  BY <1>1 DEF Copy
<1>3. \A s \in Run : index[s].rev \in Nat /\ index[s].at \in Nat
  BY Shapes DEF Version
<1>4. CASE Outdated(copy)
  <2>1. index' = index
    BY <1>4 DEF SyncRun
  <2>2. index[copy.run].rev >= copy.rev
    BY <1>4 DEF Outdated
  <2> QED BY <1>2, <1>3, <2>1, <2>2 DEF Covers
<1>5. CASE ~Outdated(copy)
  <2>1. index'[copy.run] = [rev |-> copy.rev, at |-> copy.at] /\ \A s \in Run \ {copy.run} : index'[s] = index[s]
    BY <1>1, <1>5, Indexed
  <2>2. ASSUME NEW rev \in Nat, index[copy.run].rev >= rev, ~(copy.rev >= rev)
        PROVE  Straddled(copy.run, rev)
    <3> DEFINE kept == [run |-> copy.run, rev |-> index[copy.run].rev, at |-> index[copy.run].at]
    <3>1. index[copy.run] # Unsaved
      BY <1>2, <2>2 DEF Unsaved
    <3>2. Queued(kept)
      BY <1>2, <3>1 DEF KnownVersions
    <3>3. PICK i \in DOMAIN outbox : outbox[i] = copy
      BY DEF Queued
    <3>4. PICK k \in DOMAIN outbox : outbox[k] = kept
      BY <3>2 DEF Queued
    <3>5. copy.rev < rev /\ index[copy.run].at < copy.at
      BY <1>2, <1>3, <1>5, <2>2 DEF Outdated
    <3> QED BY <1>3, <2>2, <3>3, <3>4, <3>5 DEF Straddled
  <2>3. ASSUME NEW rev \in Nat, Covers(copy.run, rev)
        PROVE  index'[copy.run].rev >= rev \/ Straddled(copy.run, rev)
    BY <2>1, <2>2, <2>3 DEF Covers
  <2>4. ASSUME NEW s \in Run \ {copy.run}, NEW rev \in Nat, Covers(s, rev)
        PROVE  index'[s].rev >= rev \/ Straddled(s, rev)
    BY <2>1, <2>4 DEF Covers
  <2> QED BY <1>2, <1>3, <2>1, <2>3, <2>4
<1> QED BY <1>4, <1>5

(* A step leaves a run's index alone, or saves a queued copy into it.        *)
LEMMA IndexedIsQueued ==
  ASSUME IndexTypeOK, KnownVersions, IndexNext
  PROVE  index' = index \/ \E copy \in Copy : Queued(copy) /\ SyncRun(copy)
<1>1. \A id \in DOMAIN outbox : Queued(outbox[id]) /\ outbox[id] \in Copy
  BY Shapes DEF Queued
<1>2. \A p \in Process : \A copy \in work[p].copies : Queued(copy) /\ copy \in Copy
  BY QueuedIsCopy DEF KnownVersions
<1> QED BY <1>1, <1>2, IndexSteps

(* The queue keeps its rows.                                                *)
LEMMA QueueGrows ==
  ASSUME IndexTypeOK, IndexNext
  PROVE  /\ \A id \in DOMAIN outbox : id \in DOMAIN outbox' /\ outbox'[id] = outbox[id]
         /\ \A copy : Queued(copy) => Queued(copy)'
<1>1. \A id \in DOMAIN outbox : id \in DOMAIN outbox' /\ outbox'[id] = outbox[id]
  BY RepositorySteps, Saved
<1> QED BY <1>1 DEF Queued

(* What is straddled stays so: the queue keeps its rows.                     *)
LEMMA StraddledStays ==
  ASSUME IndexTypeOK, IndexNext, NEW r \in Run, NEW rev \in Nat, Straddled(r, rev)
  PROVE  Straddled(r, rev)'
<1>1. PICK i \in DOMAIN outbox, k \in DOMAIN outbox :
        /\ outbox[i].run = r /\ outbox[k].run = r
        /\ outbox[i].rev < rev /\ rev <= outbox[k].rev
        /\ outbox[i].at > outbox[k].at
  BY DEF Straddled
<1>2. /\ i \in DOMAIN outbox' /\ outbox'[i] = outbox[i]
      /\ k \in DOMAIN outbox' /\ outbox'[k] = outbox[k]
  BY QueueGrows
<1> QED BY <1>1, <1>2 DEF Straddled

(* Whoever indexes what in which order, what is covered stays covered.        *)
LEMMA CoversStays ==
  ASSUME IndexTypeOK, KnownVersions, IndexNext, NEW r \in Run, NEW rev \in Nat, Covers(r, rev)
  PROVE  Covers(r, rev)'
<1>1. CASE index' = index
  BY <1>1, StraddledStays DEF Covers
<1>2. ASSUME NEW copy \in Copy, Queued(copy), SyncRun(copy)
      PROVE  index'[r].rev >= rev \/ Straddled(r, rev)
  BY <1>2, SyncCovers
<1> QED BY <1>1, <1>2, IndexedIsQueued, StraddledStays DEF Covers

(* What a process has at hand after a step was queued once.                  *)
LEMMA HandsAreQueued ==
  ASSUME IndexTypeOK, KnownVersions, IndexNext
  PROVE  \A p \in Process : \A copy \in work'[p].copies : \E id \in DOMAIN outbox' : outbox'[id] = copy
<1>1. \A p \in Process : \A copy \in work[p].copies : Queued(copy)
  BY DEF KnownVersions
<1>2. \A r \in Run : ledger[r].rev > 0 => Queued(CopyOf(r))
  BY DEF KnownVersions
<1>3. \A copy : Queued(copy) => \E id \in DOMAIN outbox' : outbox'[id] = copy
  BY QueueGrows DEF Queued
<1>4. CASE work' = work
  BY <1>1, <1>3, <1>4
<1>5. ASSUME NEW q \in Process, HandAfter(q)
      PROVE  \A p \in Process : \A copy \in work'[p].copies : Queued(copy)
  <2>1. \A p \in Process \ {q} : work'[p].copies = work[p].copies
    BY <1>5 DEF HandAfter
  <2>2. \A copy \in work'[q].copies : Queued(copy)
    BY <1>1, <1>2, <1>5 DEF HandAfter
  <2> QED BY <1>1, <2>1, <2>2
<1>6. ASSUME NEW d \in Process, RetrySaved(d)
      PROVE  \A p \in Process : \A copy \in work'[p].copies : \E id \in DOMAIN outbox' : outbox'[id] = copy
  <2>1. PICK save \in work[d].saves : SaveWorkflow(save.run, save.at)
    BY <1>6 DEF RetrySaved
  <2>2. Len(outbox) + 1 \in DOMAIN outbox'
    <3>1. Len(outbox) \in Nat /\ DOMAIN outbox' = 1 .. Len(outbox) + 1
      BY <2>1, Saved, Stamped
    <3> QED BY <3>1
  <2>3. \A copy \in work'[d].copies : copy = outbox'[Len(outbox) + 1]
    BY <1>6, RetrySaves
  <2>4. \A p \in Process \ {d} : work'[p] = work[p]
    BY <1>6, RetrySaves
  <2> QED BY <1>1, <1>3, <2>2, <2>3, <2>4
<1> QED BY <1>3, <1>4, <1>5, <1>6, WorkSteps

LEMMA VersionStep ==
  ASSUME IndexTypeOK, KnownVersions, IndexNext
  PROVE  KnownVersions'
<1> DEFINE Held(copy) == \E id \in DOMAIN outbox' : outbox'[id] = copy
<1>0. \A copy : Queued(copy) => Held(copy)
  BY QueueGrows DEF Queued
<1>1. \A r \in Run : ledger'[r].rev > 0 => Held([run |-> r, rev |-> ledger'[r].rev, at |-> ledger'[r].at])
  <2>1. CASE ledger' = ledger
    BY <1>0, <2>1 DEF KnownVersions, CopyOf
  <2>2. ASSUME NEW r \in Run, NEW at \in Nat, SaveWorkflow(r, at), NEW s \in Run, ledger'[s].rev > 0
        PROVE  Held([run |-> s, rev |-> ledger'[s].rev, at |-> ledger'[s].at])
    <3>1. /\ Len(outbox) \in Nat /\ DOMAIN outbox' = 1 .. Len(outbox) + 1
          /\ outbox'[Len(outbox) + 1] = [run |-> r, rev |-> ledger[r].rev + 1, at |-> at]
          /\ ledger'[r].rev = ledger[r].rev + 1 /\ ledger'[r].at = at
          /\ \A q \in Run \ {r} : ledger'[q] = ledger[q]
      BY <2>2, Saved
    <3>2. Len(outbox) + 1 \in DOMAIN outbox'
      BY <3>1
    <3>3. CASE s = r
      BY <3>1, <3>2, <3>3
    <3>4. CASE s # r
      <4>1. Queued(CopyOf(s)) /\ CopyOf(s) = [run |-> s, rev |-> ledger'[s].rev, at |-> ledger'[s].at]
        BY <2>2, <3>1, <3>4 DEF KnownVersions, CopyOf
      <4> QED BY <1>0, <4>1
    <3> QED BY <3>3, <3>4
  <2> HIDE DEF Held
  <2> QED BY <2>1, <2>2, RepositorySteps
<1>2. \A r \in Run : index'[r] = Unsaved \/ Held([run |-> r, rev |-> index'[r].rev, at |-> index'[r].at])
  <2>1. \A r \in Run : index[r] = Unsaved \/ Queued([run |-> r, rev |-> index[r].rev, at |-> index[r].at])
    BY DEF KnownVersions
  <2>2. ASSUME NEW copy \in Copy, Queued(copy), SyncRun(copy), NEW r \in Run
        PROVE  index'[r] = Unsaved \/ Queued([run |-> r, rev |-> index'[r].rev, at |-> index'[r].at])
    <3>1. index'[r] = index[r] \/ (r = copy.run /\ index'[r] = [rev |-> copy.rev, at |-> copy.at])
      BY <2>2, SyncCovers
    <3>2. copy = [run |-> copy.run, rev |-> copy.rev, at |-> copy.at]
      BY DEF Copy
    <3> QED BY <2>1, <2>2, <3>1, <3>2
  <2> HIDE DEF Held
  <2> QED BY <1>0, <2>1, <2>2, IndexedIsQueued
<1>3. \A p \in Process : \A copy \in work'[p].copies : Held(copy)
  BY HandsAreQueued
<1> QED BY <1>1, <1>2, <1>3 DEF KnownVersions, Queued, CopyOf

(* An event or an acknowledgement is due only for a row that was indexed.     *)
LEMMA RowStep ==
  ASSUME IndexTypeOK, KnownVersions, RowIsIndexed, IndexNext
  PROVE  RowIsIndexed'
<1> SUFFICES ASSUME NEW p \in Process, NEW id \in work'[p].rows,
                    work'[p].pc \in {"event", "acknowledge"}, \A other \in work'[p].rows : id <= other
             PROVE  Covers(outbox[id].run, outbox[id].rev)'
  BY DEF RowIsIndexed, IsNext
<1>1. \A i \in DOMAIN outbox : outbox[i].run \in Run /\ outbox[i].rev \in Nat /\ outbox'[i] = outbox[i]
  BY Shapes, QueueGrows DEF Copy
<1>2. \A q \in Process : work[q].rows \subseteq DOMAIN outbox
  BY Shapes DEF Hand
<1>3. ASSUME id \in DOMAIN outbox, Covers(outbox[id].run, outbox[id].rev)
      PROVE  Covers(outbox[id].run, outbox[id].rev)'
  <2>1. PICK r \in Run : r = outbox[id].run
    BY <1>1, <1>3
  <2>2. PICK rev \in Nat : rev = outbox[id].rev
    BY <1>1, <1>3
  <2>3. Covers(r, rev)
    BY <1>3, <2>1, <2>2
  <2>4. Covers(r, rev)'
    BY <2>3, CoversStays
  <2>5. r = outbox'[id].run /\ rev = outbox'[id].rev
    BY <1>1, <1>3, <2>1, <2>2
  <2> QED BY <2>4, <2>5
<1>4. CASE work'[p] = work[p]
  BY <1>2, <1>3, <1>4 DEF RowIsIndexed, IsNext
<1>5. CASE HandAfter(p)
  <2>1. work'[p].rows = work[p].rows /\ id \in DOMAIN outbox
    BY <1>2, <1>5 DEF HandAfter
  <2>2. IsNext(p, id)
    BY <2>1 DEF IsNext
  <2>3. CASE IndexRow(p)
    <3>1. PICK i \in work[p].rows : IsNext(p, i) /\ SyncRun(outbox[i])
      BY <2>3 DEF IndexRow
    <3>2. i = id
      BY <1>2, <2>1, <2>2, <3>1, Shapes DEF IsNext, IndexTypeOK
    <3>3. Queued(outbox[id])
      BY <2>1 DEF Queued
    <3>4. index'[outbox[id].run].rev >= outbox[id].rev
      BY <3>1, <3>2, <3>3, SyncCovers
    <3> QED BY <1>1, <2>1, <3>4 DEF Covers
  <2>4. CASE work[p].pc = "event"
    BY <1>3, <2>1, <2>2, <2>4 DEF RowIsIndexed
  <2> QED BY <1>5, <2>3, <2>4 DEF HandAfter
<1>6. \/ work'[p] = work[p] \/ HandAfter(p) \/ work'[p].pc = "retried"
  BY WorkSteps, RetrySaves DEF HandAfter
<1> QED BY <1>4, <1>5, <1>6

LEMMA DeliveredStep ==
  ASSUME IndexTypeOK, KnownVersions, RowIsIndexed, DeliveredIsIndexed, IndexNext
  PROVE  DeliveredIsIndexed'
<1> SUFFICES ASSUME NEW id \in delivered'
             PROVE  Covers(outbox[id].run, outbox[id].rev)'
  BY DEF DeliveredIsIndexed, Covers
<1>1. id \in DOMAIN outbox /\ Covers(outbox[id].run, outbox[id].rev)
  <2>1. CASE id \in delivered
    BY <2>1 DEF DeliveredIsIndexed, IndexTypeOK, Covers
  <2>2. CASE id \notin delivered
    <3>1. ~\E r \in Run : \E at \in Nat : SaveWorkflow(r, at)
      BY <2>2 DEF SaveWorkflow
    <3>2. PICK p \in Process : id \in work[p].rows /\ work[p].pc = "acknowledge" /\ IsNext(p, id)
      BY <2>2, <3>1, RepositorySteps
    <3>3. id \in DOMAIN outbox
      BY <3>2, Shapes DEF Hand
    <3> QED BY <3>2, <3>3 DEF RowIsIndexed
  <2> QED BY <2>1, <2>2
<1>2. outbox[id].run \in Run /\ outbox[id].rev \in Nat /\ outbox'[id] = outbox[id]
  BY <1>1, Shapes, QueueGrows DEF Copy
<1>3. PICK r \in Run, rev \in Nat : r = outbox[id].run /\ rev = outbox[id].rev
  BY <1>2
<1>4. Covers(r, rev)'
  BY <1>1, <1>3, CoversStays
<1>5. r = outbox'[id].run /\ rev = outbox'[id].rev
  BY <1>2, <1>3
<1> QED BY <1>4, <1>5

(* What the queue has ticked off is in the index, at least as new, unless the   *)
(* run's saves committed in an other order than they were stamped, across that  *)
(* revision (DeliveredIsIndexed): whoever drains, imports and retries, whatever *)
(* fails, and whenever saves wait for the write lock.                        *)
THEOREM NoCopyIsLost == IndexSpec => []DeliveredIsIndexed
<1>1. IndexInit => IndexInv
  <2> SUFFICES ASSUME IndexInit PROVE IndexInv
    OBVIOUS
  <2>1. IndexTypeOK
    BY DEF IndexInit, IndexTypeOK, Unsaved, Version, NoFolder, Idle
  <2>2. DOMAIN outbox = {} /\ delivered = {}
    BY DEF IndexInit
  <2>3. \A r \in Run : ledger[r].rev = 0 /\ index[r] = Unsaved
    BY DEF IndexInit, Unsaved
  <2>4. \A p \in Process : work[p].copies = {} /\ work[p].rows = {}
    BY DEF IndexInit, Idle
  <2> QED BY <2>1, <2>2, <2>3, <2>4 DEF IndexInv, KnownVersions, RowIsIndexed, DeliveredIsIndexed
<1>2. IndexInv /\ [IndexNext]_indexVars => IndexInv'
  <2>1. IndexInv /\ UNCHANGED indexVars => IndexInv'
    BY DEF IndexInv, IndexTypeOK, KnownVersions, Queued, CopyOf, IsNext, Covers, Straddled,
         RowIsIndexed, DeliveredIsIndexed, indexVars, repository, registry, history
  <2>2. IndexInv /\ IndexNext => IndexInv'
    BY TypeStep, VersionStep, RowStep, DeliveredStep DEF IndexInv
  <2> QED BY <2>1, <2>2
<1>3. IndexInv => DeliveredIsIndexed
  BY DEF IndexInv
<1> QED BY <1>1, <1>2, <1>3, PTL DEF IndexSpec
-----------------------------------------------------------------------------
(***************************************************************************)
(* THE EVENTS.  A projected event is appended for the *)
(* first row a process has left; its place in the log is right because every  *)
(* earlier row of the run, and only those, has its event already.  That the   *)
(* rows a process has not read were all delivered, and that one is delivered  *)
(* only after its event, is the invariant.                                  *)
(***************************************************************************)
(* An event for the row has been appended.                                  *)
Received(id) == <<outbox[id].run, outbox[id].rev>> \in receipts

(* The queue has every revision of a run, in their order.                    *)
QueueIsHistory ==
  /\ \A id \in DOMAIN outbox : outbox[id].rev > 0 /\ outbox[id].rev <= ledger[outbox[id].run].rev
  /\ \A r \in Run : \A n \in 1 .. ledger[r].rev :
       \E id \in DOMAIN outbox : outbox[id].run = r /\ outbox[id].rev = n
  /\ \A i, k \in DOMAIN outbox : outbox[i].run = outbox[k].run /\ i < k => outbox[i].rev < outbox[k].rev

(* There is a receipt for each projected event and for no other revision, and  *)
(* a revision has one only after those before it.                           *)
ReceiptsAreEvents ==
  \A r \in Run :
    /\ \A n \in Told(r) : <<r, log[r][n].rev>> \in receipts
    /\ \A n \in Nat : <<r, n>> \in receipts =>
         n > 0 /\ (\E m \in Told(r) : log[r][m].rev = n) /\ \A m \in 1 .. n : <<r, m>> \in receipts

(* EventsTellTheSaves, element by element.                                  *)
EventsAreInOrder ==
  \A r \in Run : \A n \in Told(r) :
    /\ \A m \in Told(r) : m < n => log[r][m].rev < log[r][n].rev
    /\ \A k \in 1 .. log[r][n].rev - 1 : \E m \in Told(r) : m < n /\ log[r][m].rev = k

(* What a process does not have at hand of the queue before one of its rows    *)
(* has its event, and so has a row that is about to be ticked off.           *)
NoRowIsPassedOver ==
  /\ \A id \in delivered : Received(id)
  /\ \A p \in Process : \A id \in work[p].rows : \A i \in DOMAIN outbox :
       i < id => i \in work[p].rows \/ Received(i)
  /\ \A p \in Process : \A id \in work[p].rows :
       work[p].pc = "acknowledge" /\ IsNext(p, id) => Received(id)

EventInv == IndexTypeOK /\ QueueIsHistory /\ ReceiptsAreEvents /\ EventsAreInOrder /\ NoRowIsPassedOver

LEMMA QueueHistoryStep ==
  ASSUME IndexTypeOK, QueueIsHistory, IndexNext
  PROVE  QueueIsHistory'
<1>1. CASE ledger' = ledger /\ outbox' = outbox
  BY <1>1 DEF QueueIsHistory
<1>2. ASSUME NEW r \in Run, NEW at \in Nat, SaveWorkflow(r, at)
      PROVE  QueueIsHistory'
  <2> DEFINE new == Len(outbox) + 1
  <2>0. /\ Len(outbox) \in Nat /\ DOMAIN outbox = 1 .. Len(outbox) /\ DOMAIN outbox' = 1 .. Len(outbox) + 1
        /\ \A id \in DOMAIN outbox : outbox'[id] = outbox[id]
        /\ outbox'[new] = [run |-> r, rev |-> ledger[r].rev + 1, at |-> at]
        /\ ledger'[r].rev = ledger[r].rev + 1
        /\ \A s \in Run \ {r} : ledger'[s] = ledger[s]
    BY <1>2, Saved
  <2>1. \A s \in Run : ledger[s].rev \in Nat
    BY Shapes DEF Version
  <2>2. \A id \in DOMAIN outbox : outbox[id].run \in Run /\ outbox[id].rev \in Nat
    BY Shapes DEF Copy
  <2>3. /\ \A id \in DOMAIN outbox' : id = new \/ id \in DOMAIN outbox
        /\ \A id \in DOMAIN outbox : id < new /\ id \in DOMAIN outbox'
        /\ new \in DOMAIN outbox' /\ \A id \in DOMAIN outbox' : id <= new
    BY <2>0
  <2>4. outbox'[new].run = r /\ outbox'[new].rev = ledger[r].rev + 1
    BY <2>0
  <2> HIDE DEF new
  <2>5. ASSUME NEW id \in DOMAIN outbox'
        PROVE  outbox'[id].rev > 0 /\ outbox'[id].rev <= ledger'[outbox'[id].run].rev
    <3>1. CASE id = new
      BY <2>0, <2>1, <2>4, <3>1
    <3>2. CASE id \in DOMAIN outbox
      <4>1. outbox'[id] = outbox[id] /\ outbox[id].rev > 0 /\ outbox[id].rev <= ledger[outbox[id].run].rev
        BY <2>0, <3>2 DEF QueueIsHistory
      <4>2. ledger[outbox[id].run].rev <= ledger'[outbox[id].run].rev /\ ledger'[outbox[id].run].rev \in Nat
        BY <2>0, <2>1, <2>2, <3>2
      <4> QED BY <2>1, <2>2, <3>2, <4>1, <4>2
    <3> QED BY <2>3, <3>1, <3>2
  <2>6. ASSUME NEW s \in Run, NEW n \in 1 .. ledger'[s].rev
        PROVE  \E id \in DOMAIN outbox' : outbox'[id].run = s /\ outbox'[id].rev = n
    <3>1. CASE n \in 1 .. ledger[s].rev
      <4>1. PICK id \in DOMAIN outbox : outbox[id].run = s /\ outbox[id].rev = n
        BY <3>1 DEF QueueIsHistory
      <4> QED BY <2>0, <2>3, <4>1
    <3>2. CASE n \notin 1 .. ledger[s].rev
      <4>1. s = r /\ n = ledger[r].rev + 1
        BY <2>0, <2>1, <3>2
      <4> QED BY <2>3, <2>4, <4>1
    <3> QED BY <3>1, <3>2
  <2>7. ASSUME NEW i \in DOMAIN outbox', NEW k \in DOMAIN outbox', outbox'[i].run = outbox'[k].run, i < k
        PROVE  outbox'[i].rev < outbox'[k].rev
    <3>1. i \in DOMAIN outbox
      BY <2>0, <2>3, <2>7 DEF new
    <3>2. CASE k = new
      <4>1. outbox[i].run = r /\ outbox[i].rev <= ledger[r].rev
        BY <2>0, <2>4, <2>7, <3>1, <3>2 DEF QueueIsHistory
      <4> QED BY <2>0, <2>1, <2>2, <2>4, <3>1, <3>2, <4>1
    <3>3. CASE k \in DOMAIN outbox
      BY <2>0, <2>7, <3>1, <3>3 DEF QueueIsHistory
    <3> QED BY <2>3, <3>2, <3>3
  <2> QED BY <2>5, <2>6, <2>7 DEF QueueIsHistory
<1> QED BY <1>1, <1>2, RepositorySteps

(* The row of a run that has an earlier revision has a smaller id.           *)
LEMMA EarlierRows ==
  ASSUME IndexTypeOK, QueueIsHistory, NEW id \in DOMAIN outbox, NEW m \in 1 .. outbox[id].rev - 1
  PROVE  \E i \in DOMAIN outbox : i < id /\ outbox[i].run = outbox[id].run /\ outbox[i].rev = m
<1>1. outbox[id].run \in Run /\ outbox[id].rev \in Nat
  BY Shapes DEF Copy
<1>2. ledger[outbox[id].run].rev \in Nat /\ outbox[id].rev <= ledger[outbox[id].run].rev
  BY <1>1, Shapes DEF Version, QueueIsHistory
<1>3. PICK i \in DOMAIN outbox : outbox[i].run = outbox[id].run /\ outbox[i].rev = m
  BY <1>1, <1>2 DEF QueueIsHistory
<1>4. i \in Nat /\ id \in Nat
  BY DEF IndexTypeOK
<1>5. i = id \/ i < id \/ id < i
  BY <1>4
<1>6. i # id
  BY <1>1, <1>3
<1>7. ~(id < i)
  BY <1>1, <1>3 DEF QueueIsHistory
<1> QED BY <1>3, <1>5, <1>6, <1>7

(* What a step does to the rows a process has at hand: it reads all that are    *)
(* pending, drops the first one when that is acknowledged, drops them all, or   *)
(* keeps them.                                                              *)
RowsAfter(p) ==
  \/ work'[p].rows = {}
  \/ work'[p].rows = PendingProjections /\ work'[p].pc = "index"
  \/ /\ work[p].pc = "acknowledge" /\ work'[p].pc = "index"
     /\ \E id \in work[p].rows : IsNext(p, id) /\ work'[p].rows = work[p].rows \ {id}
  \/ work'[p].rows = work[p].rows /\ (work'[p].pc = "acknowledge" => work[p].pc = "acknowledge" \/ EventRow(p))

LEMMA RowSteps ==
  ASSUME IndexTypeOK, IndexNext
  PROVE  \A p \in Process : RowsAfter(p)
<1>0. /\ work \in [Process -> Hand] /\ \A p \in Process : work[p] \in Hand
      /\ Dashboard \subseteq Process
  BY Shapes, IndexAssumption
<1>1. CASE work' = work
  BY <1>1 DEF RowsAfter
<1>2. ASSUME NEW p \in Process, NEW w, Becomes(p, w),
             \/ w.rows = {}
             \/ w.rows = PendingProjections /\ w.pc = "index"
             \/ /\ work[p].pc = "acknowledge" /\ w.pc = "index"
                /\ \E id \in work[p].rows : IsNext(p, id) /\ w.rows = work[p].rows \ {id}
             \/ w.rows = work[p].rows /\ (w.pc = "acknowledge" => work[p].pc = "acknowledge" \/ EventRow(p))
      PROVE  \A q \in Process : RowsAfter(q)
  <2>1. work'[p] = w /\ \A q \in Process \ {p} : work'[q] = work[q]
    BY <1>0, <1>2 DEF Becomes
  <2>2. RowsAfter(p)
    BY <1>2, <2>1 DEF RowsAfter
  <2>3. \A q \in Process \ {p} : RowsAfter(q)
    BY <2>1 DEF RowsAfter
  <2> QED BY <2>2, <2>3
<1>3. ASSUME NEW p \in Process, NEW pc \in {"list", "event", "acknowledge", "logged"}, Goto(p, pc),
             pc = "acknowledge" => EventRow(p)
      PROVE  \A q \in Process : RowsAfter(q)
  <2> DEFINE w == [work[p] EXCEPT !.pc = pc]
  <2>1. Becomes(p, w)
    BY <1>3 DEF Goto, Becomes
  <2>2. w.pc = pc /\ w.rows = work[p].rows
    BY <1>0 DEF Hand
  <2> HIDE DEF w
  <2> QED BY <1>2, <1>3, <2>1, <2>2
<1>4. ASSUME NEW p \in Process, Rest(p)
      PROVE  \A q \in Process : RowsAfter(q)
  BY <1>2, <1>4, IdleHand DEF Rest, Becomes
<1>5. ASSUME NEW p \in Process, NEW r \in Run, Transition(p, r) \/ RetryExecution(p, r)
      PROVE  \A q \in Process : RowsAfter(q)
  <2>1. PICK pc \in {"save", "retry"} : ReadClock(p, r, pc)
    BY <1>5 DEF Transition, RetryExecution
  <2> DEFINE w == [Idle EXCEPT !.pc = pc, !.saves = {[run |-> r, at |-> clock']}]
  <2>2. w.rows = {}
    BY DEF Idle
  <2>3. Becomes(p, w)
    BY <2>1 DEF ReadClock, Becomes
  <2> HIDE DEF w
  <2> QED BY <1>2, <2>2, <2>3
<1>6. ASSUME NEW p \in Process, ListWorkflowRuns(p) \/ IndexRow(p) \/ EventRow(p) \/ IndexRetried(p)
      PROVE  \A q \in Process : RowsAfter(q)
  BY <1>3, <1>6 DEF ListWorkflowRuns, IndexRow, EventRow, IndexRetried
<1>7. ASSUME NEW p \in Process, RowFails(p) \/ Crash(p) \/ ImportEnds(p) \/ RetriedFails(p)
      PROVE  \A q \in Process : RowsAfter(q)
  BY <1>4, <1>7 DEF RowFails, Crash, ImportEnds, RetriedFails, EndRound
<1>8. ASSUME NEW p \in Process, ReadOutbox(p)
      PROVE  \A q \in Process : RowsAfter(q)
  <2>1. CASE PendingProjections = {}
    BY <1>4, <1>8, <2>1 DEF ReadOutbox, Rest
  <2>2. CASE PendingProjections # {}
    <3> DEFINE w == [Idle EXCEPT !.pc = "index", !.rows = PendingProjections]
    <3>1. w.pc = "index" /\ w.rows = PendingProjections
      BY DEF Idle
    <3>2. Becomes(p, w)
      BY <1>8, <2>2 DEF ReadOutbox, Becomes
    <3> HIDE DEF w
    <3> QED BY <1>2, <3>1, <3>2
  <2> QED BY <2>1, <2>2
<1>9. ASSUME NEW p \in Process, AcknowledgeRow(p)
      PROVE  \A q \in Process : RowsAfter(q)
  <2>1. PICK id \in work[p].rows : IsNext(p, id) /\ RowDone(p, id)
    BY <1>9 DEF AcknowledgeRow
  <2>2. work[p].pc = "acknowledge"
    BY <1>9 DEF AcknowledgeRow, At
  <2>3. CASE work[p].rows = {id}
    BY <1>4, <2>1, <2>3 DEF RowDone, Rest
  <2>4. CASE work[p].rows # {id}
    <3> DEFINE w == [work[p] EXCEPT !.pc = "index", !.rows = work[p].rows \ {id}]
    <3>1. w.pc = "index" /\ w.rows = work[p].rows \ {id}
      BY <1>0 DEF Hand
    <3>2. Becomes(p, w)
      BY <2>1, <2>4 DEF RowDone, Becomes
    <3> HIDE DEF w
    <3> QED BY <1>2, <2>1, <2>2, <3>1, <3>2
  <2> QED BY <2>3, <2>4
<1>10. ASSUME NEW d \in Process, Sync(d) \/ Register(d)
       PROVE  \A q \in Process : RowsAfter(q)
  <2> DEFINE w == [Idle EXCEPT !.pc = "import", !.copies = {CopyOf(r) : r \in {r \in Run : ledger[r].rev > 0}}]
  <2>1. w.rows = {}
    BY DEF Idle
  <2>2. Becomes(d, w)
    BY <1>10 DEF Sync, Register, Snapshot, Becomes
  <2> HIDE DEF w
  <2> QED BY <1>2, <2>1, <2>2
<1>11. ASSUME NEW d \in Process, RetrySaved(d)
       PROVE  \A q \in Process : RowsAfter(q)
  <2>1. work' \in [Process -> Hand'] /\ work'[d].rows = {} /\ \A q \in Process \ {d} : work'[q] = work[q]
    BY <1>11, RetrySaves
  <2> QED BY <2>1 DEF RowsAfter
<1>12. ASSUME NEW d \in Process, LogRetried(d) \/ TransitionSaved(d)
       PROVE  \A q \in Process : RowsAfter(q)
  <2> DEFINE w == [Idle EXCEPT !.pc = "list"]
  <2>1. w.rows = {} /\ Becomes(d, w)
    BY <1>12 DEF LogRetried, TransitionSaved, Idle, Becomes
  <2> HIDE DEF w
  <2> QED BY <1>2, <2>1
<1>13. ASSUME NEW d \in Process, ImportRun(d)
       PROVE  \A q \in Process : RowsAfter(q)
  <2>1. PICK copy \in work[d].copies : work' = [work EXCEPT ![d].copies = @ \ {copy}]
    BY <1>13 DEF ImportRun
  <2> DEFINE w == [work[d] EXCEPT !.copies = @ \ {copy}]
  <2>2. w.rows = work[d].rows /\ w.pc = "import" /\ Becomes(d, w)
    BY <1>0, <1>13, <2>1 DEF Hand, Becomes, ImportRun, At
  <2> HIDE DEF w
  <2> QED BY <1>2, <2>2
<1>14. ASSUME NEW d \in Process, RemoveFolder(d)
       PROVE  work' = work
  BY <1>14 DEF RemoveFolder
<1> QED BY <1>0, <1>1, <1>5, <1>6, <1>7, <1>8, <1>9, <1>10, <1>11, <1>12, <1>13, <1>14
        DEF IndexNext, DashboardStep, Drain

(* What it does to the logs: nothing, the event of the row a process is at, or  *)
(* an event that is not of the queue.                                       *)
LEMMA EventSteps ==
  ASSUME IndexTypeOK, IndexNext
  PROVE  \/ log' = log /\ receipts' = receipts
         \/ \E p \in Process : EventRow(p)
         \/ /\ receipts' = receipts
            /\ \E r \in Run, e \in Event : ~e.projected /\ log' = [log EXCEPT ![r] = Append(log[r], e)]
<1>1. ASSUME NEW p \in Process, LogRetried(p)
      PROVE  /\ receipts' = receipts
             /\ \E r \in Run, e \in Event : ~e.projected /\ log' = [log EXCEPT ![r] = Append(log[r], e)]
  <2>1. PICK copy \in work[p].copies :
          log' = [log EXCEPT ![copy.run] = Append(@, [rev |-> copy.rev, projected |-> FALSE])]
    BY <1>1 DEF LogRetried
  <2>2. copy.run \in Run /\ copy.rev \in Nat
    BY Shapes DEF Hand, Copy
  <2> DEFINE e == [rev |-> copy.rev, projected |-> FALSE]
  <2>3. e \in Event /\ ~e.projected /\ log' = [log EXCEPT ![copy.run] = Append(log[copy.run], e)]
    BY <2>1, <2>2 DEF Event
  <2> HIDE DEF e
  <2>4. receipts' = receipts
    BY <1>1 DEF LogRetried
  <2> QED BY <2>2, <2>3, <2>4
<1>2. ASSUME NEW p \in Process,
             \/ \E r \in Run : Transition(p, r) \/ RetryExecution(p, r)
             \/ TransitionSaved(p) \/ RetrySaved(p)
             \/ ListWorkflowRuns(p) \/ ReadOutbox(p) \/ IndexRow(p) \/ AcknowledgeRow(p) \/ RowFails(p)
             \/ Crash(p) \/ Sync(p) \/ ImportRun(p) \/ ImportEnds(p) \/ IndexRetried(p)
             \/ RetriedFails(p) \/ Register(p) \/ RemoveFolder(p)
      PROVE  log' = log /\ receipts' = receipts
  BY <1>2 DEF Transition, RetryExecution, TransitionSaved, RetrySaved, ListWorkflowRuns, ReadOutbox, IndexRow, AcknowledgeRow,
       RowFails, Crash, Sync, ImportRun, ImportEnds, IndexRetried, RetriedFails, Register,
       RemoveFolder, registry
<1>3. Dashboard \subseteq Process
  BY IndexAssumption
<1> QED BY <1>1, <1>2, <1>3 DEF IndexNext, DashboardStep, Drain

(* One more event in a run's log.                                           *)
LEMMA OneMoreEvent ==
  ASSUME IndexTypeOK, NEW r \in Run, NEW e \in Event, log' = [log EXCEPT ![r] = Append(log[r], e)]
  PROVE  /\ \A s \in Run \ {r} : log'[s] = log[s] /\ Told(s)' = Told(s)
         /\ \A n \in Told(r) : log'[r][n] = log[r][n]
         /\ ~e.projected => Told(r)' = Told(r)
         /\ e.projected => \E new \in Nat :
              /\ Told(r)' = Told(r) \union {new} /\ log'[r][new] = e
              /\ \A n \in Told(r) : n \in Nat /\ n < new
<1>1. log \in [Run -> Seq(Event)]
  BY DEF IndexTypeOK, Event
<1>2. log[r] \in Seq(Event)
  BY <1>1
<1>3. log'[r] = Append(log[r], e) /\ \A s \in Run \ {r} : log'[s] = log[s]
  BY <1>1
<1> DEFINE new == Len(log[r]) + 1
<1>4. /\ Len(log[r]) \in Nat /\ DOMAIN log[r] = 1 .. Len(log[r]) /\ DOMAIN log'[r] = 1 .. Len(log[r]) + 1
      /\ \A n \in DOMAIN log[r] : log'[r][n] = log[r][n]
      /\ log'[r][Len(log[r]) + 1] = e
  BY <1>2, <1>3
<1>5. /\ new \in Nat /\ DOMAIN log'[r] = DOMAIN log[r] \union {new}
      /\ \A n \in DOMAIN log[r] : n \in Nat /\ n < new
  BY <1>4
<1>6. \A n \in DOMAIN log[r] : log'[r][n] = log[r][n]
  BY <1>4
<1>7. log'[r][new] = e
  BY <1>4
<1> HIDE DEF new
<1>8. \A s \in Run \ {r} : log'[s] = log[s] /\ Told(s)' = Told(s)
  BY <1>3 DEF Told
<1>9. ~e.projected => Told(r)' = Told(r)
  BY <1>5, <1>6, <1>7 DEF Told
<1>10. e.projected => Told(r)' = Told(r) \union {new}
  BY <1>5, <1>6, <1>7 DEF Told
<1>11. \A n \in Told(r) : n \in DOMAIN log[r]
  BY DEF Told
<1> QED BY <1>5, <1>6, <1>7, <1>8, <1>9, <1>10, <1>11

LEMMA ToldRevisions ==
  ASSUME IndexTypeOK
  PROVE  \A r \in Run : \A n \in Told(r) : log[r][n].rev \in Nat
<1> SUFFICES ASSUME NEW r \in Run PROVE \A n \in Told(r) : log[r][n].rev \in Nat
  OBVIOUS
<1>1. log[r] \in Seq(Event)
  BY DEF IndexTypeOK, Event
<1>2. \A m \in DOMAIN log[r] : log[r][m] \in Event
  BY <1>1
<1> QED BY <1>2 DEF Told, Event

(* An event that is appended is that of the run's next revision.             *)
LEMMA NextEvent ==
  ASSUME EventInv, NEW p \in Process, NEW id \in work[p].rows, IsNext(p, id), ~Received(id)
  PROVE  /\ id \in DOMAIN outbox /\ outbox[id].run \in Run /\ outbox[id].rev \in Nat /\ outbox[id].rev > 0
         /\ \A m \in 1 .. outbox[id].rev - 1 : <<outbox[id].run, m>> \in receipts
         /\ \A n \in Nat : <<outbox[id].run, n>> \in receipts => n < outbox[id].rev
<1>1. id \in DOMAIN outbox
  BY Shapes DEF Hand, EventInv
<1>2. outbox[id].run \in Run /\ outbox[id].rev \in Nat /\ outbox[id].rev > 0
  BY <1>1, Shapes DEF Copy, EventInv, QueueIsHistory
<1>3. ASSUME NEW m \in 1 .. outbox[id].rev - 1 PROVE <<outbox[id].run, m>> \in receipts
  <2>1. PICK i \in DOMAIN outbox : i < id /\ outbox[i].run = outbox[id].run /\ outbox[i].rev = m
    BY <1>1, <1>3, EarlierRows DEF EventInv
  <2>2. i \in Nat /\ id \in Nat
    BY <1>1 DEF EventInv, IndexTypeOK
  <2>3. i \notin work[p].rows
    BY <2>1, <2>2 DEF IsNext
  <2>4. Received(i)
    BY <2>1, <2>3 DEF EventInv, NoRowIsPassedOver
  <2> QED BY <2>1, <2>4 DEF Received
<1>4. ASSUME NEW n \in Nat, <<outbox[id].run, n>> \in receipts PROVE n < outbox[id].rev
  <2>1. \A m \in 1 .. n : <<outbox[id].run, m>> \in receipts
    BY <1>2, <1>4 DEF EventInv, ReceiptsAreEvents
  <2>2. <<outbox[id].run, outbox[id].rev>> \notin receipts
    BY DEF Received
  <2>3. ~(outbox[id].rev \in 1 .. n)
    BY <2>1, <2>2
  <2> QED BY <1>2, <2>3
<1> QED BY <1>1, <1>2, <1>3, <1>4

LEMMA AppendsNext ==
  ASSUME EventInv, NEW r \in Run, NEW c \in Nat, c > 0, NEW e \in Event, e.projected, e.rev = c,
         \A m \in 1 .. c - 1 : <<r, m>> \in receipts,
         \A n \in Nat : <<r, n>> \in receipts => n < c,
         receipts' = receipts \union {<<r, c>>}, log' = [log EXCEPT ![r] = Append(log[r], e)]
  PROVE  ReceiptsAreEvents' /\ EventsAreInOrder'
<1>0. IndexTypeOK /\ ReceiptsAreEvents /\ EventsAreInOrder
  BY DEF EventInv
<1>1. /\ r \in Run /\ c \in Nat /\ c > 0
      /\ \A m \in 1 .. c - 1 : <<r, m>> \in receipts
      /\ \A n \in Nat : <<r, n>> \in receipts => n < c
  OBVIOUS
<1>2. receipts' = receipts \union {<<r, c>>}
  OBVIOUS
<1>3. e \in Event /\ e.projected /\ e.rev = c
  OBVIOUS
<1>4. log' = [log EXCEPT ![r] = Append(log[r], e)]
  OBVIOUS
<1>5. /\ \A s \in Run \ {r} : log'[s] = log[s] /\ Told(s)' = Told(s)
      /\ \A n \in Told(r) : log'[r][n] = log[r][n]
  BY <1>0, <1>1, <1>3, <1>4, OneMoreEvent
<1>6. PICK new \in Nat :
        /\ Told(r)' = Told(r) \union {new} /\ log'[r][new] = e
        /\ \A n \in Told(r) : n \in Nat /\ n < new
  BY <1>0, <1>1, <1>3, <1>4, OneMoreEvent
<1>7. \A s \in Run : \A n \in Told(s) : log[s][n].rev \in Nat
  BY <1>0, ToldRevisions
<1>8. \A s \in Run \ {r} : \A n \in Nat : <<s, n>> \in receipts' <=> <<s, n>> \in receipts
  BY <1>2
<1>9. \A n \in Nat : <<r, n>> \in receipts' <=> <<r, n>> \in receipts \/ n = c
  BY <1>2
<1>10. ASSUME NEW s \in Run \ {r}
       PROVE  /\ \A n \in Told(s)' : <<s, log'[s][n].rev>> \in receipts'
              /\ \A n \in Nat : <<s, n>> \in receipts' =>
                   n > 0 /\ (\E m \in Told(s)' : log'[s][m].rev = n) /\ \A m \in 1 .. n : <<s, m>> \in receipts'
              /\ \A n \in Told(s)' :
                   /\ \A m \in Told(s)' : m < n => log'[s][m].rev < log'[s][n].rev
                   /\ \A k \in 1 .. log'[s][n].rev - 1 : \E m \in Told(s)' : m < n /\ log'[s][m].rev = k
  <2>1. Told(s)' = Told(s) /\ log'[s] = log[s]
    BY <1>5, <1>10
  <2>2. \A n \in Told(s) : <<s, log[s][n].rev>> \in receipts
    BY <1>0, <1>10 DEF ReceiptsAreEvents
  <2>3. \A n \in Nat : <<s, n>> \in receipts =>
                   n > 0 /\ (\E m \in Told(s) : log[s][m].rev = n) /\ \A m \in 1 .. n : <<s, m>> \in receipts
    BY <1>0, <1>10 DEF ReceiptsAreEvents
  <2>4. \A n \in Told(s) :
                   /\ \A m \in Told(s) : m < n => log[s][m].rev < log[s][n].rev
                   /\ \A k \in 1 .. log[s][n].rev - 1 : \E m \in Told(s) : m < n /\ log[s][m].rev = k
    BY <1>0, <1>10 DEF EventsAreInOrder
  <2>5. \A n \in Told(s) : <<s, log[s][n].rev>> \in receipts'
    BY <1>7, <1>8, <2>2, <1>10
  <2>6. \A n \in Nat : <<s, n>> \in receipts' =>
                   n > 0 /\ (\E m \in Told(s) : log[s][m].rev = n) /\ \A m \in 1 .. n : <<s, m>> \in receipts'
    BY <1>8, <1>10, <2>3
  <2> QED BY <2>1, <2>4, <2>5, <2>6
<1>11. \A n \in Told(r)' : n \in Told(r) \/ n = new
  BY <1>6
<1>12. \A n \in Told(r) : <<r, log[r][n].rev>> \in receipts /\ log[r][n].rev < c
  BY <1>0, <1>1, <1>7 DEF ReceiptsAreEvents
<1>13. ASSUME NEW n \in Told(r)'
       PROVE  <<r, log'[r][n].rev>> \in receipts'
  <2>1. CASE n = new
    BY <1>2, <1>3, <1>6, <2>1
  <2>2. CASE n \in Told(r)
    <3>1. <<r, log[r][n].rev>> \in receipts /\ log'[r][n] = log[r][n]
      BY <1>5, <1>12, <2>2
    <3> QED BY <1>2, <3>1
  <2> QED BY <1>11, <2>1, <2>2
<1>14. ASSUME NEW n \in Nat, <<r, n>> \in receipts'
       PROVE  n > 0 /\ (\E m \in Told(r)' : log'[r][m].rev = n) /\ \A m \in 1 .. n : <<r, m>> \in receipts'
  <2>1. CASE n = c
    <3>1. \A m \in 1 .. n : m \in Nat /\ (m \in 1 .. c - 1 \/ m = c)
      BY <1>1, <2>1
    <3>2. \A m \in 1 .. n : <<r, m>> \in receipts'
      BY <1>1, <1>9, <3>1
    <3> QED BY <1>1, <1>3, <1>6, <2>1, <3>2
  <2>2. CASE <<r, n>> \in receipts
    <3>1. n > 0 /\ \A m \in 1 .. n : <<r, m>> \in receipts'
      BY <1>0, <1>1, <1>2, <2>2 DEF ReceiptsAreEvents
    <3>2. PICK m \in Told(r) : log[r][m].rev = n
      BY <1>0, <1>1, <2>2 DEF ReceiptsAreEvents
    <3> QED BY <1>5, <1>6, <3>1, <3>2
  <2> QED BY <1>9, <1>14, <2>1, <2>2
<1>15. ASSUME NEW n \in Told(r)'
       PROVE  /\ \A m \in Told(r)' : m < n => log'[r][m].rev < log'[r][n].rev
              /\ \A k \in 1 .. log'[r][n].rev - 1 : \E m \in Told(r)' : m < n /\ log'[r][m].rev = k
  <2>1. CASE n = new
    <3>1. log'[r][n].rev = c
      BY <1>3, <1>6, <2>1
    <3>2. ASSUME NEW m \in Told(r)', m < n PROVE log'[r][m].rev < log'[r][n].rev
      <4>1. m \in Told(r)
        BY <1>6, <1>11, <2>1, <3>2
      <4> QED BY <1>5, <1>12, <3>1, <4>1
    <3>3. ASSUME NEW k \in 1 .. log'[r][n].rev - 1 PROVE \E m \in Told(r)' : m < n /\ log'[r][m].rev = k
      <4>0. k \in 1 .. c - 1
        BY <3>1
      <4>1. k \in Nat /\ <<r, k>> \in receipts
        BY <1>1, <4>0
      <4>2. PICK m \in Told(r) : log[r][m].rev = k
        BY <1>0, <1>1, <4>1 DEF ReceiptsAreEvents
      <4> QED BY <1>5, <1>6, <2>1, <4>2
    <3> QED BY <3>2, <3>3
  <2>2. CASE n \in Told(r)
    <3>1. log'[r][n] = log[r][n] /\ n \in Nat /\ n < new
      BY <1>5, <1>6, <2>2
    <3>2. ASSUME NEW m \in Told(r)', m < n PROVE log'[r][m].rev < log'[r][n].rev
      <4>1. m \in Told(r)
        BY <1>6, <1>11, <3>1, <3>2
      <4>2. log[r][m].rev < log[r][n].rev
        BY <1>0, <1>1, <2>2, <3>2, <4>1 DEF EventsAreInOrder
      <4> QED BY <1>5, <3>1, <4>1, <4>2
    <3>3. ASSUME NEW k \in 1 .. log'[r][n].rev - 1 PROVE \E m \in Told(r)' : m < n /\ log'[r][m].rev = k
      <4>1. PICK m \in Told(r) : m < n /\ log[r][m].rev = k
        BY <1>0, <1>1, <2>2, <3>1, <3>3 DEF EventsAreInOrder
      <4> QED BY <1>5, <1>6, <4>1
    <3> QED BY <3>2, <3>3
  <2> QED BY <1>11, <2>1, <2>2
<1>16. ReceiptsAreEvents'
  <2>1. ASSUME NEW s \in Run
        PROVE  /\ \A n \in Told(s)' : <<s, log'[s][n].rev>> \in receipts'
               /\ \A n \in Nat : <<s, n>> \in receipts' =>
                    n > 0 /\ (\E m \in Told(s)' : log'[s][m].rev = n) /\ \A m \in 1 .. n : <<s, m>> \in receipts'
    <3>1. CASE s = r
      <4>1. Told(s)' = Told(r)' /\ log'[s] = log'[r]
        BY <3>1 DEF Told
      <4>2. \A n \in Told(r)' : <<r, log'[r][n].rev>> \in receipts'
        BY <1>13
      <4>3. \A n \in Nat : <<r, n>> \in receipts' =>
                    n > 0 /\ (\E m \in Told(r)' : log'[r][m].rev = n) /\ \A m \in 1 .. n : <<r, m>> \in receipts'
        BY <1>14
      <4>4. \A n \in Told(s)' : <<s, log'[s][n].rev>> \in receipts'
        BY <3>1, <4>1, <4>2
      <4>5. \A n \in Nat : <<s, n>> \in receipts' <=> <<r, n>> \in receipts'
        BY <3>1
      <4>6. ASSUME NEW n \in Nat, <<s, n>> \in receipts'
            PROVE  n > 0 /\ (\E m \in Told(s)' : log'[s][m].rev = n) /\ \A m \in 1 .. n : <<s, m>> \in receipts'
        <5>1. n > 0 /\ (\E m \in Told(r)' : log'[r][m].rev = n) /\ \A m \in 1 .. n : <<r, m>> \in receipts'
          BY <4>3, <4>5, <4>6
        <5>2. \E m \in Told(s)' : log'[s][m].rev = n
          BY <4>1, <5>1
        <5>3. \A m \in 1 .. n : <<s, m>> \in receipts'
          BY <3>1, <5>1, Zenon
        <5> QED BY <5>1, <5>2, <5>3
      <4> QED BY <4>4, <4>6
    <3>2. CASE s # r
      BY <1>10, <3>2
    <3> QED BY <3>1, <3>2
  <2> QED BY <2>1 DEF ReceiptsAreEvents
<1>17. EventsAreInOrder'
  <2>1. ASSUME NEW s \in Run, NEW n \in Told(s)'
        PROVE  /\ \A m \in Told(s)' : m < n => log'[s][m].rev < log'[s][n].rev
               /\ \A k \in 1 .. log'[s][n].rev - 1 : \E m \in Told(s)' : m < n /\ log'[s][m].rev = k
    <3>1. CASE s = r
      BY <1>15, <2>1, <3>1 DEF Told
    <3>2. CASE s # r
      BY <1>10, <2>1, <3>2
    <3> QED BY <3>1, <3>2
  <2> QED BY <2>1 DEF EventsAreInOrder
<1> QED BY <1>16, <1>17

LEMMA EventRowStep ==
  ASSUME EventInv, NEW p \in Process, EventRow(p)
  PROVE  ReceiptsAreEvents' /\ EventsAreInOrder' /\ receipts \subseteq receipts'
<1>0. IndexTypeOK /\ ReceiptsAreEvents /\ EventsAreInOrder
  BY DEF EventInv
<1>1. PICK id \in work[p].rows : IsNext(p, id) /\ AppendProjectedEvent(outbox[id])
  BY DEF EventRow
<1>2. CASE Received(id)
  BY <1>0, <1>1, <1>2 DEF Received, AppendProjectedEvent, ReceiptsAreEvents, EventsAreInOrder, Told
<1>3. CASE ~Received(id)
  <2>1. PICK r \in Run : r = outbox[id].run
    BY <1>1, <1>3, NextEvent
  <2>2. PICK c \in Nat : c = outbox[id].rev
    BY <1>1, <1>3, NextEvent
  <2>3. PICK e \in Event : e = [rev |-> c, projected |-> TRUE]
    BY <2>2 DEF Event
  <2>4. receipts' = receipts \union {<<r, c>>} /\ log' = [log EXCEPT ![r] = Append(log[r], e)]
    BY <1>1, <1>3, <2>1, <2>2, <2>3 DEF Received, AppendProjectedEvent
  <2>5. /\ c > 0 /\ \A m \in 1 .. c - 1 : <<r, m>> \in receipts
        /\ \A n \in Nat : <<r, n>> \in receipts => n < c
    BY <1>1, <1>3, <2>1, <2>2, NextEvent
  <2>6. e.projected /\ e.rev = c
    BY <2>3
  <2> QED BY <2>4, <2>5, <2>6, AppendsNext
<1> QED BY <1>2, <1>3

LEMMA LogStep ==
  ASSUME EventInv, IndexNext
  PROVE  ReceiptsAreEvents' /\ EventsAreInOrder' /\ receipts \subseteq receipts'
<1>0. IndexTypeOK /\ ReceiptsAreEvents /\ EventsAreInOrder
  BY DEF EventInv
<1>1. ASSUME receipts' = receipts, \A s \in Run : Told(s)' = Told(s) /\ \A n \in Told(s) : log'[s][n] = log[s][n]
      PROVE  ReceiptsAreEvents' /\ EventsAreInOrder'
  BY <1>0, <1>1 DEF ReceiptsAreEvents, EventsAreInOrder
<1>2. CASE log' = log /\ receipts' = receipts
  BY <1>1, <1>2 DEF Told
<1>3. ASSUME NEW r \in Run, NEW e \in Event, ~e.projected, log' = [log EXCEPT ![r] = Append(log[r], e)]
      PROVE  \A s \in Run : Told(s)' = Told(s) /\ \A n \in Told(s) : log'[s][n] = log[s][n]
  BY <1>0, <1>3, OneMoreEvent
<1> QED BY <1>0, <1>1, <1>2, <1>3, EventSteps, EventRowStep

LEMMA PassedOverStep ==
  ASSUME EventInv, IndexNext
  PROVE  NoRowIsPassedOver'
<1>0. IndexTypeOK /\ NoRowIsPassedOver
  BY DEF EventInv
<1>1. \A id \in DOMAIN outbox : Received(id) => Received(id)'
  BY <1>0, LogStep, QueueGrows DEF Received
<1>2. \A q \in Process : work[q].rows \subseteq DOMAIN outbox
  BY <1>0, Shapes DEF Hand
<1>3. delivered \subseteq DOMAIN outbox
  BY <1>0 DEF IndexTypeOK
<1>4. ASSUME NEW id \in delivered' PROVE Received(id)'
  <2>1. CASE id \in delivered
    BY <1>0, <1>1, <1>3, <2>1 DEF NoRowIsPassedOver
  <2>2. CASE id \notin delivered
    <3>1. ~\E r \in Run : \E at \in Nat : SaveWorkflow(r, at)
      BY <1>4, <2>2 DEF SaveWorkflow
    <3>2. PICK p \in Process : id \in work[p].rows /\ work[p].pc = "acknowledge" /\ IsNext(p, id)
      BY <1>0, <1>4, <2>2, <3>1, RepositorySteps
    <3> QED BY <1>0, <1>1, <1>2, <3>2 DEF NoRowIsPassedOver
  <2> QED BY <2>1, <2>2
<1>5. ASSUME NEW p \in Process, NEW id \in work'[p].rows, NEW i \in DOMAIN outbox', i < id
      PROVE  i \in work'[p].rows \/ Received(i)'
  <2>0. RowsAfter(p)
    BY <1>0, RowSteps
  <2>1. id \in DOMAIN outbox
    BY <1>2, <1>5, <2>0 DEF RowsAfter, PendingProjections
  <2>2. i \in DOMAIN outbox
    <3>1. Len(outbox) \in Nat /\ DOMAIN outbox = 1 .. Len(outbox) /\ outbox' \in Seq(Copy)
      BY <1>0, TypeStep DEF IndexTypeOK
    <3>2. i \in Nat /\ i > 0
      BY <3>1
    <3> QED BY <1>5, <2>1, <3>1, <3>2
  <2>3. CASE work'[p].rows = PendingProjections
    <3>1. i \in work'[p].rows \/ i \in delivered
      BY <2>2, <2>3 DEF PendingProjections
    <3> QED BY <1>0, <1>1, <1>3, <3>1 DEF NoRowIsPassedOver
  <2>4. CASE work[p].pc = "acknowledge" /\ \E first \in work[p].rows : IsNext(p, first) /\ work'[p].rows = work[p].rows \ {first}
    <3>1. PICK first \in work[p].rows : IsNext(p, first) /\ work'[p].rows = work[p].rows \ {first}
      BY <2>4
    <3>2. i \in work[p].rows \/ Received(i)
      BY <1>0, <1>5, <2>2, <3>1 DEF NoRowIsPassedOver
    <3>3. Received(first)
      BY <1>0, <2>4, <3>1 DEF NoRowIsPassedOver
    <3> QED BY <1>1, <2>2, <3>1, <3>2, <3>3
  <2>5. CASE work'[p].rows = work[p].rows
    <3>1. i \in work[p].rows \/ Received(i)
      BY <1>0, <1>5, <2>2, <2>5 DEF NoRowIsPassedOver
    <3> QED BY <1>1, <2>2, <2>5, <3>1
  <2> QED BY <1>5, <2>0, <2>3, <2>4, <2>5 DEF RowsAfter
<1>6. ASSUME NEW p \in Process, NEW id \in work'[p].rows, work'[p].pc = "acknowledge", IsNext(p, id)'
      PROVE  Received(id)'
  <2>1. work'[p].rows = work[p].rows /\ (work[p].pc = "acknowledge" \/ EventRow(p))
    BY <1>0, <1>6, RowSteps DEF RowsAfter
  <2>2. IsNext(p, id) /\ id \in DOMAIN outbox
    BY <1>2, <1>6, <2>1 DEF IsNext
  <2>3. CASE work[p].pc = "acknowledge"
    BY <1>0, <1>1, <2>1, <2>2, <2>3 DEF NoRowIsPassedOver
  <2>4. CASE EventRow(p)
    <3>1. PICK k \in work[p].rows : IsNext(p, k) /\ AppendProjectedEvent(outbox[k])
      BY <2>4 DEF EventRow
    <3>2. k = id
      BY <1>0, <1>2, <2>2, <3>1 DEF IsNext, IndexTypeOK
    <3>3. <<outbox[id].run, outbox[id].rev>> \in receipts'
      BY <3>1, <3>2 DEF AppendProjectedEvent
    <3> QED BY <1>0, <2>2, <3>3, QueueGrows DEF Received
  <2> QED BY <2>1, <2>3, <2>4
<1> QED BY <1>4, <1>5, <1>6 DEF NoRowIsPassedOver

LEMMA EventInvHolds == IndexSpec => []EventInv
<1>1. IndexInit => EventInv
  <2> SUFFICES ASSUME IndexInit PROVE EventInv
    OBVIOUS
  <2>1. IndexTypeOK
    BY DEF IndexInit, IndexTypeOK, Unsaved, Version, NoFolder, Idle
  <2>2. DOMAIN outbox = {} /\ delivered = {} /\ receipts = {} /\ \A r \in Run : ledger[r].rev = 0 /\ Told(r) = {}
    BY DEF IndexInit, Unsaved, Told
  <2>3. \A p \in Process : work[p].rows = {}
    BY DEF IndexInit, Idle
  <2> QED BY <2>1, <2>2, <2>3 DEF EventInv, QueueIsHistory, ReceiptsAreEvents, EventsAreInOrder, NoRowIsPassedOver
<1>2. EventInv /\ [IndexNext]_indexVars => EventInv'
  <2>1. ASSUME EventInv, UNCHANGED indexVars PROVE EventInv'
    <3>1. /\ ledger' = ledger /\ outbox' = outbox /\ delivered' = delivered /\ log' = log /\ receipts' = receipts
          /\ work' = work /\ index' = index /\ folder' = folder
          /\ clock' = clock /\ faults' = faults /\ imports' = imports
      BY <2>1 DEF indexVars, repository, registry, history
    <3>2. IndexTypeOK'
      BY <2>1, <3>1 DEF EventInv, IndexTypeOK
    <3>3. QueueIsHistory'
      BY <2>1, <3>1 DEF EventInv, QueueIsHistory
    <3>4. ReceiptsAreEvents' /\ EventsAreInOrder'
      BY <2>1, <3>1 DEF EventInv, ReceiptsAreEvents, EventsAreInOrder, Told
    <3>5. NoRowIsPassedOver'
      BY <2>1, <3>1 DEF EventInv, NoRowIsPassedOver, Received, IsNext
    <3> QED BY <3>2, <3>3, <3>4, <3>5 DEF EventInv
  <2>2. EventInv /\ IndexNext => EventInv'
    BY TypeStep, QueueHistoryStep, LogStep, PassedOverStep DEF EventInv
  <2> QED BY <2>1, <2>2
<1> QED BY <1>1, <1>2, PTL DEF IndexSpec

(* The projected events of a run are its saves, each once and in their order    *)
(* (EventsTellTheSaves), however many processes drain the queue, wherever they  *)
(* fail or die, and in whatever order saves are stamped.                     *)
THEOREM EventsAreTheSaves == IndexSpec => []EventsTellTheSaves
<1>1. EventInv => EventsTellTheSaves
  <2> SUFFICES ASSUME EventInv, NEW r \in Run, NEW n \in Told(r)
               PROVE  /\ log[r][n].rev > 0
                      /\ {log[r][m].rev : m \in {m \in Told(r) : m < n}} = 1 .. log[r][n].rev - 1
    BY DEF EventsTellTheSaves
  <2>1. \A m \in Told(r) : log[r][m].rev \in Nat
    BY ToldRevisions DEF EventInv
  <2>2. \A m \in Told(r) : log[r][m].rev > 0
    BY <2>1 DEF EventInv, ReceiptsAreEvents
  <2>3. \A m \in Told(r) : m < n => log[r][m].rev \in 1 .. log[r][n].rev - 1
    BY <2>1, <2>2 DEF EventInv, EventsAreInOrder
  <2>4. \A k \in 1 .. log[r][n].rev - 1 : \E m \in Told(r) : m < n /\ log[r][m].rev = k
    BY DEF EventInv, EventsAreInOrder
  <2> QED BY <2>2, <2>3, <2>4
<1> QED BY <1>1, EventInvHolds, PTL
=====
