----------------------------- MODULE Lifecycle ------------------------------
(***************************************************************************)
(* The regulatory knowledge base: documents, review tasks, change events   *)
(* and provision versions in the database, the chunks of published         *)
(* versions in the search index, and the requests that move between them   *)
(* (ingestion/service.py, activate.py, change_event.py, review_inbox.py,   *)
(* backend/app/ingestion/activation/gate.py).                              *)
(*                                                                         *)
(* A request is one database transaction (infra/postgres.py session_scope) *)
(* run on a thread-pool worker: its statements see what others have        *)
(* committed so far (READ COMMITTED), a row it has flushed stays locked    *)
(* until it ends, and its own writes appear at commit or not at all.  The  *)
(* index is written in the middle of the transaction, is visible at once,  *)
(* and is not undone by a rollback.                                        *)
(***************************************************************************)
EXTENDS Naturals, FiniteSets

CONSTANTS
    Doc, Provision, Event, Worker,
    NewId,          \* ids that new_version_id() may still hand out
    Date, Open,     \* days, and valid_to_exclusive = None as a later bound
    None,           \* no row, no transaction, NULL
    DocOf,          \* DocOf[p]: the document that holds p
    FirstDate,      \* FirstDate[p]: valid_from of that document
    AmendingDoc,    \* AmendingDoc[e]: the document that declares amendment e
    EffectiveDate,  \* EffectiveDate[e]: valid_from extracted for e
    Candidates,     \* Candidates[e]: provisions at the locator that e names,
                    \*   under any document number
    Suspicious,     \* documents on which the injection scan hits
    Decisions,      \* answers the employees give to tasks, \subseteq Answer
    EditDates,      \* effective days an EDIT may put in place of the extracted
    Failures        \* what may fail, \subseteq {"transaction", "index write"}

Answer == {"APPROVED", "REJECTED"}

\* A provision is parsed into exactly one version, which carries its name here;
\* every later version gets a fresh id.
VersionId == Provision \cup NewId

ASSUME DatesAssumption ==
    /\ Date \subseteq Nat
    /\ Open \in Nat
    /\ \A d \in Date : d < Open
ASSUME ConfigAssumption ==
    /\ DocOf \in [Provision -> Doc]
    /\ FirstDate \in [Provision -> Date]
    /\ AmendingDoc \in [Event -> Doc]
    /\ EffectiveDate \in [Event -> Date]
    /\ Candidates \in [Event -> SUBSET Provision]
    /\ Suspicious \subseteq Doc
    /\ Decisions \subseteq Answer
    /\ EditDates \subseteq Date
    /\ Failures \subseteq {"transaction", "index write"}

ProvisionsOf(d) == {p \in Provision : DocOf[p] = d}
EventsOf(d) == {e \in Event : AmendingDoc[e] = d}

-----------------------------------------------------------------------------
(* Rows *)

DocRow == [processing : {"PARSED", "INDEXED"},
           approval : {"PENDING", "APPROVED", "ARCHIVED"},
           unsynced : SUBSET VersionId]   \* sync_pending_versions

\* `pred' and `edits' follow a version's content: the version it was patched
\* from and the amendments applied on the way.
VersionRow == [status : {"PENDING", "APPROVED"}, prov : Provision,
               from : Date, to : Date \cup {Open},
               pred : VersionId \cup {None}, edits : SUBSET Event]

EventRow == [target : Provision \cup {None}, status : {"PENDING", "APPROVED"},
             before : VersionId \cup {None}, after : VersionId \cup {None},
             date : Date]

\* A task and the subject it was raised for.  The REFERENCE_REVIEW tasks of one
\* amendment stand together: PENDING while one of them is.
Task == (Doc \X {"PARSING", "INJECTION"})
            \cup (Event \X {"REFERENCE", "CHANGE_EVENT"})

\* A chunk of the index: enough of its metadata to filter on.
Chunk == [prov : Provision, from : Date, to : Date \cup {Open}]

\* Requests in flight.
\* `closes': the end of the old version changes, so its row is written.  The id
\* of the new version is drawn with the read; nobody sees it before the flush.
Approval == [event : Event, old : VersionId, new : NewId, date : Date,
             closes : BOOLEAN, step : {"read", "flushed", "closed", "opened"}]
Activation == [doc : Doc, todo : SUBSET Provision,
               current : Provision \cup {None},
               marked : SUBSET Provision, flushed : SUBSET Provision,
               failed : SUBSET Provision]
Deletion == [deleting : Doc]

ASSUME RowsAssumption ==
    /\ Provision \cap NewId = {}
    /\ None \notin VersionId
    /\ None \notin Event
    /\ None \notin [prov : Provision, from : Date, to : Date \cup {Open},
                    pred : VersionId \cup {None}]
    /\ None \notin DocRow \cup VersionRow \cup EventRow \cup Chunk
                      \cup Approval \cup Activation \cup Deletion

VARIABLES
    doc,        \* documents
    task,       \* review_tasks: status, or None
    event,      \* change_events
    version,    \* provision_versions
    index,      \* the search index
    txn,        \* txn[w]: the request worker w is serving
    clean       \* no transaction has failed so far

db == <<doc, task, event, version>>
vars == <<db, index, txn, clean>>

TypeOK ==
    /\ doc \in [Doc -> DocRow \cup {None}]
    /\ task \in [Task -> {"PENDING", None} \cup Answer]
    /\ event \in [Event -> EventRow \cup {None}]
    /\ version \in [VersionId -> VersionRow \cup {None}]
    /\ index \in [VersionId -> Chunk \cup {None}]
    /\ txn \in [Worker -> Approval \cup Activation \cup Deletion \cup {None}]
    /\ clean \in BOOLEAN

Init ==
    /\ doc = [d \in Doc |-> None]
    /\ task = [t \in Task |-> None]
    /\ event = [e \in Event |-> None]
    /\ version = [v \in VersionId |-> None]
    /\ index = [v \in VersionId |-> None]
    /\ txn = [w \in Worker |-> None]
    /\ clean = TRUE

Approved(v) == version[v] # None /\ version[v].status = "APPROVED"

Idle(w) == txn[w] = None
Finish(w) == txn' = [txn EXCEPT ![w] = None]

Activating(w) == txn[w] \in Activation
Approving(w) == txn[w] \in Approval

\* The version rows that w has flushed and holds, and those that its next flush
\* will write.
Locked(w) ==
    {v \in VersionId :
        \/ Activating(w) /\ v \in txn[w].flushed
        \/ Approving(w) /\ txn[w].step # "read" /\ txn[w].closes
                        /\ v = txn[w].old}
Wanted(w) ==
    {v \in VersionId :
        \/ Activating(w) /\ txn[w].current = None /\ v \in txn[w].marked
        \/ Approving(w) /\ txn[w].step = "read" /\ txn[w].closes
                        /\ v = txn[w].old}
Blocks(u, w) == u # w /\ Locked(u) \cap Wanted(w) # {}
Blocked(w) == \E u \in Worker : Blocks(u, w)

-----------------------------------------------------------------------------
(* Upload (handle_upload): the file is scanned, parsed and queued for review  *)
(* in one transaction of the event loop; nothing is published.                *)

ParsedVersion(p) == [status |-> "PENDING", prov |-> p, from |-> FirstDate[p],
                     to |-> Open, pred |-> None, edits |-> {}]

\* The locator of e is tried under every document number in the store, in no
\* given order, until one of them has it.
Known(d) == {c \in Doc : doc[c] # None} \cup {d}
Resolvable(e, d) == {p \in Candidates[e] : DocOf[p] \in Known(d)}
MayMissFirst(e, d) ==
    \E c \in Known(d) : \A p \in Candidates[e] : DocOf[p] # c

NewEvent(e, p) == [target |-> p, status |-> "PENDING", before |-> None,
                   after |-> None, date |-> EffectiveDate[e]]

Upload(d) ==
    /\ doc[d] = None
    /\ \E target \in [EventsOf(d) -> Provision \cup {None}],
          missed \in SUBSET EventsOf(d) :
         /\ \A e \in EventsOf(d) :
              /\ IF Resolvable(e, d) = {} THEN target[e] = None /\ e \in missed
                                          ELSE target[e] \in Resolvable(e, d)
              /\ e \in missed => target[e] = None \/ MayMissFirst(e, d)
         /\ event' = [e \in Event |->
                        IF e \in EventsOf(d) THEN NewEvent(e, target[e])
                                             ELSE event[e]]
         /\ task' = [t \in Task |->
                       IF \/ t = <<d, "PARSING">>
                          \/ t = <<d, "INJECTION">> /\ d \in Suspicious
                          \/ \E e \in EventsOf(d) :
                               \/ t = <<e, "REFERENCE">> /\ e \in missed
                               \/ t = <<e, "CHANGE_EVENT">> /\ target[e] # None
                       THEN "PENDING" ELSE task[t]]
    /\ version' = [v \in VersionId |->
                     IF v \in ProvisionsOf(d) THEN ParsedVersion(v)
                                              ELSE version[v]]
    /\ doc' = [doc EXCEPT ![d] = [processing |-> "PARSED",
                                  approval |-> "PENDING", unsynced |-> {}]]
    /\ UNCHANGED <<index, txn, clean>>

-----------------------------------------------------------------------------
(* Decisions that only record an answer (decide_review_task without a side    *)
(* effect): any task but a change event, and the rejection of a change event. *)
(* The status a task already has is not looked at.                            *)

InApproval(e) == \E w \in Worker : Approving(w) /\ txn[w].event = e

Decide(t, answer) ==
    /\ task[t] # None
    /\ t[2] = "CHANGE_EVENT" => answer = "REJECTED" /\ ~InApproval(t[1])
    /\ task' = [task EXCEPT ![t] = answer]
    /\ UNCHANGED <<doc, event, version, index, txn, clean>>

-----------------------------------------------------------------------------
(* Activation of a document (activate_document)                               *)

\* check_can_activate
CriticalTasks(d) == ({d} \X {"PARSING", "INJECTION"})
                        \cup (EventsOf(d) \X {"REFERENCE"})
\* The gate without its look at the review tasks.
CanActivateUnreviewed(d) == doc[d] # None /\ doc[d].processing = "PARSED"

CanActivate(d) ==
    /\ doc[d] # None
    /\ doc[d].processing = "PARSED"
    /\ \A t \in CriticalTasks(d) : task[t] # "PENDING"

ActivateBegin(w, d) ==
    /\ Idle(w)
    /\ CanActivate(d)
    /\ txn' = [txn EXCEPT ![w] = [doc |-> d, todo |-> ProvisionsOf(d),
                                  current |-> None, marked |-> {},
                                  flushed |-> {}, failed |-> {}]]
    /\ UNCHANGED <<db, index, clean>>

ReadOf(t, p) ==
    [t EXCEPT !.todo = @ \ {p},
              !.flushed = t.marked,
              !.current = IF Approved(p) THEN None ELSE p,
              !.marked = IF Approved(p) THEN @ ELSE @ \cup {p}]

\* ActivateRead, coming back to a provision that needed no work.
ActivateReadAgain(w, p) ==
    /\ Activating(w)
    /\ txn[w].current = None
    /\ p \in txn[w].todo
    /\ ~Blocked(w)
    /\ txn' = [txn EXCEPT
                 ![w] = IF Approved(p) THEN [ReadOf(txn[w], p) EXCEPT
                                               !.todo = txn[w].todo]
                                       ELSE ReadOf(txn[w], p)]
    /\ UNCHANGED <<db, index, clean>>

\* Reading the versions of the next provision flushes those approved before.
ActivateRead(w, p) ==
    /\ Activating(w)
    /\ txn[w].current = None
    /\ p \in txn[w].todo
    /\ ~Blocked(w)
    /\ txn' = [txn EXCEPT ![w] = ReadOf(txn[w], p)]
    /\ UNCHANGED <<db, index, clean>>

IndexCurrent(w) ==
    index' = [index EXCEPT ![txn[w].current] =
                [prov |-> txn[w].current, from |-> FirstDate[txn[w].current],
                 to |-> Open]]

ActivateIndex(w) ==
    /\ Activating(w)
    /\ txn[w].current # None
    /\ IndexCurrent(w)
    /\ txn' = [txn EXCEPT ![w].current = None]
    /\ UNCHANGED <<db, clean>>

FailureOf(t) == [t EXCEPT !.current = None, !.failed = @ \cup {t.current}]

\* The index or the graph write fails, before or after the chunk is stored; the
\* approval goes on and the version is listed as not synchronised.
ActivateIndexFails(w) ==
    /\ "index write" \in Failures
    /\ Activating(w)
    /\ txn[w].current # None
    /\ UNCHANGED index \/ IndexCurrent(w)
    /\ txn' = [txn EXCEPT ![w] = FailureOf(txn[w])]
    /\ UNCHANGED <<db, clean>>

\* The flag of the document, cleared by an activation that had no failure.
UnsyncedReset(w) == txn[w].failed

\* The flag of the document is written only when something failed.
Unsynced(w) == IF txn[w].failed # {} THEN txn[w].failed
                                     ELSE doc[txn[w].doc].unsynced

\* The approvals a commit writes, the last one before it forgotten.
ApprovesFlushed(w) == txn[w].flushed

Approves(w) == txn[w].marked

ActivateCommit(w) ==
    /\ Activating(w)
    /\ txn[w].current = None
    /\ txn[w].todo = {}
    /\ ~Blocked(w)
    /\ version' = [v \in VersionId |->
                     IF v \in Approves(w)
                     THEN [version[v] EXCEPT !.status = "APPROVED"]
                     ELSE version[v]]
    /\ doc' = [doc EXCEPT ![txn[w].doc] =
                 [processing |-> "INDEXED", approval |-> "APPROVED",
                  unsynced |-> Unsynced(w)]]
    /\ Finish(w)
    /\ UNCHANGED <<task, event, index, clean>>

-----------------------------------------------------------------------------
(* Approval of a change event (decide_review_task with APPROVE or EDIT, then  *)
(* activate_change_event)                                                     *)

\* The latest version, whether it is approved or not.
LatestOfAny(p) ==
    {v \in VersionId :
        /\ version[v] # None /\ version[v].prov = p
        /\ \A u \in VersionId :
             version[u] # None /\ version[u].prov = p
               => version[u].from <= version[v].from}

\* The approved versions with the latest valid_from; the query takes one of them.
Latest(p) ==
    {v \in VersionId :
        /\ Approved(v) /\ version[v].prov = p
        /\ \A u \in VersionId :
             Approved(u) /\ version[u].prov = p
               => version[u].from <= version[v].from}

\* The task exists and resolved to a provision; marking it decided locks it.
MayApprove(e) ==
    /\ task[<<e, "CHANGE_EVENT">>] # None
    /\ "APPROVED" \in Decisions
    /\ event[e] # None
    /\ event[e].target # None
    /\ ~InApproval(e)

\* The extracted effective day, or the one an EDIT puts in its place.
EffectiveDates(e) == {event[e].date} \cup EditDates

Issued == {v \in VersionId : version[v] # None \/ index[v] # None}
            \cup {txn[w].new : w \in {u \in Worker : Approving(u)}}

ApproveRead(w, e) ==
    /\ Idle(w)
    /\ MayApprove(e)
    /\ \E old \in Latest(event[e].target), new \in NewId \ Issued,
          d \in EffectiveDates(e) :
         txn' = [txn EXCEPT ![w] = [event |-> e, old |-> old, new |-> new,
                                    date |-> d, closes |-> version[old].to # d,
                                    step |-> "read"]]
    /\ UNCHANGED <<db, index, clean>>

\* The patch does not apply (no or several matches of old_text): the task is
\* decided and the change event stays as it was.
ApproveUnpatchable(e) ==
    /\ MayApprove(e)
    /\ Latest(event[e].target) # {}
    /\ task' = [task EXCEPT ![<<e, "CHANGE_EVENT">>] = "APPROVED"]
    /\ UNCHANGED <<doc, event, version, index, txn, clean>>

ApproveFlush(w) ==
    /\ Approving(w)
    /\ txn[w].step = "read"
    /\ ~Blocked(w)
    /\ txn' = [txn EXCEPT ![w].step = "flushed"]
    /\ UNCHANGED <<db, index, clean>>

\* The chunks of the two versions, as they are (re-)indexed.
OldWindow(w) == [prov |-> version[txn[w].old].prov,
                 from |-> version[txn[w].old].from, to |-> txn[w].date]

NewWindow(w) == [prov |-> version[txn[w].old].prov,
                 from |-> txn[w].date, to |-> Open]

ApproveIndexOld(w) ==
    /\ Approving(w)
    /\ txn[w].step = "flushed"
    /\ index' = [index EXCEPT ![txn[w].old] = OldWindow(w)]
    /\ txn' = [txn EXCEPT ![w].step = "closed"]
    /\ UNCHANGED <<db, clean>>

ApproveIndexNew(w) ==
    /\ Approving(w)
    /\ txn[w].step = "closed"
    /\ index' = [index EXCEPT ![txn[w].new] = NewWindow(w)]
    /\ txn' = [txn EXCEPT ![w].step = "opened"]
    /\ UNCHANGED <<db, clean>>

\* The new row, with only the text of this amendment.
SuccessorOfBase(v1, e, d) ==
    [status |-> "APPROVED", prov |-> version[v1].prov, from |-> d, to |-> Open,
     pred |-> v1, edits |-> {e}]

Successor(v1, e, d) ==
    [status |-> "APPROVED", prov |-> version[v1].prov, from |-> d, to |-> Open,
     pred |-> v1, edits |-> version[v1].edits \cup {e}]

ApproveCommit(w) ==
    /\ Approving(w)
    /\ txn[w].step = "opened"
    /\ LET e == txn[w].event  v1 == txn[w].old
           v2 == txn[w].new   d == txn[w].date
       IN /\ version' = [version EXCEPT
                           ![v1].to = IF txn[w].closes THEN d ELSE @,
                           ![v2] = Successor(v1, e, d)]
          /\ event' = [event EXCEPT ![e].status = "APPROVED", ![e].date = d,
                                    ![e].before = v1, ![e].after = v2]
          /\ task' = [task EXCEPT ![<<e, "CHANGE_EVENT">>] = "APPROVED"]
    /\ Finish(w)
    /\ UNCHANGED <<doc, index, clean>>

-----------------------------------------------------------------------------
(* Soft delete (delete_document), failures, and the next-state relation       *)

DeleteBegin(w, d) ==
    /\ Idle(w)
    /\ doc[d] # None
    /\ doc[d].processing # "INDEXED"
    /\ txn' = [txn EXCEPT ![w] = [deleting |-> d]]
    /\ UNCHANGED <<db, index, clean>>

DeleteCommit(w) ==
    /\ txn[w] \in Deletion
    /\ doc' = [doc EXCEPT ![txn[w].deleting].approval = "ARCHIVED"]
    /\ Finish(w)
    /\ UNCHANGED <<task, event, version, index, clean>>

\* An exception, a lost connection or the end of the process: the transaction is
\* rolled back, what it wrote to the index stays.
RollBack(w) ==
    /\ Finish(w)
    /\ clean' = FALSE
    /\ UNCHANGED <<db, index>>

Abort(w) ==
    /\ "transaction" \in Failures
    /\ ~Idle(w)
    /\ RollBack(w)

\* The database rolls back one of several transactions that wait for each other.
DeadlockVictim(w) ==
    /\ \E S \in SUBSET Worker :
         /\ w \in S
         /\ \A u \in S : \E x, y \in S : Blocks(x, u) /\ Blocks(u, y)
    /\ RollBack(w)

Request(w) ==
    \/ \E d \in Doc : ActivateBegin(w, d) \/ DeleteBegin(w, d)
    \/ \E e \in Event : ApproveRead(w, e)

Proceed(w) ==
    \/ \E p \in Provision : ActivateRead(w, p)
    \/ ActivateIndex(w) \/ ActivateIndexFails(w) \/ ActivateCommit(w)
    \/ ApproveFlush(w) \/ ApproveIndexOld(w) \/ ApproveIndexNew(w)
    \/ ApproveCommit(w)
    \/ DeleteCommit(w)

Next ==
    \/ \E d \in Doc : Upload(d)
    \/ \E t \in Task, answer \in Decisions : Decide(t, answer)
    \/ \E e \in Event : ApproveUnpatchable(e)
    \/ \E w \in Worker : Request(w) \/ Proceed(w) \/ Abort(w)
                         \/ DeadlockVictim(w)

Spec == Init /\ [][Next]_vars

\* A worker runs its request to the end; the lock queue of the database is
\* first come first served and its deadlock detector does run.
Fairness == \A w \in Worker : SF_vars(Proceed(w)) /\ WF_vars(DeadlockVictim(w))

FairSpec == Spec /\ Fairness

-----------------------------------------------------------------------------
(* Correctness *)

\* What is published, as Timeline sees it.
law == [v \in VersionId |->
          IF Approved(v) THEN [prov |-> version[v].prov, from |-> version[v].from,
                               to |-> version[v].to, pred |-> version[v].pred]
          ELSE None]
TL == INSTANCE Timeline

\* The database, through all the requests that overlap on it, keeps the promise
\* of Timeline: a request either publishes base versions or replaces one
\* published version, or changes nothing that is published.
ImplementsTimeline == TL!Spec

\* A document is indexed, and a version approved, only after every critical
\* review of the document that holds it was decided, however decisions,
\* deletions and two activations of the document overlap.
GateHolds ==
    /\ \A d \in Doc : doc[d] # None /\ doc[d].processing = "INDEXED"
                        => \A t \in CriticalTasks(d) : task[t] # "PENDING"
    /\ \A v \in VersionId : Approved(v)
                        => LET d == DocOf[version[v].prov] IN
                             doc[d] # None /\ doc[d].processing = "INDEXED"

OutOfSync(v) == doc[DocOf[version[v].prov]].unsynced # {}

\* An approved version is in the index, or its document shows that the index
\* write is pending (INDEX_SYNC_PENDING): no approval is lost to search without a
\* trace, also when two activations of a document fail on different versions.
IndexedOrFlagged ==
    \A v \in VersionId : Approved(v) => index[v] # None \/ OutOfSync(v)

Writing(w, v) ==
    \/ Activating(w) /\ v \in txn[w].marked
    \/ Approving(w) /\ v = txn[w].new

\* While no transaction has failed, a chunk belongs to an approved version or
\* to one that a request in flight is approving.
IndexAccounted ==
    clean => \A v \in VersionId : index[v] # None =>
                     Approved(v) \/ \E w \in Worker : Writing(w, v)

Searchable(v, t) == /\ index[v] # None
                    /\ index[v].from <= t
                    /\ t < index[v].to

\* Two amendments were made to one text of v, each unaware of the other.
SupersededTwice(v) ==
    \E m, n \in VersionId : /\ m # n /\ Approved(m) /\ Approved(n)
                            /\ version[m].pred = v /\ version[n].pred = v

\* While no transaction has failed and none is in flight, what is in force by
\* the database is found by a search for that day, or flagged, unless it was
\* superseded twice: re-indexing by overlapping requests leaves no window narrower
\* than the database's.  (An approval that finds the end of the old version where it
\* wants it takes no lock, and may write that end to the index after another approval
\* has moved it.)
NothingHidden ==
    clean /\ (\A w \in Worker : Idle(w)) =>
        \A v \in VersionId, t \in Date : TL!InForce(v, t) =>
            Searchable(v, t) \/ OutOfSync(v) \/ SupersededTwice(v)

\* If the amendments of a provision were orderly, the version that is open holds
\* the edits of every amendment of it that was approved.
NoLostEdit ==
    \A e \in Event :
        /\ event[e] # None
        /\ event[e].status = "APPROVED"
        /\ TL!Orderly(event[e].target)
        => \A v \in TL!Versions(event[e].target) :
             version[v].to = Open => e \in version[v].edits

\* Every request ends, though requests wait for each other's row locks and two
\* activations of a document may take them in opposite orders.
RequestsEnd == \A w \in Worker : ~Idle(w) ~> Idle(w)

-----------------------------------------------------------------------------
(* What the documentation says of the knowledge base, and the code does not do *)

\* gate.py: every activation path goes through the gate.  The approval of a
\* change event does not: it publishes what an amending document says while the
\* injection or parsing review of that document is open.
GateCoversAmendments ==
    \A e \in Event : event[e] # None /\ event[e].status = "APPROVED"
        => \A t \in CriticalTasks(AmendingDoc[e]) : task[t] # "PENDING"
=============================================================================
