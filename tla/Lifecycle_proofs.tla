-------------------------- MODULE Lifecycle_proofs --------------------------
(***************************************************************************)
(* Proofs about Lifecycle: its types, the activation gate, the account of  *)
(* failed index writes, that it implements Timeline, what the index holds, *)
(* and that orderly amendments keep each other's edits.                    *)
(***************************************************************************)
EXTENDS Lifecycle, TLAPS

-----------------------------------------------------------------------------
(* Types *)

\* The three kinds of request are told apart by their fields.
LEMMA Kinds ==
    /\ Approval \cap Activation = {}
    /\ Approval \cap Deletion = {}
    /\ Activation \cap Deletion = {}
    /\ None \notin Approval \cup Activation \cup Deletion
<1>1. \A x \in Approval : "event" \in DOMAIN x
  BY DEF Approval
<1>2. \A x \in Activation : "event" \notin DOMAIN x /\ "todo" \in DOMAIN x
  BY DEF Activation
<1>3. \A x \in Deletion : "event" \notin DOMAIN x /\ "todo" \notin DOMAIN x
  BY DEF Deletion
<1> QED
  BY <1>1, <1>2, <1>3, RowsAssumption

Requests == Approval \cup Activation \cup Deletion \cup {None}

\* An upload stores rows of the right shape.
LEMMA UploadType == ASSUME TypeOK, NEW d \in Doc, Upload(d) PROVE TypeOK'
<1> USE DEF TypeOK
<1>1. PICK target \in [EventsOf(d) -> Provision \cup {None}],
           missed \in SUBSET EventsOf(d) :
        /\ event' = [e \in Event |->
                       IF e \in EventsOf(d) THEN NewEvent(e, target[e])
                                            ELSE event[e]]
        /\ task' \in [Task -> {"PENDING", None} \cup Answer]
  BY DEF Upload
<1>2. event' \in [Event -> EventRow \cup {None}]
  <2>1. \A e \in Event : EffectiveDate[e] \in Date
    BY ConfigAssumption
  <2>2. \A e \in EventsOf(d) : NewEvent(e, target[e]) \in EventRow
    BY <2>1 DEF NewEvent, EventRow, EventsOf
  <2> QED
    BY <1>1, <2>2
<1>3. version' \in [VersionId -> VersionRow \cup {None}]
  <2>1. \A p \in Provision : ParsedVersion(p) \in VersionRow
    BY ConfigAssumption DEF ParsedVersion, VersionRow
  <2> QED
    BY <2>1 DEF Upload, ProvisionsOf
<1>4. doc' \in [Doc -> DocRow \cup {None}]
  <2>1. [processing |-> "PARSED", approval |-> "PENDING", unsynced |-> {}] \in DocRow
    BY DEF DocRow
  <2> QED
    BY <2>1 DEF Upload
<1> QED
  BY <1>1, <1>2, <1>3, <1>4 DEF Upload

\* An answer is one of the two a task may have.
LEMMA DecideType ==
    ASSUME TypeOK, NEW t \in Task, NEW answer \in Decisions, Decide(t, answer)
    PROVE  TypeOK'
  BY ConfigAssumption DEF TypeOK, Decide

\* An amendment that does not apply only marks its task.
LEMMA UnpatchableType ==
    ASSUME TypeOK, NEW e \in Event, ApproveUnpatchable(e) PROVE TypeOK'
  BY DEF TypeOK, ApproveUnpatchable, Answer

\* A request that begins is well formed: an activation, an approval on a
\* published version and a fresh id, or a deletion.
LEMMA RequestType == ASSUME TypeOK, NEW w \in Worker, Request(w) PROVE TypeOK'
<1> USE DEF TypeOK
<1>1. ASSUME NEW d \in Doc, ActivateBegin(w, d) PROVE TypeOK'
  <2>1. [doc |-> d, todo |-> ProvisionsOf(d), current |-> None, marked |-> {},
         flushed |-> {}, failed |-> {}] \in Activation
    BY DEF Activation, ProvisionsOf
  <2> QED
    BY <1>1, <2>1 DEF ActivateBegin, db
<1>2. ASSUME NEW d \in Doc, DeleteBegin(w, d) PROVE TypeOK'
  <2>1. [deleting |-> d] \in Deletion
    BY DEF Deletion
  <2> QED
    BY <1>2, <2>1 DEF DeleteBegin, db
<1>3. ASSUME NEW e \in Event, ApproveRead(w, e) PROVE TypeOK'
  <2>1. PICK old \in Latest(event[e].target), new \in NewId \ Issued,
             d \in EffectiveDates(e) :
          txn' = [txn EXCEPT ![w] = [event |-> e, old |-> old, new |-> new,
                                     date |-> d, closes |-> version[old].to # d,
                                     step |-> "read"]]
    BY <1>3 DEF ApproveRead
  <2>2. event[e] \in EventRow
    BY <1>3 DEF ApproveRead, MayApprove
  <2>3. d \in Date
    BY <2>2, ConfigAssumption DEF EffectiveDates, EventRow
  <2>4. [event |-> e, old |-> old, new |-> new, date |-> d,
         closes |-> version[old].to # d, step |-> "read"] \in Approval
    BY <2>3 DEF Approval, Latest
  <2> QED
    BY <1>3, <2>1, <2>4 DEF ApproveRead, db
<1> QED
  BY <1>1, <1>2, <1>3 DEF Request

\* What the steps of an activation leave of the request.
LEMMA ActivationTypes ==
    ASSUME NEW t \in Activation, NEW p \in Provision
    PROVE  /\ ReadOf(t, p) \in Activation
           /\ [t EXCEPT !.current = None] \in Activation
           /\ t.current # None => FailureOf(t) \in Activation
  BY DEF Activation, ReadOf, FailureOf

\* An activation indexes a chunk of the right shape.
LEMMA IndexCurrentType ==
    ASSUME TypeOK, NEW w \in Worker, Activating(w), txn[w].current # None,
           IndexCurrent(w)
    PROVE  index' \in [VersionId -> Chunk \cup {None}]
<1>1. txn[w].current \in Provision
  BY DEF Activating, Activation
<1>2. [prov |-> txn[w].current, from |-> FirstDate[txn[w].current], to |-> Open]
        \in Chunk
  BY <1>1, ConfigAssumption DEF Chunk
<1> QED
  BY <1>1, <1>2 DEF TypeOK, IndexCurrent, VersionId

\* The steps of an activation before its commit keep the types.
LEMMA ActivationStepType ==
    ASSUME TypeOK, NEW w \in Worker,
           \/ \E p \in Provision : ActivateRead(w, p)
           \/ ActivateIndex(w) \/ ActivateIndexFails(w)
    PROVE  TypeOK'
<1> USE DEF TypeOK
<1>1. ASSUME NEW p \in Provision, ActivateRead(w, p) PROVE TypeOK'
  <2>1. ReadOf(txn[w], p) \in Activation
    BY <1>1, ActivationTypes DEF ActivateRead, Activating
  <2> QED
    BY <1>1, <2>1 DEF ActivateRead, db
<1>2. CASE ActivateIndex(w)
  <2>1. [txn[w] EXCEPT !.current = None] \in Activation
    BY <1>2 DEF ActivateIndex, Activating, Activation
  <2> QED
    BY <1>2, <2>1, IndexCurrentType DEF ActivateIndex, db
<1>3. CASE ActivateIndexFails(w)
  <2>1. FailureOf(txn[w]) \in Activation
    BY <1>3 DEF ActivateIndexFails, Activating, Activation, FailureOf
  <2> QED
    BY <1>3, <2>1, IndexCurrentType DEF ActivateIndexFails, db
<1> QED
  BY <1>1, <1>2, <1>3

\* The steps of an approval before its commit keep the types.
LEMMA ApprovalStepType ==
    ASSUME TypeOK, NEW w \in Worker, Approving(w) => version[txn[w].old] # None,
           ApproveFlush(w) \/ ApproveIndexOld(w) \/ ApproveIndexNew(w)
    PROVE  TypeOK'
<1> USE DEF TypeOK
<1>1. txn[w] \in Approval /\ version[txn[w].old] \in VersionRow
  BY DEF ApproveFlush, ApproveIndexOld, ApproveIndexNew, Approving, Approval
<1>2. \A s \in {"flushed", "closed", "opened"} :
        [txn[w] EXCEPT !.step = s] \in Approval
  BY <1>1 DEF Approval
<1>3. txn' \in [Worker -> Requests]
  BY <1>2 DEF ApproveFlush, ApproveIndexOld, ApproveIndexNew, Requests
<1>4. /\ OldWindow(w) \in Chunk /\ NewWindow(w) \in Chunk
      /\ txn[w].old \in VersionId /\ txn[w].new \in VersionId
  BY <1>1 DEF OldWindow, NewWindow, Chunk, VersionRow, Approval, VersionId
<1>5. index' \in [VersionId -> Chunk \cup {None}]
  BY <1>4 DEF ApproveFlush, ApproveIndexOld, ApproveIndexNew
<1> QED
  BY <1>3, <1>5
  DEF ApproveFlush, ApproveIndexOld, ApproveIndexNew, db, Requests

\* A rollback ends the request and touches no row.
LEMMA RollBackType ==
    ASSUME TypeOK, NEW w \in Worker, Abort(w) \/ DeadlockVictim(w)
    PROVE  TypeOK'
  BY DEF TypeOK, Abort, DeadlockVictim, RollBack, Finish, db

-----------------------------------------------------------------------------
(* The inductive invariant *)

\* A document's provisions are stored with it, one version each; a version that
\* is not approved is as it was parsed, and one of a fresh id is approved.
Records ==
    /\ \A p \in Provision :
         /\ version[p] # None <=> doc[DocOf[p]] # None
         /\ version[p] # None => version[p].prov = p
         /\ version[p] # None /\ ~Approved(p) => version[p] = ParsedVersion(p)
    /\ \A v \in NewId : version[v] # None => Approved(v)

Reviewed(d) == \A t \in CriticalTasks(d) : task[t] # "PENDING"

\* A request works on rows that exist: an activation on a reviewed document, an
\* approval on an approved version and a fresh id of its own.
ActivationSound(w) ==
    Activating(w) =>
        /\ doc[txn[w].doc] # None
        /\ Reviewed(txn[w].doc)
        /\ txn[w].todo \cup txn[w].marked \subseteq ProvisionsOf(txn[w].doc)
        /\ txn[w].current # None => txn[w].current \in txn[w].marked
        /\ \A p \in txn[w].marked :
             p = txn[w].current \/ index[p] # None \/ p \in txn[w].failed

ApprovalSound(w) ==
    Approving(w) =>
        /\ event[txn[w].event] # None
        /\ Approved(txn[w].old)
        /\ ~txn[w].closes => version[txn[w].old].to # Open
        /\ version[txn[w].new] = None
        /\ txn[w].step = "opened" => index[txn[w].new] # None

DeletionSound(w) == txn[w] \in Deletion => doc[txn[w].deleting] # None

FreshIds ==
    \A w, u \in Worker :
        Approving(w) /\ Approving(u) /\ w # u => txn[w].new # txn[u].new

InFlight ==
    /\ \A w \in Worker : ActivationSound(w) /\ ApprovalSound(w) /\ DeletionSound(w)
    /\ FreshIds

Sound == TypeOK /\ Records /\ InFlight /\ GateHolds /\ IndexedOrFlagged

\* The commit of an activation writes rows of the right shape.
LEMMA ActivateCommitType ==
    ASSUME Sound, NEW w \in Worker, ActivateCommit(w) PROVE TypeOK'
<1> USE DEF TypeOK, Sound
<1>1. txn[w] \in Activation
  BY DEF ActivateCommit, Activating
<1>2. \A v \in Approves(w) : version[v] \in VersionRow
  BY <1>1 DEF Approves, InFlight, ActivationSound, Activating, Records,
              ProvisionsOf, VersionId
<1>3. \A v \in Approves(w) : [version[v] EXCEPT !.status = "APPROVED"] \in VersionRow
  BY <1>2 DEF VersionRow
<1>4. version' \in [VersionId -> VersionRow \cup {None}]
  BY <1>3 DEF ActivateCommit
<1>5. doc[txn[w].doc] \in DocRow /\ txn[w].doc \in Doc
  BY <1>1 DEF InFlight, ActivationSound, Activating, Activation
<1>6. Unsynced(w) \in SUBSET VersionId
  BY <1>1, <1>5 DEF Unsynced, Activation, DocRow, VersionId
<1>7. [processing |-> "INDEXED", approval |-> "APPROVED",
       unsynced |-> Unsynced(w)] \in DocRow
  BY <1>6 DEF DocRow
<1> QED
  BY <1>4, <1>7 DEF ActivateCommit, Finish

\* A deletion writes a document row of the right shape.
LEMMA DeleteCommitType ==
    ASSUME Sound, NEW w \in Worker, DeleteCommit(w) PROVE TypeOK'
<1> USE DEF TypeOK, Sound
<1>1. txn[w].deleting \in Doc /\ doc[txn[w].deleting] \in DocRow
  BY DEF DeleteCommit, InFlight, DeletionSound, Deletion
<1>2. [doc[txn[w].deleting] EXCEPT !.approval = "ARCHIVED"] \in DocRow
  BY <1>1 DEF DocRow
<1> QED
  BY <1>1, <1>2 DEF DeleteCommit, Finish

\* What the commit of an approval writes.
LEMMA ApproveCommitRows ==
    ASSUME Sound, NEW w \in Worker, ApproveCommit(w)
    PROVE  /\ txn[w] \in Approval
           /\ txn[w].old \in VersionId /\ txn[w].new \in VersionId
           /\ txn[w].old # txn[w].new /\ txn[w].date \in Date
           /\ txn[w].event \in Event
           /\ version[txn[w].old] \in VersionRow /\ Approved(txn[w].old)
           /\ version[txn[w].new] = None
           /\ version'[txn[w].old].status = "APPROVED"
           /\ version'[txn[w].old].prov = version[txn[w].old].prov
           /\ version'[txn[w].old].from = version[txn[w].old].from
           /\ version'[txn[w].old].pred = version[txn[w].old].pred
           /\ version'[txn[w].old].edits = version[txn[w].old].edits
           /\ version'[txn[w].old].to = IF txn[w].closes THEN txn[w].date
                                        ELSE version[txn[w].old].to
           /\ version'[txn[w].new].status = "APPROVED"
           /\ version'[txn[w].new].prov = version[txn[w].old].prov
           /\ version'[txn[w].new].from = txn[w].date
           /\ version'[txn[w].new].to = Open
           /\ version'[txn[w].new].pred = txn[w].old
           /\ version'[txn[w].new].edits = version[txn[w].old].edits \cup {txn[w].event}
           /\ txn[w].closes \in BOOLEAN
           /\ \A v \in VersionId \ {txn[w].old, txn[w].new} :
                version'[v] = version[v]
           /\ version'[txn[w].old] \in VersionRow /\ version'[txn[w].old] # None
           /\ version'[txn[w].new] \in VersionRow /\ version'[txn[w].new] # None
<1> USE DEF TypeOK, Sound
<1>1. /\ txn[w] \in Approval
      /\ txn[w].old \in VersionId /\ txn[w].new \in VersionId
      /\ txn[w].date \in Date /\ txn[w].event \in Event
      /\ txn[w].closes \in BOOLEAN
  BY DEF ApproveCommit, Approving, Approval, VersionId
<1>2. /\ Approved(txn[w].old) /\ version[txn[w].new] = None
      /\ txn[w].old # txn[w].new
      /\ version[txn[w].old] \in VersionRow
  BY <1>1 DEF InFlight, ApprovalSound, Approving, Approved
<1> DEFINE row == [version[txn[w].old] EXCEPT
                     !.to = IF txn[w].closes THEN txn[w].date ELSE @]
           next == Successor(txn[w].old, txn[w].event, txn[w].date)
<1>3. /\ row \in VersionRow
      /\ row.prov = version[txn[w].old].prov /\ row.from = version[txn[w].old].from
      /\ row.pred = version[txn[w].old].pred
      /\ row.edits = version[txn[w].old].edits /\ row.status = "APPROVED"
      /\ row.to = IF txn[w].closes THEN txn[w].date ELSE version[txn[w].old].to
  BY <1>1, <1>2 DEF VersionRow, Approved
<1>4. /\ next \in VersionRow
      /\ next.status = "APPROVED" /\ next.prov = version[txn[w].old].prov
      /\ next.from = txn[w].date /\ next.to = Open /\ next.pred = txn[w].old
      /\ next.edits = version[txn[w].old].edits \cup {txn[w].event}
  BY <1>1, <1>2 DEF VersionRow, Successor
<1>5. /\ version'[txn[w].old] = row /\ version'[txn[w].new] = next
      /\ \A v \in VersionId \ {txn[w].old, txn[w].new} : version'[v] = version[v]
  BY <1>1, <1>2 DEF ApproveCommit
<1> HIDE DEF row, next
<1> QED
  BY <1>1, <1>2, <1>3, <1>4, <1>5, RowsAssumption

\* The commit of an approval writes rows of the right shape.
LEMMA ApproveCommitType ==
    ASSUME Sound, NEW w \in Worker, ApproveCommit(w) PROVE TypeOK'
<1>1. version' \in [VersionId -> VersionRow \cup {None}]
  <2>1. \A v \in VersionId : version'[v] \in VersionRow \cup {None}
    BY ApproveCommitRows DEF TypeOK, Sound
  <2> QED
    BY <2>1 DEF ApproveCommit, TypeOK, Sound
<1>2. event[txn[w].event] \in EventRow
  BY ApproveCommitRows
  DEF TypeOK, Sound, InFlight, ApprovalSound, Approving
<1>3. [[[[event[txn[w].event] EXCEPT !.status = "APPROVED"]
                              EXCEPT !.date = txn[w].date]
                              EXCEPT !.before = txn[w].old]
                              EXCEPT !.after = txn[w].new] \in EventRow
  BY <1>2, ApproveCommitRows DEF EventRow
<1>4. event' \in [Event -> EventRow \cup {None}]
  BY <1>3, ApproveCommitRows DEF ApproveCommit, TypeOK, Sound
<1> QED
  BY <1>1, <1>4 DEF ApproveCommit, Finish, TypeOK, Sound, Answer

\* Every step keeps the types.
LEMMA StepType == ASSUME Sound, Next PROVE TypeOK'
<1>1. TypeOK /\ \A w \in Worker : Approving(w) => version[txn[w].old] # None
  BY DEF Sound, InFlight, ApprovalSound, Approved
<1>2. ASSUME NEW w \in Worker, Proceed(w) PROVE TypeOK'
  BY <1>1, <1>2, ActivationStepType, ActivateCommitType, ApprovalStepType,
     ApproveCommitType, DeleteCommitType
  DEF Proceed
<1> QED
  BY <1>1, <1>2, UploadType, DecideType, UnpatchableType, RequestType, RollBackType
  DEF Next

\* What no step takes back.
Kept ==
    /\ \A d \in Doc : doc[d] # None => doc'[d] # None
    /\ \A d \in Doc : doc[d] # None /\ Reviewed(d) => Reviewed(d)'
    /\ \A e \in Event : event[e] # None => event'[e] # None
    /\ \A v \in VersionId : Approved(v) =>
         /\ Approved(v)' /\ version'[v].prov = version[v].prov
         /\ version[v].to # Open => version'[v].to # Open
    /\ \A v \in VersionId : index[v] # None => index'[v] # None

\* An upload adds rows and changes none.
LEMMA UploadKeeps ==
    ASSUME Sound, TypeOK', NEW d \in Doc, Upload(d)
    PROVE  /\ doc[d] = None
           /\ doc'[d] # None /\ doc'[d].processing = "PARSED"
           /\ \A c \in Doc \ {d} : doc'[c] = doc[c]
           /\ \A c \in Doc \ {d} : \A t \in CriticalTasks(c) : task'[t] = task[t]
           /\ \A e \in Event : event[e] # None => event'[e] # None
           /\ \A v \in VersionId : version[v] # None => version'[v] = version[v]
           /\ \A v \in NewId : version'[v] = version[v]
           /\ \A p \in Provision :
                version'[p] = IF DocOf[p] = d THEN ParsedVersion(p) ELSE version[p]
           /\ \A p \in Provision : ParsedVersion(p) # None
<1> USE DEF Sound, TypeOK
<1>1. [processing |-> "PARSED", approval |-> "PENDING", unsynced |-> {}] \in DocRow
  BY DEF DocRow
<1>2. \A p \in Provision : ParsedVersion(p) \in VersionRow
  BY ConfigAssumption DEF ParsedVersion, VersionRow
<1>3. /\ doc[d] = None /\ doc'[d] # None /\ doc'[d].processing = "PARSED"
      /\ \A c \in Doc \ {d} : doc'[c] = doc[c]
  BY <1>1, RowsAssumption DEF Upload
<1>4. PICK target \in [EventsOf(d) -> Provision \cup {None}],
           missed \in SUBSET EventsOf(d) :
        /\ event' = [e \in Event |->
                       IF e \in EventsOf(d) THEN NewEvent(e, target[e])
                                            ELSE event[e]]
        /\ task' = [t \in Task |->
                      IF \/ t = <<d, "PARSING">>
                         \/ t = <<d, "INJECTION">> /\ d \in Suspicious
                         \/ \E e \in EventsOf(d) :
                              \/ t = <<e, "REFERENCE">> /\ e \in missed
                              \/ t = <<e, "CHANGE_EVENT">> /\ target[e] # None
                      THEN "PENDING" ELSE task[t]]
  BY DEF Upload
<1>5. \A c \in Doc \ {d} : \A t \in CriticalTasks(c) : task'[t] = task[t]
  <2> SUFFICES ASSUME NEW c \in Doc \ {d}, NEW t \in CriticalTasks(c)
               PROVE  task'[t] = task[t]
    OBVIOUS
  <2>1. CASE t \in {c} \X {"PARSING", "INJECTION"}
    BY <1>4, <2>1 DEF Task
  <2>2. CASE t \in EventsOf(c) \X {"REFERENCE"}
    BY <1>4, <2>2 DEF Task, EventsOf
  <2> QED
    BY <2>1, <2>2 DEF CriticalTasks
<1>6. \A e \in Event : event[e] # None => event'[e] # None
  <2>1. \A e \in EventsOf(d) : NewEvent(e, target[e]) \in EventRow
    BY ConfigAssumption DEF NewEvent, EventRow, EventsOf
  <2> QED
    BY <1>4, <2>1, RowsAssumption
<1>7. \A p \in Provision :
        version'[p] = IF DocOf[p] = d THEN ParsedVersion(p) ELSE version[p]
  BY DEF Upload, ProvisionsOf, VersionId
<1>8. \A v \in NewId : version'[v] = version[v]
  BY RowsAssumption DEF Upload, ProvisionsOf, VersionId
<1>9. \A v \in VersionId : version[v] # None => version'[v] = version[v]
  BY <1>3, <1>7, <1>8 DEF Records, VersionId
<1> QED
  BY <1>2, <1>3, <1>5, <1>6, <1>7, <1>8, <1>9, RowsAssumption

\* A decision leaves no task pending that was not.
LEMMA DecidedStays ==
    ASSUME \A t \in Task : task'[t] = "PENDING" => task[t] = "PENDING",
           NEW d \in Doc, Reviewed(d)
    PROVE  Reviewed(d)'
  BY DEF Reviewed, CriticalTasks, EventsOf, Task

\* No step reopens the reviews of a document that is stored.
LEMMA TaskStep ==
    ASSUME Sound, Next, \A d \in Doc : ~Upload(d)
    PROVE  \A t \in Task : task'[t] = "PENDING" => task[t] = "PENDING"
<1> USE DEF Sound, TypeOK
<1>1. ASSUME NEW t \in Task, NEW answer \in Decisions, Decide(t, answer)
      PROVE  \A u \in Task : task'[u] = "PENDING" => task[u] = "PENDING"
  BY <1>1, ConfigAssumption DEF Decide, Answer
<1>2. ASSUME NEW e \in Event, ApproveUnpatchable(e)
      PROVE  \A u \in Task : task'[u] = "PENDING" => task[u] = "PENDING"
  BY <1>2 DEF ApproveUnpatchable
<1>3. ASSUME NEW w \in Worker,
             Request(w) \/ Proceed(w) \/ Abort(w) \/ DeadlockVictim(w)
      PROVE  \A u \in Task : task'[u] = "PENDING" => task[u] = "PENDING"
  <2>1. CASE ApproveCommit(w)
    BY <2>1 DEF ApproveCommit
  <2>2. CASE ~ApproveCommit(w)
    <3>1. task' = task
      BY <1>3, <2>2
      DEF Request, Proceed, Abort, DeadlockVictim, RollBack, ActivateBegin,
          ActivateRead, ActivateIndex, ActivateIndexFails, ActivateCommit,
          ApproveRead, ApproveFlush, ApproveIndexOld, ApproveIndexNew,
          DeleteBegin, DeleteCommit, db
    <3> QED
      BY <3>1
  <2> QED
    BY <2>1, <2>2
<1> QED
  BY <1>1, <1>2, <1>3 DEF Next

\* The commit of an activation approves the versions it marked.
LEMMA ActivateCommitRows ==
    ASSUME Sound, NEW w \in Worker, ActivateCommit(w)
    PROVE  /\ txn[w] \in Activation /\ Activating(w)
           /\ txn[w].doc \in Doc /\ doc[txn[w].doc] # None
           /\ txn[w].marked \subseteq ProvisionsOf(txn[w].doc)
           /\ \A p \in txn[w].marked :
                /\ version[p] \in VersionRow
                /\ version'[p] \in VersionRow /\ version'[p] # None
                /\ version'[p].status = "APPROVED"
                /\ version'[p].prov = version[p].prov
                /\ version'[p].from = version[p].from
                /\ version'[p].to = version[p].to
                /\ version'[p].pred = version[p].pred
                /\ version'[p].edits = version[p].edits
           /\ \A v \in VersionId \ txn[w].marked : version'[v] = version[v]
           /\ doc'[txn[w].doc].processing = "INDEXED"
           /\ doc'[txn[w].doc].unsynced = Unsynced(w)
           /\ doc'[txn[w].doc] # None
           /\ \A d \in Doc \ {txn[w].doc} : doc'[d] = doc[d]
<1> USE DEF Sound, TypeOK
<1>1. txn[w] \in Activation /\ Activating(w)
  BY DEF ActivateCommit, Activating
<1>2. /\ txn[w].doc \in Doc /\ doc[txn[w].doc] # None
      /\ txn[w].marked \subseteq ProvisionsOf(txn[w].doc)
  BY <1>1 DEF InFlight, ActivationSound, Activation
<1>3. \A p \in txn[w].marked : version[p] \in VersionRow
  BY <1>2 DEF Records, ProvisionsOf, VersionId
<1>4. \A p \in txn[w].marked :
        version'[p] = [version[p] EXCEPT !.status = "APPROVED"]
  BY <1>2 DEF ActivateCommit, Approves, ProvisionsOf, VersionId
<1>5. ASSUME NEW p \in txn[w].marked
      PROVE  /\ version'[p] \in VersionRow /\ version'[p] # None
             /\ version'[p].status = "APPROVED"
             /\ version'[p].prov = version[p].prov
             /\ version'[p].from = version[p].from
             /\ version'[p].to = version[p].to
             /\ version'[p].pred = version[p].pred
             /\ version'[p].edits = version[p].edits
  <2> DEFINE row == [version[p] EXCEPT !.status = "APPROVED"]
  <2>1. /\ row \in VersionRow /\ row.status = "APPROVED"
        /\ row.prov = version[p].prov /\ row.from = version[p].from
        /\ row.to = version[p].to /\ row.pred = version[p].pred
        /\ row.edits = version[p].edits
    BY <1>3 DEF VersionRow
  <2>2. version'[p] = row
    BY <1>4
  <2> HIDE DEF row
  <2> QED
    BY <2>1, <2>2, RowsAssumption
<1>6. \A v \in VersionId \ txn[w].marked : version'[v] = version[v]
  BY DEF ActivateCommit, Approves
<1>7. doc'[txn[w].doc] = [processing |-> "INDEXED", approval |-> "APPROVED",
                          unsynced |-> Unsynced(w)]
  BY <1>2 DEF ActivateCommit
<1>8. Unsynced(w) \in SUBSET VersionId
  BY <1>1, <1>2 DEF Unsynced, Activation, DocRow, VersionId
<1>9. doc'[txn[w].doc] \in DocRow
  BY <1>7, <1>8 DEF DocRow
<1>10. \A d \in Doc \ {txn[w].doc} : doc'[d] = doc[d]
  BY DEF ActivateCommit
<1> QED
  BY <1>1, <1>2, <1>3, <1>4, <1>5, <1>6, <1>7, <1>9, <1>10, RowsAssumption

\* The commit of an approval unpublishes nothing and reopens no window.
LEMMA ApproveCommitKeeps ==
    ASSUME Sound, NEW w \in Worker, ApproveCommit(w)
    PROVE  /\ \A v \in VersionId : Approved(v) =>
                /\ Approved(v)' /\ version'[v].prov = version[v].prov
                /\ version[v].to # Open => version'[v].to # Open
           /\ \A e \in Event : event[e] # None => event'[e] # None
<1>1. ASSUME NEW v \in VersionId, Approved(v)
      PROVE  /\ Approved(v)' /\ version'[v].prov = version[v].prov
             /\ version[v].to # Open => version'[v].to # Open
  <2>1. CASE v = txn[w].old
    BY <2>1, ApproveCommitRows, DatesAssumption DEF Approved
  <2>2. CASE v # txn[w].old
    <3>1. v # txn[w].new
      BY <1>1, ApproveCommitRows DEF Approved
    <3>2. version'[v] = version[v]
      BY <2>2, <3>1, ApproveCommitRows
    <3> QED
      BY <1>1, <3>2 DEF Approved
  <2> QED
    BY <2>1, <2>2
<1>5. \A e \in Event : event[e] # None => event'[e] # None
  <2>1. event' \in [Event -> EventRow \cup {None}]
    BY ApproveCommitType DEF TypeOK
  <2>2. event[txn[w].event] \in EventRow
    BY ApproveCommitRows
    DEF TypeOK, Sound, InFlight, ApprovalSound, Approving
  <2>3. [[[[event[txn[w].event] EXCEPT !.status = "APPROVED"]
                                EXCEPT !.date = txn[w].date]
                                EXCEPT !.before = txn[w].old]
                                EXCEPT !.after = txn[w].new] \in EventRow
    BY <2>2, ApproveCommitRows DEF EventRow
  <2> QED
    BY <2>3, ApproveCommitRows, RowsAssumption DEF ApproveCommit, TypeOK, Sound
<1> QED
  BY <1>1, <1>5

\* No step takes a chunk out of the index.
LEMMA IndexStep ==
    ASSUME Sound, TypeOK', Next
    PROVE  \A v \in VersionId : index[v] # None => index'[v] # None
<1> USE DEF Sound, TypeOK
<1>1. ASSUME NEW w \in Worker, ActivateIndex(w) \/ ActivateIndexFails(w)
      PROVE  \A v \in VersionId : index[v] # None => index'[v] # None
  <2>1. txn[w].current \in Provision
    BY <1>1 DEF ActivateIndex, ActivateIndexFails, Activating, Activation
  <2>2. [prov |-> txn[w].current, from |-> FirstDate[txn[w].current], to |-> Open]
          \in Chunk
    BY <2>1, ConfigAssumption DEF Chunk
  <2> QED
    BY <1>1, <2>1, <2>2, RowsAssumption
    DEF ActivateIndex, ActivateIndexFails, IndexCurrent, VersionId
<1>2. ASSUME NEW w \in Worker, ApproveIndexOld(w) \/ ApproveIndexNew(w)
      PROVE  \A v \in VersionId : index[v] # None => index'[v] # None
  <2>1. txn[w] \in Approval /\ version[txn[w].old] \in VersionRow
    BY <1>2 DEF ApproveIndexOld, ApproveIndexNew, Approving, Approval, InFlight,
                ApprovalSound, Approved
  <2>2. OldWindow(w) \in Chunk /\ NewWindow(w) \in Chunk
    BY <2>1 DEF OldWindow, NewWindow, Chunk, VersionRow, Approval
  <2> QED
    BY <1>2, <2>1, <2>2, RowsAssumption DEF ApproveIndexOld, ApproveIndexNew
<1>3. CASE \A w \in Worker :
             /\ ~ActivateIndex(w) /\ ~ActivateIndexFails(w)
             /\ ~ApproveIndexOld(w) /\ ~ApproveIndexNew(w)
  <2>1. index' = index
    BY <1>3
    DEF Next, Upload, Decide, ApproveUnpatchable, Request, Proceed, Abort,
        DeadlockVictim, RollBack, ActivateBegin, ActivateRead, ActivateCommit,
        ApproveRead, ApproveFlush, ApproveCommit, DeleteBegin, DeleteCommit
  <2> QED
    BY <2>1
<1> QED
  BY <1>1, <1>2, <1>3

\* No step takes back a document, a review, an event, an approval or a chunk.
LEMMA KeptStep == ASSUME Sound, TypeOK', Next PROVE Kept
<1>1. \A v \in VersionId : index[v] # None => index'[v] # None
  BY IndexStep
<1>2. ASSUME NEW d \in Doc, Upload(d) PROVE Kept
  <2>1. \A c \in Doc : doc[c] # None => c # d /\ doc'[c] # None
    BY <1>2, UploadKeeps
  <2>2. \A c \in Doc : doc[c] # None /\ Reviewed(c) => Reviewed(c)'
    BY <1>2, <2>1, UploadKeeps DEF Reviewed, CriticalTasks, EventsOf
  <2> QED
    BY <1>1, <1>2, <2>1, <2>2, UploadKeeps DEF Kept, Approved
<1>3. CASE \A d \in Doc : ~Upload(d)
  <2>1. \A d \in Doc : Reviewed(d) => Reviewed(d)'
    BY <1>3, TaskStep, DecidedStays
  <2>2. ASSUME NEW w \in Worker, ActivateCommit(w) PROVE Kept
    <3>1. \A v \in VersionId : Approved(v) =>
            /\ Approved(v)' /\ version'[v].prov = version[v].prov
            /\ version'[v].to = version[v].to
      BY <2>2, ActivateCommitRows DEF Approved
    <3>2. event' = event
      BY <2>2 DEF ActivateCommit
    <3> QED
      BY <1>1, <2>1, <2>2, <3>1, <3>2, ActivateCommitRows DEF Kept
  <2>3. ASSUME NEW w \in Worker, ApproveCommit(w) PROVE Kept
    <3>1. doc' = doc
      BY <2>3 DEF ApproveCommit
    <3> QED
      BY <1>1, <2>1, <2>3, <3>1, ApproveCommitKeeps DEF Kept
  <2>4. ASSUME NEW w \in Worker, DeleteCommit(w) PROVE Kept
    <3>1. \A d \in Doc : doc[d] # None => doc'[d] # None
      <4>1. txn[w].deleting \in Doc /\ doc[txn[w].deleting] \in DocRow
        BY <2>4 DEF DeleteCommit, Sound, TypeOK, InFlight, DeletionSound, Deletion
      <4>2. [doc[txn[w].deleting] EXCEPT !.approval = "ARCHIVED"] \in DocRow
        BY <4>1 DEF DocRow
      <4> QED
        BY <2>4, <4>1, <4>2, RowsAssumption DEF DeleteCommit, Sound, TypeOK
    <3>2. version' = version /\ event' = event
      BY <2>4 DEF DeleteCommit
    <3> QED
      BY <1>1, <2>1, <3>1, <3>2 DEF Kept, Approved
  <2>5. CASE \A w \in Worker :
               ~ActivateCommit(w) /\ ~ApproveCommit(w) /\ ~DeleteCommit(w)
    <3>1. doc' = doc /\ version' = version /\ event' = event
      BY <1>3, <2>5
      DEF Next, Decide, ApproveUnpatchable, Request, Proceed, Abort,
          DeadlockVictim, RollBack, ActivateBegin, ActivateRead, ActivateIndex,
          ActivateIndexFails, ApproveRead, ApproveFlush, ApproveIndexOld,
          ApproveIndexNew, DeleteBegin, db
    <3> QED
      BY <1>1, <2>1, <3>1 DEF Kept, Approved
  <2> QED
    BY <2>2, <2>3, <2>4, <2>5
<1> QED
  BY <1>2, <1>3

\* A request that a step does not touch stays sound.
LEMMA OthersSound ==
    ASSUME Sound, Kept, NEW u \in Worker, txn'[u] = txn[u],
           Approving(u) => version'[txn[u].new] = None
    PROVE  ActivationSound(u)' /\ ApprovalSound(u)' /\ DeletionSound(u)'
<1>1. ActivationSound(u) /\ ApprovalSound(u) /\ DeletionSound(u)
  BY DEF Sound, InFlight
<1>2. ActivationSound(u)'
  <2> SUFFICES ASSUME Activating(u)
               PROVE  /\ doc'[txn[u].doc] # None
                      /\ Reviewed(txn[u].doc)'
                      /\ \A p \in txn[u].marked :
                           index[p] # None => index'[p] # None
    BY <1>1 DEF ActivationSound, Activating, Reviewed
  <2>1. txn[u].doc \in Doc /\ txn[u].marked \subseteq VersionId
    BY DEF Activating, Activation, VersionId
  <2> QED
    BY <1>1, <2>1 DEF ActivationSound, Kept
<1>3. ApprovalSound(u)'
  <2> SUFFICES ASSUME Approving(u)
               PROVE  /\ event'[txn[u].event] # None
                      /\ version'[txn[u].old] # None
                      /\ version'[txn[u].old].status = "APPROVED"
                      /\ ~txn[u].closes => version'[txn[u].old].to # Open
                      /\ txn[u].step = "opened" => index'[txn[u].new] # None
    BY DEF ApprovalSound, Approving, Approved
  <2>1. /\ txn[u].event \in Event /\ txn[u].old \in VersionId
        /\ txn[u].new \in VersionId
    BY DEF Approving, Approval, VersionId
  <2> QED
    BY <1>1, <2>1 DEF ApprovalSound, Kept, Approved
<1>4. DeletionSound(u)'
  BY <1>1 DEF DeletionSound, Deletion, Kept
<1> QED
  BY <1>2, <1>3, <1>4

\* The row of a fresh id appears only at the commit of the approval that drew it.
LEMMA FreshStaysFresh ==
    ASSUME Sound, TypeOK', Next, NEW u \in Worker, Approving(u), txn'[u] = txn[u]
    PROVE  version'[txn[u].new] = None
<1>1. txn[u].new \in NewId /\ version[txn[u].new] = None
  BY DEF Sound, InFlight, ApprovalSound, Approving, Approval
<1>2. ASSUME NEW d \in Doc, Upload(d) PROVE version'[txn[u].new] = None
  BY <1>1, <1>2, UploadKeeps
<1>3. ASSUME NEW w \in Worker, ActivateCommit(w) PROVE version'[txn[u].new] = None
  BY <1>1, <1>3, ActivateCommitRows, RowsAssumption DEF ProvisionsOf, VersionId
<1>4. ASSUME NEW w \in Worker, ApproveCommit(w) PROVE version'[txn[u].new] = None
  <2>1. w # u
    BY <1>4, ApproveCommitRows, Kinds DEF ApproveCommit, Finish, Sound, TypeOK, Approving
  <2>2. txn[w].new # txn[u].new
    BY <1>4, <2>1 DEF ApproveCommit, Sound, InFlight, FreshIds
  <2>3. txn[w].old # txn[u].new
    BY <1>1, <1>4, ApproveCommitRows DEF Approved
  <2> QED
    BY <1>1, <1>4, <2>2, <2>3, ApproveCommitRows DEF VersionId
<1>5. CASE /\ \A d \in Doc : ~Upload(d)
           /\ \A w \in Worker : ~ActivateCommit(w) /\ ~ApproveCommit(w)
  <2>1. version' = version
    BY <1>5
    DEF Next, Decide, ApproveUnpatchable, Request, Proceed, Abort, DeadlockVictim,
        RollBack, ActivateBegin, ActivateRead, ActivateIndex, ActivateIndexFails,
        ApproveRead, ApproveFlush, ApproveIndexOld, ApproveIndexNew, DeleteBegin,
        DeleteCommit, db
  <2> QED
    BY <1>1, <2>1
<1> QED
  BY <1>2, <1>3, <1>4, <1>5

\* A worker that becomes idle leaves nothing to be sound about.
LEMMA IdleSound ==
    ASSUME NEW w \in Worker, txn'[w] = None
    PROVE  /\ ActivationSound(w)' /\ ApprovalSound(w)' /\ DeletionSound(w)'
           /\ ~Approving(w)'
  BY Kinds
  DEF ActivationSound, ApprovalSound, DeletionSound, Activating, Approving

\* The requests of the other workers, and the ids they drew.
LEMMA OneMoves ==
    ASSUME Sound, TypeOK', Next, NEW w \in Worker,
           \A u \in Worker \ {w} : txn'[u] = txn[u],
           ActivationSound(w)', ApprovalSound(w)', DeletionSound(w)',
           \A u \in Worker \ {w} :
              Approving(w)' /\ Approving(u) => txn'[w].new # txn[u].new
    PROVE  InFlight'
<1>1. \A u \in Worker \ {w} :
         ActivationSound(u)' /\ ApprovalSound(u)' /\ DeletionSound(u)'
  BY KeptStep, OthersSound, FreshStaysFresh
<1>2. FreshIds'
  BY DEF FreshIds, Approving, Sound, InFlight
<1> QED
  BY <1>1, <1>2 DEF InFlight

\* A request that begins works on rows that exist.
LEMMA InFlightRequest ==
    ASSUME Sound, TypeOK', Next, NEW w \in Worker, Request(w) PROVE InFlight'
<1> USE DEF Sound, TypeOK
<1>1. ASSUME NEW d \in Doc, ActivateBegin(w, d) PROVE InFlight'
  <2> DEFINE t == [doc |-> d, todo |-> ProvisionsOf(d), current |-> None,
                   marked |-> {}, flushed |-> {}, failed |-> {}]
  <2>1. /\ t \in Activation /\ t \notin Approval /\ t \notin Deletion
        /\ t.doc = d /\ t.todo = ProvisionsOf(d) /\ t.marked = {}
        /\ t.current = None
    BY Kinds DEF Activation, ProvisionsOf
  <2>2. txn'[w] = t /\ \A u \in Worker \ {w} : txn'[u] = txn[u]
    BY <1>1 DEF ActivateBegin
  <2>3. doc[d] # None /\ doc' = doc /\ task' = task /\ Reviewed(d)
    BY <1>1 DEF ActivateBegin, CanActivate, db, Reviewed
  <2> HIDE DEF t
  <2>4. ActivationSound(w)'
    BY <2>1, <2>2, <2>3 DEF ActivationSound, Reviewed
  <2>5. ~Approving(w)' /\ ApprovalSound(w)' /\ DeletionSound(w)'
    BY <2>1, <2>2 DEF ApprovalSound, DeletionSound, Approving
  <2> QED
    BY <2>2, <2>4, <2>5, OneMoves
<1>2. ASSUME NEW d \in Doc, DeleteBegin(w, d) PROVE InFlight'
  <2> DEFINE t == [deleting |-> d]
  <2>1. t \in Deletion /\ t \notin Activation /\ t \notin Approval /\ t.deleting = d
    BY Kinds DEF Deletion
  <2>2. txn'[w] = t /\ \A u \in Worker \ {w} : txn'[u] = txn[u]
    BY <1>2 DEF DeleteBegin
  <2>3. doc[d] # None /\ doc' = doc
    BY <1>2 DEF DeleteBegin, db
  <2> HIDE DEF t
  <2>4. /\ ~Approving(w)' /\ ActivationSound(w)' /\ ApprovalSound(w)'
        /\ DeletionSound(w)'
    BY <2>1, <2>2, <2>3
    DEF ActivationSound, ApprovalSound, DeletionSound, Activating, Approving
  <2> QED
    BY <2>2, <2>4, OneMoves
<1>3. ASSUME NEW e \in Event, ApproveRead(w, e) PROVE InFlight'
  <2>1. PICK old \in Latest(event[e].target), new \in NewId \ Issued,
             d \in EffectiveDates(e) :
          txn' = [txn EXCEPT ![w] = [event |-> e, old |-> old, new |-> new,
                                     date |-> d, closes |-> version[old].to # d,
                                     step |-> "read"]]
    BY <1>3 DEF ApproveRead
  <2> DEFINE t == [event |-> e, old |-> old, new |-> new, date |-> d,
                   closes |-> version[old].to # d, step |-> "read"]
  <2>2. event[e] # None /\ event[e] \in EventRow
    BY <1>3 DEF ApproveRead, MayApprove
  <2>3. d \in Date
    BY <2>2, ConfigAssumption DEF EffectiveDates, EventRow
  <2>4. /\ t \in Approval /\ t \notin Activation /\ t \notin Deletion
        /\ t.event = e /\ t.old = old /\ t.new = new /\ t.step = "read"
        /\ ~t.closes => version[old].to = d
    BY <2>3, Kinds DEF Approval, Latest
  <2>5. txn'[w] = t /\ \A u \in Worker \ {w} : txn'[u] = txn[u]
    BY <2>1
  <2>6. version[new] = None /\ Approved(old)
    BY RowsAssumption DEF Issued, Latest, VersionId
  <2>7. \A u \in Worker \ {w} : Approving(u) => txn[u].new # new
    BY DEF Issued
  <2>8. event' = event /\ version' = version /\ index' = index
    BY <1>3 DEF ApproveRead, db
  <2> HIDE DEF t
  <2>9. ApprovalSound(w)'
    <3>1. ~t.closes => version[old].to # Open
      BY <2>3, <2>4, DatesAssumption
    <3>2. /\ event'[t.event] # None
          /\ version'[t.old] # None /\ version'[t.old].status = "APPROVED"
          /\ ~t.closes => version'[t.old].to # Open
          /\ version'[t.new] = None
          /\ t.step # "opened"
      BY <2>2, <2>4, <2>6, <2>8, <3>1 DEF Approved
    <3> QED
      BY <2>5, <3>2 DEF ApprovalSound, Approved
  <2>10. ActivationSound(w)' /\ DeletionSound(w)'
    BY <2>4, <2>5 DEF ActivationSound, DeletionSound, Activating
  <2> QED
    BY <2>4, <2>5, <2>7, <2>9, <2>10, OneMoves
<1> QED
  BY <1>1, <1>2, <1>3 DEF Request

\* The steps of an activation keep it on rows that exist.
LEMMA InFlightActivation ==
    ASSUME Sound, TypeOK', Next, NEW w \in Worker,
           \/ \E p \in Provision : ActivateRead(w, p)
           \/ ActivateIndex(w) \/ ActivateIndexFails(w)
    PROVE  InFlight'
<1> USE DEF Sound, TypeOK
<1> DEFINE t == txn[w]
<1>1. /\ t \in Activation /\ ActivationSound(w) /\ Activating(w)
      /\ db' = db
      /\ \A u \in Worker \ {w} : txn'[u] = txn[u]
  BY DEF ActivateRead, ActivateIndex, ActivateIndexFails, Activating, InFlight
<1>2. /\ doc' = doc /\ task' = task /\ version' = version
      /\ t.doc \in Doc /\ t.todo \subseteq Provision /\ t.marked \subseteq Provision
  BY <1>1 DEF db, Activation
<1>3. \A v \in VersionId : index[v] # None => index'[v] # None
  BY IndexStep
\* It is enough to look at the fields of the request after the step.
<1>4. ASSUME NEW s \in Activation, txn'[w] = s, s.doc = t.doc,
             s.todo \cup s.marked \subseteq t.todo \cup t.marked,
             s.current # None => s.current \in s.marked,
             \A p \in s.marked :
                p = s.current \/ index'[p] # None \/ p \in s.failed
      PROVE  InFlight'
  <2>1. s \notin Approval /\ s \notin Deletion
    BY Kinds
  <2>2. ActivationSound(w)'
    BY <1>1, <1>2, <1>4 DEF ActivationSound, Reviewed
  <2>3. ~Approving(w)' /\ ApprovalSound(w)' /\ DeletionSound(w)'
    BY <1>4, <2>1 DEF ApprovalSound, DeletionSound, Approving
  <2> QED
    BY <1>1, <2>2, <2>3, OneMoves
<1>5. ASSUME NEW p \in Provision, ActivateRead(w, p) PROVE InFlight'
  <2> DEFINE s == ReadOf(t, p)
  <2>1. /\ s \in Activation /\ s.doc = t.doc /\ s.failed = t.failed
        /\ s.todo = t.todo \ {p}
        /\ s.current = IF Approved(p) THEN None ELSE p
        /\ s.marked = IF Approved(p) THEN t.marked ELSE t.marked \cup {p}
    BY <1>1 DEF ReadOf, Activation
  <2>2. /\ txn'[w] = s /\ index' = index /\ p \in t.todo /\ t.current = None
        /\ p # None
    BY <1>5, RowsAssumption DEF ActivateRead, VersionId
  <2> HIDE DEF s
  <2>3. \A q \in s.marked : q = s.current \/ index'[q] # None \/ q \in s.failed
    BY <1>1, <2>1, <2>2, RowsAssumption DEF ActivationSound, VersionId, Activation
  <2> QED
    BY <1>4, <2>1, <2>2, <2>3
<1>6. CASE ActivateIndex(w)
  <2> DEFINE s == [t EXCEPT !.current = None]
  <2>1. /\ s \in Activation /\ s.doc = t.doc /\ s.failed = t.failed
        /\ s.todo = t.todo /\ s.marked = t.marked /\ s.current = None
    BY <1>1 DEF Activation
  <2>2. txn'[w] = s
    BY <1>6 DEF ActivateIndex
  <2>3. t.current \in Provision /\ index'[t.current] \in Chunk
    <3>1. t.current \in Provision
      BY <1>1, <1>6 DEF ActivateIndex, Activation
    <3> QED
      BY <1>6, <3>1, ConfigAssumption DEF ActivateIndex, IndexCurrent, Chunk, VersionId
  <2> HIDE DEF s
  <2>4. \A q \in s.marked : q = s.current \/ index'[q] # None \/ q \in s.failed
    BY <1>1, <1>2, <1>3, <2>1, <2>3, RowsAssumption DEF ActivationSound, VersionId
  <2> QED
    BY <1>4, <2>1, <2>2, <2>4
<1>7. CASE ActivateIndexFails(w)
  <2> DEFINE s == FailureOf(t)
  <2>1. t.current \in Provision
    BY <1>1, <1>7 DEF ActivateIndexFails, Activation
  <2>2. /\ s \in Activation /\ s.doc = t.doc
        /\ s.failed = t.failed \cup {t.current}
        /\ s.todo = t.todo /\ s.marked = t.marked /\ s.current = None
    BY <1>1, <2>1 DEF Activation, FailureOf
  <2>3. txn'[w] = s
    BY <1>7 DEF ActivateIndexFails
  <2> HIDE DEF s
  <2>4. \A q \in s.marked : q = s.current \/ index'[q] # None \/ q \in s.failed
    BY <1>1, <1>2, <1>3, <2>1, <2>2, RowsAssumption DEF ActivationSound, VersionId
  <2> QED
    BY <1>4, <2>2, <2>3, <2>4
<1> QED
  BY <1>5, <1>6, <1>7

\* The steps of an approval keep it on rows that exist.
LEMMA InFlightApproval ==
    ASSUME Sound, TypeOK', Next, NEW w \in Worker,
           ApproveFlush(w) \/ ApproveIndexOld(w) \/ ApproveIndexNew(w)
    PROVE  InFlight'
<1> USE DEF Sound, TypeOK
<1> DEFINE t == txn[w]
<1>1. /\ t \in Approval /\ ApprovalSound(w) /\ Approving(w)
      /\ event' = event /\ version' = version
      /\ \A u \in Worker \ {w} : txn'[u] = txn[u]
      /\ t.new \in VersionId
  BY DEF ApproveFlush, ApproveIndexOld, ApproveIndexNew, Approving, InFlight, db,
         Approval, VersionId
<1>2. ASSUME NEW x \in {"flushed", "closed", "opened"},
             txn'[w] = [t EXCEPT !.step = x],
             x = "opened" => index'[t.new] # None
      PROVE  InFlight'
  <2> DEFINE s == [t EXCEPT !.step = x]
  <2>1. /\ s \in Approval /\ s \notin Activation /\ s \notin Deletion
        /\ s.event = t.event /\ s.old = t.old /\ s.new = t.new
        /\ s.closes = t.closes /\ s.step = x
    BY <1>1, Kinds DEF Approval
  <2>2. txn'[w] = s
    BY <1>2
  <2> HIDE DEF s
  <2>3. ApprovalSound(w)'
    BY <1>1, <1>2, <2>1, <2>2 DEF ApprovalSound, Approved
  <2>4. ActivationSound(w)' /\ DeletionSound(w)'
    BY <2>1, <2>2 DEF ActivationSound, DeletionSound, Activating
  <2>5. \A u \in Worker \ {w} : Approving(u) => txn'[w].new # txn[u].new
    BY <1>1, <2>1, <2>2 DEF InFlight, FreshIds
  <2> QED
    BY <1>1, <2>3, <2>4, <2>5, OneMoves
<1>3. CASE ApproveFlush(w)
  BY <1>2, <1>3 DEF ApproveFlush
<1>4. CASE ApproveIndexOld(w)
  BY <1>2, <1>4 DEF ApproveIndexOld
<1>5. CASE ApproveIndexNew(w)
  <2>1. version[t.old] \in VersionRow
    BY <1>1 DEF ApprovalSound, Approved, Approval
  <2>2. NewWindow(w) \in Chunk
    BY <1>1, <2>1 DEF NewWindow, Chunk, VersionRow, Approval
  <2>3. index'[t.new] # None
    BY <1>1, <1>5, <2>2, RowsAssumption DEF ApproveIndexNew
  <2> QED
    BY <1>2, <1>5, <2>3 DEF ApproveIndexNew
<1> QED
  BY <1>3, <1>4, <1>5

\* A request that ends leaves the others on rows that exist.
LEMMA InFlightEnd ==
    ASSUME Sound, TypeOK', Next, NEW w \in Worker,
           \/ ActivateCommit(w) \/ ApproveCommit(w) \/ DeleteCommit(w)
           \/ Abort(w) \/ DeadlockVictim(w)
    PROVE  InFlight'
<1>1. txn'[w] = None /\ \A u \in Worker \ {w} : txn'[u] = txn[u]
  BY DEF ActivateCommit, ApproveCommit, DeleteCommit, Abort, DeadlockVictim,
         RollBack, Finish, Sound, TypeOK
<1> QED
  BY <1>1, IdleSound, OneMoves

\* Every step keeps the requests in flight on rows that exist.
LEMMA InFlightStep == ASSUME Sound, TypeOK', Next PROVE InFlight'
<1>1. CASE txn' = txn
  <2>1. \A u \in Worker : ActivationSound(u)' /\ ApprovalSound(u)' /\ DeletionSound(u)'
    BY <1>1, KeptStep, OthersSound, FreshStaysFresh
  <2>2. FreshIds'
    BY <1>1 DEF FreshIds, Approving, Sound, InFlight
  <2> QED
    BY <2>1, <2>2 DEF InFlight
<1>2. ASSUME NEW w \in Worker, Proceed(w) PROVE InFlight'
  BY <1>2, InFlightActivation, InFlightApproval, InFlightEnd DEF Proceed
<1>3. CASE \/ \E d \in Doc : Upload(d)
           \/ \E t \in Task, answer \in Decisions : Decide(t, answer)
           \/ \E e \in Event : ApproveUnpatchable(e)
  BY <1>1, <1>3 DEF Upload, Decide, ApproveUnpatchable
<1> QED
  BY <1>2, <1>3, InFlightRequest, InFlightEnd DEF Next

-----------------------------------------------------------------------------
(* The invariant is inductive *)

\* Every step keeps the versions of a document with the document.
LEMMA RecordsStep == ASSUME Sound, TypeOK', Next PROVE Records'
<1> USE DEF Sound, TypeOK
<1>1. ASSUME NEW d \in Doc, Upload(d) PROVE Records'
  <2>1. \A p \in Provision :
          /\ version'[p] # None <=> doc'[DocOf[p]] # None
          /\ version'[p] # None => version'[p].prov = p
          /\ version'[p] # None /\ version'[p].status # "APPROVED"
               => version'[p] = ParsedVersion(p)
    <3> SUFFICES ASSUME NEW p \in Provision
                 PROVE  /\ version'[p] # None <=> doc'[DocOf[p]] # None
                        /\ version'[p] # None => version'[p].prov = p
                        /\ version'[p] # None /\ version'[p].status # "APPROVED"
                             => version'[p] = ParsedVersion(p)
      OBVIOUS
    <3>1. DocOf[p] \in Doc
      BY ConfigAssumption
    <3>2. CASE DocOf[p] = d
      <4>1. ParsedVersion(p).prov = p
        BY DEF ParsedVersion
      <4> QED
        BY <1>1, <3>2, <4>1, UploadKeeps
    <3>3. CASE DocOf[p] # d
      BY <1>1, <3>1, <3>3, UploadKeeps DEF Records, Approved
    <3> QED
      BY <3>2, <3>3
  <2>2. \A v \in NewId : version'[v] # None => version'[v].status = "APPROVED"
    BY <1>1, UploadKeeps DEF Records, Approved
  <2> QED
    BY <2>1, <2>2 DEF Records, Approved, ParsedVersion
<1>2. ASSUME NEW w \in Worker, ActivateCommit(w) PROVE Records'
  <2>1. \A p \in Provision : DocOf[p] \in Doc
    BY ConfigAssumption
  <2>2. \A p \in txn[w].marked : p \in Provision /\ DocOf[p] = txn[w].doc
    BY <1>2, ActivateCommitRows DEF ProvisionsOf
  <2>3. \A d \in Doc : doc'[d] # None <=> doc[d] # None
    BY <1>2, ActivateCommitRows
  <2>4. \A v \in VersionId : v \notin txn[w].marked => version'[v] = version[v]
    BY <1>2, ActivateCommitRows
  <2>5. \A p \in txn[w].marked :
          /\ version'[p] # None /\ version'[p].status = "APPROVED"
          /\ version'[p].prov = version[p].prov /\ version[p] # None
    BY <1>2, ActivateCommitRows, RowsAssumption
  <2>6. \A p \in Provision : p \in VersionId
    BY DEF VersionId
  <2>7. \A v \in NewId : v \in VersionId /\ v \notin txn[w].marked
    BY <2>2, RowsAssumption DEF VersionId
  <2> QED
    BY <2>1, <2>3, <2>4, <2>5, <2>6, <2>7 DEF Records, Approved, ParsedVersion
<1>3. ASSUME NEW w \in Worker, ApproveCommit(w) PROVE Records'
  <2>1. doc' = doc
    BY <1>3 DEF ApproveCommit
  <2>2. \A p \in Provision : p # txn[w].new /\ p \in VersionId
    BY <1>3, RowsAssumption DEF ApproveCommit, Approving, Approval, VersionId
  <2>3. \A p \in Provision :
          \/ version'[p] = version[p]
          \/ /\ version[p] # None /\ version'[p] # None
             /\ version'[p].prov = version[p].prov
             /\ version'[p].status = "APPROVED"
    BY <1>3, <2>2, ApproveCommitRows DEF Approved
  <2>4. \A v \in NewId :
          version'[v] # None => version'[v].status = "APPROVED"
    BY <1>3, ApproveCommitRows DEF Records, Approved, VersionId
  <2> QED
    BY <2>1, <2>3, <2>4 DEF Records, Approved, ParsedVersion
<1>4. ASSUME NEW w \in Worker, DeleteCommit(w) PROVE Records'
  <2>1. \A d \in Doc : doc'[d] # None <=> doc[d] # None
    <3>1. doc[txn[w].deleting] # None
      BY <1>4 DEF DeleteCommit, InFlight, DeletionSound
    <3>2. \A d \in Doc : doc[d] # None => doc'[d] # None
      BY <1>4, KeptStep DEF Kept
    <3> QED
      BY <1>4, <3>1, <3>2 DEF DeleteCommit
  <2>2. version' = version
    BY <1>4 DEF DeleteCommit
  <2>3. \A p \in Provision : DocOf[p] \in Doc
    BY ConfigAssumption
  <2> QED
    BY <2>1, <2>2, <2>3 DEF Records, Approved, ParsedVersion
<1>5. CASE /\ \A d \in Doc : ~Upload(d)
           /\ \A w \in Worker :
                ~ActivateCommit(w) /\ ~ApproveCommit(w) /\ ~DeleteCommit(w)
  <2>1. doc' = doc /\ version' = version
    BY <1>5
    DEF Next, Decide, ApproveUnpatchable, Request, Proceed, Abort, DeadlockVictim,
        RollBack, ActivateBegin, ActivateRead, ActivateIndex, ActivateIndexFails,
        ApproveRead, ApproveFlush, ApproveIndexOld, ApproveIndexNew, DeleteBegin, db
  <2> QED
    BY <2>1 DEF Records, Approved, ParsedVersion
<1> QED
  BY <1>1, <1>2, <1>3, <1>4, <1>5

\* Every step keeps the gate.
LEMMA GateStep == ASSUME Sound, TypeOK', Next PROVE GateHolds'
<1> USE DEF Sound, TypeOK
<1>1. Kept
  BY KeptStep
<1>2. \A d \in Doc : doc[d] # None /\ doc[d].processing = "INDEXED" => Reviewed(d)
  BY DEF GateHolds, Reviewed
<1>3. \A v \in VersionId : Approved(v) =>
        LET d == DocOf[version[v].prov]
        IN  d \in Doc /\ doc[d] # None /\ doc[d].processing = "INDEXED"
  BY ConfigAssumption DEF GateHolds, Approved, VersionRow
\* What remains is that a step that indexes a document reviewed it, and that the
\* documents of approved versions stay indexed.
<1>4. ASSUME \A d \in Doc : doc'[d] # None /\ doc'[d].processing = "INDEXED" =>
                (doc[d] # None /\ Reviewed(d)),
             \A d \in Doc : doc[d] # None /\ doc[d].processing = "INDEXED" =>
                (doc'[d] # None /\ doc'[d].processing = "INDEXED"),
             \A v \in VersionId : Approved(v)' =>
                \/ Approved(v)
                \/ LET d == DocOf[version'[v].prov]
                   IN  d \in Doc /\ doc'[d] # None /\ doc'[d].processing = "INDEXED"
      PROVE  GateHolds'
  <2>1. \A d \in Doc : doc'[d] # None /\ doc'[d].processing = "INDEXED"
                         => \A t \in CriticalTasks(d) : task'[t] # "PENDING"
    BY <1>1, <1>4 DEF Kept, Reviewed
  <2>2. ASSUME NEW v \in VersionId, Approved(v)'
        PROVE  /\ doc'[DocOf[version'[v].prov]] # None
               /\ doc'[DocOf[version'[v].prov]].processing = "INDEXED"
    BY <1>1, <1>3, <1>4, <2>2 DEF Kept
  <2> QED
    BY <2>1, <2>2 DEF GateHolds
<1>5. ASSUME NEW d \in Doc, Upload(d) PROVE GateHolds'
  <2>1. \A c \in Doc : doc'[c] # None /\ doc'[c].processing = "INDEXED"
                         => c # d /\ doc'[c] = doc[c]
    BY <1>5, UploadKeeps
  <2>2. \A c \in Doc : doc[c] # None => doc'[c] = doc[c]
    BY <1>5, UploadKeeps
  <2>3. \A v \in VersionId : Approved(v)' => Approved(v)
    <3>1. \A p \in Provision : version[p] = None =>
             version'[p] = None \/ version'[p] = ParsedVersion(p)
      BY <1>5, UploadKeeps
    <3>2. \A p \in Provision : ParsedVersion(p).status = "PENDING"
      BY DEF ParsedVersion
    <3> QED
      BY <1>5, <3>1, <3>2, UploadKeeps DEF Approved, VersionId
  <2> QED
    BY <1>2, <1>4, <2>1, <2>2, <2>3
<1>6. ASSUME NEW w \in Worker, ActivateCommit(w) PROVE GateHolds'
  <2>1. Reviewed(txn[w].doc)
    BY <1>6, ActivateCommitRows DEF InFlight, ActivationSound
  <2>2. \A p \in txn[w].marked :
          p \in Provision /\ DocOf[p] = txn[w].doc /\ version'[p].prov = p
    BY <1>6, ActivateCommitRows, RowsAssumption DEF ProvisionsOf, Records
  <2>3. \A v \in VersionId : Approved(v)' =>
          Approved(v) \/ DocOf[version'[v].prov] = txn[w].doc
    BY <1>6, <2>2, ActivateCommitRows DEF Approved
  <2> QED
    BY <1>2, <1>4, <1>6, <2>1, <2>3, ActivateCommitRows
<1>7. ASSUME NEW w \in Worker, ApproveCommit(w) PROVE GateHolds'
  <2>1. doc' = doc
    BY <1>7 DEF ApproveCommit
  <2>2. \A v \in VersionId : Approved(v)' =>
          Approved(v) \/ version'[v].prov = version[txn[w].old].prov
    BY <1>7, ApproveCommitRows DEF Approved
  <2>3. Approved(txn[w].old) /\ txn[w].old \in VersionId
    BY <1>7, ApproveCommitRows
  <2> QED
    BY <1>2, <1>3, <1>4, <2>1, <2>2, <2>3
<1>8. ASSUME NEW w \in Worker, DeleteCommit(w) PROVE GateHolds'
  <2>1. /\ txn[w].deleting \in Doc /\ doc[txn[w].deleting] \in DocRow
    BY <1>8 DEF DeleteCommit, InFlight, DeletionSound, Deletion
  <2> DEFINE row == [doc[txn[w].deleting] EXCEPT !.approval = "ARCHIVED"]
  <2>2. row \in DocRow /\ row.processing = doc[txn[w].deleting].processing
    BY <2>1 DEF DocRow
  <2>3. /\ doc'[txn[w].deleting] = row
        /\ \A d \in Doc \ {txn[w].deleting} : doc'[d] = doc[d]
        /\ version' = version
    BY <1>8, <2>1 DEF DeleteCommit
  <2> HIDE DEF row
  <2>4. \A d \in Doc : /\ doc'[d] # None <=> doc[d] # None
                       /\ doc[d] # None => doc'[d].processing = doc[d].processing
    BY <2>1, <2>2, <2>3, RowsAssumption
  <2> QED
    BY <1>2, <1>4, <2>3, <2>4 DEF Approved
<1>9. CASE /\ \A d \in Doc : ~Upload(d)
           /\ \A w \in Worker :
                ~ActivateCommit(w) /\ ~ApproveCommit(w) /\ ~DeleteCommit(w)
  <2>1. doc' = doc /\ version' = version
    BY <1>9
    DEF Next, Decide, ApproveUnpatchable, Request, Proceed, Abort, DeadlockVictim,
        RollBack, ActivateBegin, ActivateRead, ActivateIndex, ActivateIndexFails,
        ApproveRead, ApproveFlush, ApproveIndexOld, ApproveIndexNew, DeleteBegin, db
  <2> QED
    BY <1>2, <1>4, <2>1 DEF Approved
<1> QED
  BY <1>5, <1>6, <1>7, <1>8, <1>9

\* Every step keeps approved versions indexed or flagged.
LEMMA FlaggedStep == ASSUME Sound, TypeOK', Next PROVE IndexedOrFlagged'
<1> USE DEF Sound, TypeOK
<1>1. \A v \in VersionId : index[v] # None => index'[v] # None
  BY IndexStep
<1>2. \A v \in VersionId : Approved(v) =>
        /\ version[v].prov \in Provision /\ DocOf[version[v].prov] \in Doc
        /\ doc[DocOf[version[v].prov]] # None
        /\ index[v] # None \/ doc[DocOf[version[v].prov]].unsynced # {}
  BY ConfigAssumption DEF IndexedOrFlagged, OutOfSync, GateHolds, Approved, VersionRow
<1>3. \A v \in VersionId : Approved(v) => version'[v].prov = version[v].prov
  BY KeptStep DEF Kept
\* A flag is not taken back, and what is newly approved is indexed or flagged.
<1>4. ASSUME \A d \in Doc : doc[d] # None /\ doc[d].unsynced # {}
                => doc'[d].unsynced # {},
             \A v \in VersionId : Approved(v)' =>
                \/ Approved(v) \/ index'[v] # None
                \/ doc'[DocOf[version'[v].prov]].unsynced # {}
      PROVE  IndexedOrFlagged'
  <2> SUFFICES ASSUME NEW v \in VersionId, Approved(v)'
               PROVE  \/ index'[v] # None
                      \/ doc'[DocOf[version'[v].prov]].unsynced # {}
    BY DEF IndexedOrFlagged, OutOfSync
  <2> QED
    BY <1>1, <1>2, <1>3, <1>4
<1>5. ASSUME NEW d \in Doc, Upload(d) PROVE IndexedOrFlagged'
  <2>1. \A v \in VersionId : Approved(v)' => Approved(v)
    <3>1. \A p \in Provision : version[p] = None =>
             version'[p] = None \/ version'[p] = ParsedVersion(p)
      BY <1>5, UploadKeeps
    <3>2. \A p \in Provision : ParsedVersion(p).status = "PENDING"
      BY DEF ParsedVersion
    <3> QED
      BY <1>5, <3>1, <3>2, UploadKeeps DEF Approved, VersionId
  <2> QED
    BY <1>4, <1>5, <2>1, UploadKeeps
<1>6. ASSUME NEW w \in Worker, ActivateCommit(w) PROVE IndexedOrFlagged'
  <2>1. /\ ActivationSound(w) /\ txn[w].current = None
        /\ txn[w].doc \in Doc /\ index' = index
    BY <1>6, ActivateCommitRows DEF ActivateCommit, InFlight
  <2>2. \A p \in txn[w].marked : index'[p] # None \/ p \in txn[w].failed
    BY <1>6, <2>1, ActivateCommitRows, RowsAssumption
    DEF ActivationSound, ProvisionsOf, VersionId
  <2>3. \A p \in txn[w].marked : version'[p].prov = p /\ DocOf[p] = txn[w].doc
    BY <1>6, ActivateCommitRows, RowsAssumption DEF ProvisionsOf, Records
  <2>4. /\ txn[w].failed # {} => doc'[txn[w].doc].unsynced # {}
        /\ doc[txn[w].doc].unsynced # {} => doc'[txn[w].doc].unsynced # {}
    BY <1>6, ActivateCommitRows DEF Unsynced
  <2>5. \A v \in VersionId : Approved(v)' =>
          \/ Approved(v) \/ index'[v] # None
          \/ doc'[DocOf[version'[v].prov]].unsynced # {}
    <3> SUFFICES ASSUME NEW v \in VersionId, Approved(v)', ~Approved(v)
                 PROVE  \/ index'[v] # None
                        \/ doc'[DocOf[version'[v].prov]].unsynced # {}
      OBVIOUS
    <3>1. v \in txn[w].marked
      BY <1>6, ActivateCommitRows DEF Approved
    <3> QED
      BY <2>2, <2>3, <2>4, <3>1
  <2>6. \A d \in Doc : doc[d] # None /\ doc[d].unsynced # {}
                         => doc'[d].unsynced # {}
    BY <1>6, <2>4, ActivateCommitRows
  <2> QED
    BY <1>4, <2>5, <2>6
<1>7. ASSUME NEW w \in Worker, ApproveCommit(w) PROVE IndexedOrFlagged'
  <2>1. doc' = doc /\ index' = index
    BY <1>7 DEF ApproveCommit
  <2>2. index[txn[w].new] # None
    BY <1>7 DEF ApproveCommit, InFlight, ApprovalSound
  <2>3. \A v \in VersionId : Approved(v)' => Approved(v) \/ v = txn[w].new
    BY <1>7, ApproveCommitRows DEF Approved
  <2> QED
    BY <1>4, <2>1, <2>2, <2>3
<1>8. ASSUME NEW w \in Worker, DeleteCommit(w) PROVE IndexedOrFlagged'
  <2>1. /\ txn[w].deleting \in Doc /\ doc[txn[w].deleting] \in DocRow
    BY <1>8 DEF DeleteCommit, InFlight, DeletionSound, Deletion
  <2> DEFINE row == [doc[txn[w].deleting] EXCEPT !.approval = "ARCHIVED"]
  <2>2. row.unsynced = doc[txn[w].deleting].unsynced
    BY <2>1 DEF DocRow
  <2>3. /\ doc'[txn[w].deleting] = row
        /\ \A d \in Doc \ {txn[w].deleting} : doc'[d] = doc[d]
        /\ version' = version
    BY <1>8, <2>1 DEF DeleteCommit
  <2> HIDE DEF row
  <2> QED
    BY <1>4, <2>2, <2>3 DEF Approved
<1>9. CASE /\ \A d \in Doc : ~Upload(d)
           /\ \A w \in Worker :
                ~ActivateCommit(w) /\ ~ApproveCommit(w) /\ ~DeleteCommit(w)
  <2>1. doc' = doc /\ version' = version
    BY <1>9
    DEF Next, Decide, ApproveUnpatchable, Request, Proceed, Abort, DeadlockVictim,
        RollBack, ActivateBegin, ActivateRead, ActivateIndex, ActivateIndexFails,
        ApproveRead, ApproveFlush, ApproveIndexOld, ApproveIndexNew, DeleteBegin, db
  <2> QED
    BY <1>4, <2>1 DEF Approved
<1> QED
  BY <1>5, <1>6, <1>7, <1>8, <1>9

\* The inductive invariant holds in every reachable state.
LEMMA Invariance == Spec => []Sound
<1>1. Init => Sound
  <2> SUFFICES ASSUME Init PROVE Sound
    OBVIOUS
  <2>1. TypeOK
    BY DEF Init, TypeOK
  <2>2. Records
    BY ConfigAssumption DEF Init, Records, VersionId
  <2>3. InFlight
    BY Kinds
    DEF Init, InFlight, FreshIds, ActivationSound, ApprovalSound, DeletionSound,
        Activating, Approving
  <2>4. GateHolds /\ IndexedOrFlagged
    BY DEF Init, GateHolds, IndexedOrFlagged, Approved
  <2> QED
    BY <2>1, <2>2, <2>3, <2>4 DEF Sound
<1>2. Sound /\ [Next]_vars => Sound'
  <2> SUFFICES ASSUME Sound, [Next]_vars PROVE Sound'
    OBVIOUS
  <2>1. CASE Next
    BY <2>1, StepType, RecordsStep, InFlightStep, GateStep, FlaggedStep DEF Sound
  <2>2. CASE UNCHANGED vars
    <3>1. /\ doc' = doc /\ task' = task /\ event' = event /\ version' = version
          /\ index' = index /\ txn' = txn /\ clean' = clean
      BY <2>2 DEF vars, db
    <3> QED
      BY <3>1
      DEF Sound, TypeOK, Records, InFlight, FreshIds, ActivationSound,
          ApprovalSound, DeletionSound, Activating, Approving, Reviewed, GateHolds,
          IndexedOrFlagged, OutOfSync, Approved, ParsedVersion
  <2> QED
    BY <2>1, <2>2
<1> QED
  BY <1>1, <1>2, PTL DEF Spec

\* The rows, the index and the requests in flight are well formed whatever
\* uploads, decisions, activations, approvals, deletions and failures happen.
THEOREM TypeCorrect == Spec => []TypeOK
<1>1. Sound => TypeOK
  BY DEF Sound
<1> QED
  BY <1>1, Invariance, PTL

\* Nothing is indexed and no version approved before the critical reviews of its
\* document are decided.
THEOREM Gated == Spec => []GateHolds
<1>1. Sound => GateHolds
  BY DEF Sound
<1> QED
  BY <1>1, Invariance, PTL

\* No approval is lost to search without a trace, whatever fails and when.
THEOREM NoSilentLoss == Spec => []IndexedOrFlagged
<1>1. Sound => IndexedOrFlagged
  BY DEF Sound
<1> QED
  BY <1>1, Invariance, PTL

-----------------------------------------------------------------------------
(* Lifecycle implements Timeline *)

\* A row as Timeline sees it, and that it is told apart from no row.
PublishedRow(r) == [prov |-> r.prov, from |-> r.from, to |-> r.to, pred |-> r.pred]

\* What is published, version by version.
LEMMA LawRows ==
    /\ TypeOK => \A v \in VersionId :
         /\ Approved(v) => law[v] = PublishedRow(version[v]) /\ law[v] # None
         /\ ~Approved(v) => law[v] = None
    /\ TypeOK' => \A v \in VersionId :
         /\ Approved(v)' => law'[v] = PublishedRow(version'[v]) /\ law'[v] # None
         /\ ~Approved(v)' => law'[v] = None
<1>1. \A r \in VersionRow : PublishedRow(r) # None
  <2>1. \A r \in VersionRow :
          PublishedRow(r) \in [prov : Provision, from : Date,
                               to : Date \cup {Open},
                               pred : VersionId \cup {None}]
    BY DEF VersionRow, PublishedRow
  <2> QED
    BY <2>1, RowsAssumption
<1>2. /\ TypeOK => \A v \in VersionId : Approved(v) => version[v] \in VersionRow
      /\ TypeOK' => \A v \in VersionId : Approved(v)' => version'[v] \in VersionRow
  BY DEF TypeOK, Approved
<1> QED
  BY <1>1, <1>2 DEF law, PublishedRow, Approved

\* A step that publishes nothing and leaves what is published alone.
LEMMA SameLaw ==
    ASSUME \A v \in VersionId : Approved(v)' <=> Approved(v),
           \A v \in VersionId : Approved(v) =>
             /\ version'[v].prov = version[v].prov
             /\ version'[v].from = version[v].from
             /\ version'[v].to = version[v].to
             /\ version'[v].pred = version[v].pred
    PROVE  law' = law
  BY DEF law

\* The end of an activation brings the parsed versions it approves into force.
LEMMA ActivateCommitEnacts ==
    ASSUME Sound, TypeOK', NEW w \in Worker, ActivateCommit(w)
    PROVE  TL!Enact(txn[w].marked)
<1> DEFINE M == txn[w].marked
<1>1. M \subseteq Provision /\ M \subseteq VersionId
  BY ActivateCommitRows DEF ProvisionsOf, VersionId
<1>2. TypeOK
  BY DEF Sound
<1>3. ASSUME NEW v \in VersionId
      PROVE  law'[v] = IF v \in M /\ law[v] = None THEN TL!FirstRow(v) ELSE law[v]
  <2>1. CASE v \notin M
    <3>1. version'[v] = version[v]
      BY <2>1, ActivateCommitRows
    <3> QED
      BY <2>1, <3>1 DEF law, Approved
  <2>2. CASE v \in M
    <3>1. /\ version'[v] # None /\ version'[v].status = "APPROVED"
          /\ PublishedRow(version'[v]) = PublishedRow(version[v])
      BY <2>2, ActivateCommitRows DEF PublishedRow
    <3>2. law'[v] = PublishedRow(version[v])
      BY <3>1, LawRows DEF Approved
    <3>3. CASE Approved(v)
      BY <1>2, <2>2, <3>2, <3>3, LawRows
    <3>4. CASE ~Approved(v)
      <4>1. v \in Provision /\ version[v] # None
        BY <1>1, <2>2, ActivateCommitRows, RowsAssumption
      <4>2. version[v] = ParsedVersion(v)
        BY <3>4, <4>1 DEF Sound, Records
      <4>3. PublishedRow(ParsedVersion(v)) = TL!FirstRow(v)
        BY DEF PublishedRow, ParsedVersion, TL!FirstRow
      <4> QED
        BY <1>2, <2>2, <3>2, <3>4, <4>2, <4>3, LawRows
    <3> QED
      BY <3>3, <3>4
  <2> QED
    BY <2>1, <2>2
<1> HIDE DEF M
<1>4. law' = [v \in VersionId |->
                IF v \in M /\ law[v] = None THEN TL!FirstRow(v) ELSE law[v]]
  BY <1>3 DEF law
<1> QED
  BY <1>4 DEF M, TL!Enact, TL!Published, TL!VersionId, VersionId

\* The end of an approval replaces one published version by its successor; the
\* old one keeps the end it has if it was read with the same one.
LEMMA ApproveCommitAmends ==
    ASSUME Sound, TypeOK', NEW w \in Worker, ApproveCommit(w)
    PROVE  \/ TL!Amend(txn[w].old, txn[w].new, txn[w].date)
           \/ TL!AmendAgain(txn[w].old, txn[w].new, txn[w].date)
<1> DEFINE v1 == txn[w].old
           v2 == txn[w].new
           d == txn[w].date
           closed == [law[v1] EXCEPT !.to = d]
<1>1. /\ TypeOK /\ v1 \in VersionId /\ v2 \in VersionId /\ v1 # v2
      /\ Approved(v1) /\ version[v2] = None
  BY ApproveCommitRows DEF Sound
<1>2. /\ law[v1] = PublishedRow(version[v1]) /\ law[v1] # None /\ law[v2] = None
      /\ law'[v1] = PublishedRow(version'[v1])
      /\ law'[v2] = PublishedRow(version'[v2])
  <2>1. \A v \in {v1, v2} : version'[v] # None /\ version'[v].status = "APPROVED"
    BY ApproveCommitRows
  <2>2. \A v \in {v1, v2} : Approved(v)'
    BY <2>1 DEF Approved
  <2> HIDE DEF v1, v2
  <2> QED
    BY <1>1, <2>2, LawRows DEF Approved
<1>3. law'[v2] = TL!Successor(v1, d)
  BY <1>2, ApproveCommitRows DEF PublishedRow, TL!Successor
<1>4. \A v \in VersionId \ {v1, v2} : law'[v] = law[v]
  BY ApproveCommitRows DEF law, Approved
<1>5. CASE txn[w].closes
  <2>1. law'[v1] = closed
    BY <1>2, <1>5, ApproveCommitRows DEF PublishedRow
  <2> HIDE DEF v1, v2, d, closed
  <2>2. law' = [law EXCEPT ![v1] = closed, ![v2] = TL!Successor(v1, d)]
    BY <1>1, <1>3, <1>4, <2>1 DEF law
  <2> QED
    BY <1>2, <2>2 DEF v1, v2, d, closed, TL!Amend, TL!Published
<1>6. CASE ~txn[w].closes
  <2>1. law'[v1] = law[v1]
    BY <1>2, <1>6, ApproveCommitRows DEF PublishedRow
  <2>2. law[v1].to # Open
    <3>1. version[v1].to # Open
      BY <1>6 DEF Sound, InFlight, ApprovalSound, ApproveCommit
    <3> QED
      BY <1>2, <3>1 DEF PublishedRow
  <2> HIDE DEF v1, v2, d, closed
  <2>3. law' = [law EXCEPT ![v2] = TL!Successor(v1, d)]
    BY <1>1, <1>3, <1>4, <2>1 DEF law
  <2> QED
    BY <1>2, <2>2, <2>3 DEF v1, v2, d, TL!AmendAgain, TL!Published
<1> QED
  BY <1>5, <1>6

\* Every other step publishes nothing.
LEMMA LawStep == ASSUME Sound, TypeOK', Next PROVE [TL!Next]_law
<1>1. ASSUME NEW d \in Doc, Upload(d) PROVE law' = law
  <2>1. \A p \in Provision : ParsedVersion(p).status = "PENDING"
    BY DEF ParsedVersion
  <2> QED
    BY <1>1, <2>1, UploadKeeps, SameLaw DEF Approved, VersionId
<1>2. ASSUME NEW w \in Worker, ActivateCommit(w) PROVE TL!Next
  <2>1. txn[w].marked \in SUBSET Provision
    BY <1>2, ActivateCommitRows DEF ProvisionsOf
  <2> QED
    BY <1>2, <2>1, ActivateCommitEnacts DEF TL!Next
<1>3. ASSUME NEW w \in Worker, ApproveCommit(w) PROVE TL!Next
  <2>1. /\ txn[w].old \in VersionId /\ txn[w].date \in Date
        /\ txn[w].new \in NewId
    BY <1>3, ApproveCommitRows DEF Approval
  <2> QED
    BY <1>3, <2>1, ApproveCommitAmends DEF TL!Next, TL!VersionId, VersionId
<1>4. CASE /\ \A d \in Doc : ~Upload(d)
           /\ \A w \in Worker : ~ActivateCommit(w) /\ ~ApproveCommit(w)
  <2>1. version' = version
    BY <1>4
    DEF Next, Decide, ApproveUnpatchable, Request, Proceed, Abort, DeadlockVictim,
        RollBack, ActivateBegin, ActivateRead, ActivateIndex, ActivateIndexFails,
        ApproveRead, ApproveFlush, ApproveIndexOld, ApproveIndexNew, DeleteBegin,
        DeleteCommit, db
  <2> QED
    BY <2>1 DEF law, Approved
<1> QED
  BY <1>1, <1>2, <1>3, <1>4

\* Every behaviour of the requests is a behaviour of Timeline: however they
\* overlap and fail, what is published changes only by bringing base versions
\* into force and by superseding one published version.
THEOREM Refinement == Spec => ImplementsTimeline
<1>1. Init => TL!Init
  BY DEF Init, TL!Init, law, Approved, TL!VersionId, VersionId
<1>2. Sound /\ Sound' /\ [Next]_vars => [TL!Next]_law
  <2> SUFFICES ASSUME Sound, Sound', [Next]_vars PROVE [TL!Next]_law
    OBVIOUS
  <2>1. TypeOK'
    BY DEF Sound
  <2>2. CASE UNCHANGED vars
    BY <2>2 DEF vars, db, law, Approved
  <2> QED
    BY <2>1, <2>2, LawStep
<1> QED
  BY <1>1, <1>2, Invariance, PTL DEF Spec, ImplementsTimeline, TL!Spec

-----------------------------------------------------------------------------
(* What Timeline promises, for the database *)

TP == INSTANCE Timeline_proofs

\* The days and ids of Lifecycle are as Timeline assumes them.
LEMMA TimelineAssumptions == TP!DatesAssumption /\ TP!IdsAssumption
  BY DatesAssumption, RowsAssumption, ConfigAssumption
  DEF TP!VersionId, VersionId, TP!Row

\* Through all requests, failures and deletions, what is published has no hole,
\* has one version in force at a time for as long as the amendments of the
\* provision are orderly, and does not change for the days before an amendment.
THEOREM LawInOrder ==
    Spec => []TL!NoGap /\ []TL!OneInForce /\ TL!NoRetroactiveChange
<1>1. /\ TP!Spec => []TP!NoGap
      /\ TP!Spec => []TP!OneInForce
      /\ TP!Spec => TP!NoRetroactiveChange
  BY TP!NoGaps, TP!OneVersion, TP!NothingRetroactive, TimelineAssumptions, PTL
<1> USE DEF TP!VersionId, TL!VersionId, TP!Published, TL!Published, TP!Versions,
            TL!Versions, TP!InForce, TL!InForce, TP!InForceAt, TL!InForceAt,
            TP!Orderly, TL!Orderly
<1>2. TL!Init => TP!Init
  BY DEF TL!Init, TP!Init
<1>3. [TL!Next]_law => [TP!Next]_law
  BY DEF TL!Next, TP!Next, TL!Enact, TP!Enact, TL!Amend, TP!Amend, TL!AmendAgain,
         TP!AmendAgain, TL!FirstRow, TP!FirstRow, TL!Successor, TP!Successor
<1>4. TP!NoGap => TL!NoGap
  BY DEF TP!NoGap, TL!NoGap
<1>5. TP!OneInForce => TL!OneInForce
  BY DEF TP!OneInForce, TL!OneInForce
<1>6. TP!NoRetroactiveChange => TL!NoRetroactiveChange
  BY PTL DEF TP!NoRetroactiveChange, TL!NoRetroactiveChange
<1> QED
  BY <1>1, <1>2, <1>3, <1>4, <1>5, <1>6, Refinement, PTL
  DEF ImplementsTimeline, TL!Spec, TP!Spec

-----------------------------------------------------------------------------
(* The search index, and the edits of amendments *)

\* A row keeps what it says but for the end of its window, which the approval of an
\* amendment sets; a row is new by an upload or by such an approval, and approved by an
\* activation or by such an approval.
LEMMA RowsStep ==
    ASSUME Sound, TypeOK', Next
    PROVE  /\ \A v \in VersionId : version[v] # None =>
                /\ version'[v] # None /\ (Approved(v) => Approved(v)')
                /\ version'[v].prov = version[v].prov
                /\ version'[v].from = version[v].from
                /\ version'[v].pred = version[v].pred
                /\ version'[v].edits = version[v].edits
                /\ \/ version'[v].to = version[v].to
                   \/ \E w \in Worker : /\ ApproveCommit(w) /\ v = txn[w].old
                                        /\ txn[w].closes /\ version'[v].to = txn[w].date
           /\ \A v \in VersionId : version[v] = None /\ version'[v] # None =>
                \/ v \in Provision /\ version'[v] = ParsedVersion(v) /\ ~Approved(v)'
                \/ \E w \in Worker : ApproveCommit(w) /\ v = txn[w].new
           /\ \A v \in VersionId : Approved(v)' /\ ~Approved(v) =>
                \/ \E w \in Worker : /\ ActivateCommit(w) /\ v \in txn[w].marked
                                     /\ v \in Provision /\ version[v] # None
                \/ \E w \in Worker : ApproveCommit(w) /\ v = txn[w].new
<1>1. ASSUME NEW d \in Doc, Upload(d)
      PROVE  /\ \A v \in VersionId : version[v] # None => version'[v] = version[v]
             /\ \A v \in VersionId : version[v] = None /\ version'[v] # None =>
                  v \in Provision /\ version'[v] = ParsedVersion(v) /\ ~Approved(v)'
  <2>1. \A p \in Provision : ParsedVersion(p).status = "PENDING"
    BY DEF ParsedVersion
  <2> QED
    BY <1>1, <2>1, UploadKeeps DEF VersionId, Approved
<1>2. CASE \E d \in Doc : Upload(d)
  BY <1>1, <1>2 DEF Approved
<1>3. CASE \E w \in Worker : ActivateCommit(w)
  <2>1. PICK w \in Worker : ActivateCommit(w)
    BY <1>3
  <2>2. txn[w].marked \subseteq Provision
    BY <2>1, ActivateCommitRows DEF ProvisionsOf
  <2>3. \A v \in txn[w].marked : version[v] # None
    BY <2>1, ActivateCommitRows, RowsAssumption
  <2>4. ASSUME NEW v \in VersionId, version[v] # None
        PROVE  /\ version'[v] # None /\ (Approved(v) => Approved(v)')
               /\ version'[v].prov = version[v].prov
               /\ version'[v].from = version[v].from
               /\ version'[v].pred = version[v].pred
               /\ version'[v].edits = version[v].edits
               /\ version'[v].to = version[v].to
    BY <2>1, <2>4, ActivateCommitRows DEF Approved
  <2>5. \A v \in VersionId : version[v] = None => version'[v] = None
    BY <2>1, <2>3, ActivateCommitRows
  <2>6. \A v \in VersionId : Approved(v)' /\ ~Approved(v) => v \in txn[w].marked
    BY <2>1, ActivateCommitRows DEF Approved
  <2> QED
    BY <2>1, <2>2, <2>3, <2>4, <2>5, <2>6
<1>4. CASE \E w \in Worker : ApproveCommit(w)
  <2>1. PICK w \in Worker : ApproveCommit(w)
    BY <1>4
  <2>2. ASSUME NEW v \in VersionId, version[v] # None
        PROVE  /\ version'[v] # None /\ (Approved(v) => Approved(v)')
               /\ version'[v].prov = version[v].prov
               /\ version'[v].from = version[v].from
               /\ version'[v].pred = version[v].pred
               /\ version'[v].edits = version[v].edits
               /\ \/ version'[v].to = version[v].to
                  \/ v = txn[w].old /\ txn[w].closes /\ version'[v].to = txn[w].date
    <3>1. CASE v = txn[w].old
      BY <2>1, <3>1, ApproveCommitRows DEF Approved
    <3>2. CASE v # txn[w].old
      <4>1. version'[v] = version[v]
        BY <2>1, <2>2, <3>2, ApproveCommitRows
      <4> QED
        BY <2>2, <4>1 DEF Approved
    <3> QED
      BY <3>1, <3>2
  <2>3. \A v \in VersionId : version[v] = None /\ version'[v] # None => v = txn[w].new
    BY <2>1, ApproveCommitRows DEF Approved
  <2>4. \A v \in VersionId : Approved(v)' /\ ~Approved(v) => v = txn[w].new
    BY <2>1, ApproveCommitRows DEF Approved
  <2> QED
    BY <2>1, <2>2, <2>3, <2>4
<1>5. CASE version' = version
  BY <1>5 DEF Approved
<1> QED
  BY <1>2, <1>3, <1>4, <1>5
  DEF Next, Decide, ApproveUnpatchable, Request, Proceed, Abort, DeadlockVictim, RollBack,
      ActivateBegin, ActivateRead, ActivateIndex, ActivateIndexFails, ApproveRead,
      ApproveFlush, ApproveIndexOld, ApproveIndexNew, DeleteBegin, DeleteCommit, db

\* What a step writes to the index: one chunk, with the window that the request that
\* writes it knows.
LEMMA ChunkStep ==
    ASSUME Sound, TypeOK', Next
    PROVE  \/ index' = index
           \/ \E w \in Worker :
                LET p == txn[w].current
                IN  /\ Activating(w) /\ (ActivateIndex(w) \/ ActivateIndexFails(w))
                    /\ p \in txn[w].marked /\ p \in Provision /\ version[p] # None
                    /\ index'[p] = [prov |-> p, from |-> FirstDate[p], to |-> Open]
                    /\ \A v \in VersionId \ {p} : index'[v] = index[v]
           \/ \E w \in Worker :
                /\ ApproveIndexOld(w) /\ Approving(w) /\ Approved(txn[w].old)
                /\ txn[w].old \in VersionId /\ index'[txn[w].old] = OldWindow(w)
                /\ \A v \in VersionId \ {txn[w].old} : index'[v] = index[v]
           \/ \E w \in Worker :
                /\ ApproveIndexNew(w) /\ Approving(w) /\ version[txn[w].new] = None
                /\ txn[w].new \in NewId /\ index'[txn[w].new] = NewWindow(w)
                /\ \A v \in VersionId \ {txn[w].new} : index'[v] = index[v]
<1> USE DEF Sound, TypeOK
<1>1. ASSUME NEW w \in Worker, ActivateIndex(w) \/ ActivateIndexFails(w), index' # index
      PROVE  LET p == txn[w].current
             IN  /\ Activating(w)
                 /\ p \in txn[w].marked /\ p \in Provision /\ version[p] # None
                 /\ index'[p] = [prov |-> p, from |-> FirstDate[p], to |-> Open]
                 /\ \A v \in VersionId \ {p} : index'[v] = index[v]
  <2> DEFINE p == txn[w].current
  <2>1. Activating(w) /\ p # None /\ IndexCurrent(w)
    BY <1>1 DEF ActivateIndex, ActivateIndexFails
  <2>2. /\ p \in txn[w].marked /\ p \in Provision
        /\ doc[txn[w].doc] # None /\ DocOf[p] = txn[w].doc
    BY <2>1 DEF InFlight, ActivationSound, Activating, Activation, ProvisionsOf
  <2>3. version[p] # None
    BY <2>2 DEF Records
  <2> QED
    BY <2>1, <2>2, <2>3 DEF IndexCurrent, VersionId
<1>2. ASSUME NEW w \in Worker, ApproveIndexOld(w)
      PROVE  /\ Approving(w) /\ Approved(txn[w].old) /\ txn[w].old \in VersionId
             /\ index'[txn[w].old] = OldWindow(w)
             /\ \A v \in VersionId \ {txn[w].old} : index'[v] = index[v]
  BY <1>2 DEF ApproveIndexOld, InFlight, ApprovalSound, Approving, Approval
<1>3. ASSUME NEW w \in Worker, ApproveIndexNew(w)
      PROVE  /\ Approving(w) /\ version[txn[w].new] = None /\ txn[w].new \in NewId
             /\ index'[txn[w].new] = NewWindow(w)
             /\ \A v \in VersionId \ {txn[w].new} : index'[v] = index[v]
  BY <1>3 DEF ApproveIndexNew, InFlight, ApprovalSound, Approving, Approval, VersionId
<1>4. CASE \A w \in Worker :
             /\ ~ActivateIndex(w) /\ ~ActivateIndexFails(w)
             /\ ~ApproveIndexOld(w) /\ ~ApproveIndexNew(w)
  BY <1>4
  DEF Next, Upload, Decide, ApproveUnpatchable, Request, Proceed, Abort,
      DeadlockVictim, RollBack, ActivateBegin, ActivateRead, ActivateCommit,
      ApproveRead, ApproveFlush, ApproveCommit, DeleteBegin, DeleteCommit
<1> QED
  BY <1>1, <1>2, <1>3, <1>4

\* The same approval, in another phase.
Later(t, s) == /\ t.event = s.event /\ t.old = s.old /\ t.new = s.new
               /\ t.date = s.date /\ t.closes = s.closes

\* An approval in flight after a step was there before, at the same phase or the one
\* before, or has just been read.
LEMMA ApprovalStep ==
    ASSUME Sound, TypeOK', Next, NEW w \in Worker, txn'[w] \in Approval
    PROVE  \/ txn'[w] = txn[w]
           \/ /\ Approving(w) /\ Later(txn'[w], txn[w])
              /\ \/ txn[w].step = "read" /\ txn'[w].step = "flushed" /\ ApproveFlush(w)
                 \/ txn[w].step = "flushed" /\ txn'[w].step = "closed" /\ ApproveIndexOld(w)
                 \/ txn[w].step = "closed" /\ txn'[w].step = "opened" /\ ApproveIndexNew(w)
           \/ /\ \E e \in Event : ApproveRead(w, e) /\ txn'[w].event = e
              /\ txn'[w].step = "read" /\ txn'[w].new \in NewId \ Issued
              /\ txn'[w].old \in Latest(event[txn'[w].event].target)
              /\ MayApprove(txn'[w].event)
<1> USE DEF Sound, TypeOK
<1>1. ASSUME NEW e \in Event, ApproveRead(w, e)
      PROVE  /\ txn'[w].event = e
             /\ txn'[w].step = "read" /\ txn'[w].new \in NewId \ Issued
             /\ txn'[w].old \in Latest(event[txn'[w].event].target)
             /\ MayApprove(txn'[w].event)
  BY <1>1 DEF ApproveRead
<1>2. ASSUME ApproveFlush(w) \/ ApproveIndexOld(w) \/ ApproveIndexNew(w)
      PROVE  /\ Approving(w) /\ Later(txn'[w], txn[w])
             /\ \/ txn[w].step = "read" /\ txn'[w].step = "flushed" /\ ApproveFlush(w)
                \/ txn[w].step = "flushed" /\ txn'[w].step = "closed" /\ ApproveIndexOld(w)
                \/ txn[w].step = "closed" /\ txn'[w].step = "opened" /\ ApproveIndexNew(w)
  BY <1>2 DEF ApproveFlush, ApproveIndexOld, ApproveIndexNew, Approving, Approval, Later
<1>3. ASSUME \/ \E d \in Doc : ActivateBegin(w, d) \/ DeleteBegin(w, d)
             \/ \E p \in Provision : ActivateRead(w, p)
             \/ ActivateIndex(w) \/ ActivateIndexFails(w)
             \/ ActivateCommit(w) \/ ApproveCommit(w) \/ DeleteCommit(w)
             \/ Abort(w) \/ DeadlockVictim(w)
      PROVE  txn'[w] \notin Approval
  <2>1. CASE \E d \in Doc : ActivateBegin(w, d) \/ DeleteBegin(w, d)
    <3>1. PICK d \in Doc : ActivateBegin(w, d) \/ DeleteBegin(w, d)
      BY <2>1
    <3>2. \/ txn'[w] = [doc |-> d, todo |-> ProvisionsOf(d), current |-> None,
                        marked |-> {}, flushed |-> {}, failed |-> {}]
          \/ txn'[w] = [deleting |-> d]
      BY <3>1 DEF ActivateBegin, DeleteBegin
    <3>3. /\ [deleting |-> d] \in Deletion
          /\ [doc |-> d, todo |-> ProvisionsOf(d), current |-> None, marked |-> {},
              flushed |-> {}, failed |-> {}] \in Activation
      BY DEF Deletion, Activation, ProvisionsOf
    <3> QED
      BY <3>2, <3>3, Kinds
  <2>2. CASE \/ \E p \in Provision : ActivateRead(w, p)
             \/ ActivateIndex(w) \/ ActivateIndexFails(w)
    <3>1. txn[w] \in Activation
      BY <2>2 DEF ActivateRead, ActivateIndex, ActivateIndexFails, Activating
    <3>2. ASSUME NEW p \in Provision, ActivateRead(w, p) PROVE txn'[w] \in Activation
      <4>1. txn'[w] = ReadOf(txn[w], p)
        BY <3>2 DEF ActivateRead
      <4> QED
        BY <3>1, <4>1, ActivationTypes
    <3>3. ASSUME ActivateIndex(w) PROVE txn'[w] \in Activation
      <4>1. txn'[w] = [txn[w] EXCEPT !.current = None]
        BY <3>3 DEF ActivateIndex
      <4>2. \E p \in Provision : TRUE
        BY <3>1, <3>3 DEF ActivateIndex, Activation
      <4> QED
        BY <3>1, <4>1, <4>2, ActivationTypes
    <3>4. ASSUME ActivateIndexFails(w) PROVE txn'[w] \in Activation
      <4>1. txn'[w] = FailureOf(txn[w])
        BY <3>4 DEF ActivateIndexFails
      <4>2. txn[w].current # None /\ \E p \in Provision : TRUE
        BY <3>1, <3>4 DEF ActivateIndexFails, Activation
      <4> QED
        BY <3>1, <4>1, <4>2, ActivationTypes
    <3> QED
      BY <2>2, <3>2, <3>3, <3>4, Kinds
  <2>3. CASE \/ ActivateCommit(w) \/ ApproveCommit(w) \/ DeleteCommit(w)
             \/ Abort(w) \/ DeadlockVictim(w)
    <3>1. txn'[w] = None
      BY <2>3 DEF ActivateCommit, ApproveCommit, DeleteCommit, Abort, DeadlockVictim,
                  RollBack, Finish
    <3> QED
      BY <3>1, Kinds
  <2> QED
    BY <1>3, <2>1, <2>2, <2>3
<1>4. ASSUME NEW u \in Worker, u # w,
             Request(u) \/ Proceed(u) \/ Abort(u) \/ DeadlockVictim(u)
      PROVE  txn'[w] = txn[w]
  BY <1>4
  DEF Request, Proceed, Abort, DeadlockVictim, RollBack, Finish, ActivateBegin, ActivateRead,
      ActivateIndex, ActivateIndexFails, ActivateCommit, ApproveRead, ApproveFlush,
      ApproveIndexOld, ApproveIndexNew, ApproveCommit, DeleteBegin, DeleteCommit
<1>5. ASSUME \/ \E d \in Doc : Upload(d)
             \/ \E t \in Task, answer \in Decisions : Decide(t, answer)
             \/ \E e \in Event : ApproveUnpatchable(e)
      PROVE  txn' = txn
  BY <1>5 DEF Upload, Decide, ApproveUnpatchable
<1> QED
  BY <1>1, <1>2, <1>3, <1>4, <1>5 DEF Next, Request, Proceed

\* The first version of a provision starts when its document does.
First == \A p \in Provision : version[p] # None => version[p].from = FirstDate[p]

\* A chunk is one of its row, but for the end of the window; without a row it is that of
\* the approval that draws its id, which has it written last; and what is not approved
\* has no end.
Chunks ==
    \A v \in VersionId : index[v] # None =>
        /\ version[v] # None => /\ index[v].prov = version[v].prov
                               /\ index[v].from = version[v].from
        /\ v \in Provision => version[v] # None
        /\ ~Approved(v) => index[v].to = Open
        /\ \A w \in Worker : Approving(w) /\ txn[w].new = v =>
             /\ txn[w].step = "opened"
             /\ index[v].from = txn[w].date
             /\ index[v].prov = version[txn[w].old].prov

\* A version whose window was closed has a successor.
Descent ==
    \A v \in VersionId : Approved(v) /\ version[v].to # Open =>
        \E n \in VersionId : Approved(n) /\ version[n].pred = v

\* No step moves the start of a first version.
LEMMA FirstStep == ASSUME Sound, TypeOK', First, Next PROVE First'
<1> SUFFICES ASSUME NEW p \in Provision, version'[p] # None
             PROVE  version'[p].from = FirstDate[p]
  BY DEF First
<1>1. CASE version[p] # None
  BY <1>1, RowsStep DEF First, VersionId
<1>2. CASE version[p] = None
  <2>1. \A w \in Worker : ApproveCommit(w) => txn[w].new # p
    BY ApproveCommitRows, RowsAssumption DEF Approval
  <2>2. version'[p] = ParsedVersion(p)
    BY <1>2, <2>1, RowsStep DEF VersionId
  <2> QED
    BY <2>2 DEF ParsedVersion
<1> QED
  BY <1>1, <1>2

\* Every step keeps the chunks those of their rows.
LEMMA ChunksStep == ASSUME Sound, Sound', First, Chunks, Next PROVE Chunks'
<1> SUFFICES ASSUME NEW v \in VersionId, index'[v] # None
             PROVE  /\ version'[v] # None => /\ index'[v].prov = version'[v].prov
                                            /\ index'[v].from = version'[v].from
                    /\ v \in Provision => version'[v] # None
                    /\ ~Approved(v)' => index'[v].to = Open
                    /\ \A w \in Worker : Approving(w)' /\ txn'[w].new = v =>
                         /\ txn'[w].step = "opened"
                         /\ index'[v].from = txn'[w].date
                         /\ index'[v].prov = version'[txn'[w].old].prov
  BY DEF Chunks
<1>0. TypeOK /\ TypeOK' /\ InFlight /\ InFlight' /\ Records
  BY DEF Sound
<1>1. \A w \in Worker : Approving(w) =>
        /\ Approved(txn[w].old) /\ txn[w].old \in VersionId /\ txn[w].new \in NewId
        /\ version'[txn[w].old].prov = version[txn[w].old].prov
  <2>1. \A w \in Worker : Approving(w) =>
          Approved(txn[w].old) /\ txn[w].old \in VersionId /\ txn[w].new \in NewId
    BY <1>0 DEF InFlight, ApprovalSound, Approving, Approval
  <2> QED
    BY <1>0, <2>1, RowsStep DEF Approved
<1>2. \A w \in Worker : Approving(w)' =>
        txn'[w] \in Approval /\ txn'[w].new \in NewId /\ version'[txn'[w].new] = None
  BY <1>0 DEF InFlight, ApprovalSound, Approving, Approval
<1>3. Approved(v) => Approved(v)'
  BY <1>0, RowsStep DEF Approved
<1>4. CASE index'[v] = index[v]
  <2>1. ASSUME version'[v] # None
        PROVE  index'[v].prov = version'[v].prov /\ index'[v].from = version'[v].from
    <3>1. CASE version[v] # None
      BY <1>0, <1>4, <3>1, RowsStep DEF Chunks
    <3>2. CASE version[v] = None
      <4>1. v \notin Provision
        BY <1>4, <3>2 DEF Chunks
      <4>2. PICK w \in Worker : ApproveCommit(w) /\ v = txn[w].new
        BY <1>0, <2>1, <3>2, <4>1, RowsStep
      <4>3. Approving(w)
        BY <4>2 DEF ApproveCommit
      <4>4. index[v].from = txn[w].date /\ index[v].prov = version[txn[w].old].prov
        BY <1>4, <4>2, <4>3 DEF Chunks
      <4> QED
        BY <1>4, <4>2, <4>4, ApproveCommitRows
    <3> QED
      BY <3>1, <3>2
  <2>2. v \in Provision => version'[v] # None
    BY <1>0, <1>4, RowsStep DEF Chunks
  <2>3. ~Approved(v)' => index'[v].to = Open
    BY <1>3, <1>4 DEF Chunks
  <2>4. ASSUME NEW w \in Worker, Approving(w)', txn'[w].new = v
        PROVE  /\ txn'[w].step = "opened" /\ index'[v].from = txn'[w].date
               /\ index'[v].prov = version'[txn'[w].old].prov
    <3>1. index[v] # None /\ v \in Issued
      BY <1>4 DEF Issued
    <3>2. txn'[w] = txn[w]
      BY <1>0, <1>2, <2>4, <3>1, ApprovalStep DEF Chunks, Later
    <3>3. Approving(w)
      BY <2>4, <3>2 DEF Approving
    <3> QED
      BY <1>1, <1>4, <2>4, <3>1, <3>2, <3>3 DEF Chunks
  <2> QED
    BY <2>1, <2>2, <2>3, <2>4
<1>5. ASSUME NEW w \in Worker,
             LET p == txn[w].current
             IN  /\ Activating(w) /\ (ActivateIndex(w) \/ ActivateIndexFails(w))
                 /\ p \in txn[w].marked /\ p \in Provision /\ version[p] # None
                 /\ index'[p] = [prov |-> p, from |-> FirstDate[p], to |-> Open]
                 /\ \A u \in VersionId \ {p} : index'[u] = index[u],
             v = txn[w].current
      PROVE  /\ version'[v] # None => /\ index'[v].prov = version'[v].prov
                                     /\ index'[v].from = version'[v].from
             /\ v \in Provision => version'[v] # None
             /\ ~Approved(v)' => index'[v].to = Open
             /\ \A u \in Worker : Approving(u)' => txn'[u].new # v
  <2>1. version'[v] # None /\ version'[v].prov = v /\ version'[v].from = FirstDate[v]
    BY <1>0, <1>5, RowsStep DEF Records, First
  <2> QED
    BY <1>2, <1>5, <2>1, RowsAssumption
<1>6. ASSUME NEW w \in Worker, ApproveIndexOld(w), Approving(w), v = txn[w].old,
             index'[v] = OldWindow(w)
      PROVE  /\ version'[v] # None => /\ index'[v].prov = version'[v].prov
                                     /\ index'[v].from = version'[v].from
             /\ v \in Provision => version'[v] # None
             /\ ~Approved(v)' => index'[v].to = Open
             /\ \A u \in Worker : Approving(u)' => txn'[u].new # v
  <2>1. Approved(v) /\ version[v] # None
    BY <1>1, <1>6 DEF Approved
  <2>2. /\ version'[v] # None /\ version'[v].prov = version[v].prov
        /\ version'[v].from = version[v].from
    BY <1>0, <2>1, RowsStep
  <2> QED
    BY <1>2, <1>3, <1>6, <2>1, <2>2 DEF OldWindow
<1>7. ASSUME NEW w \in Worker, ApproveIndexNew(w), Approving(w), v = txn[w].new,
             index'[v] = NewWindow(w)
      PROVE  /\ version'[v] = None
             /\ v \in Provision => version'[v] # None
             /\ ~Approved(v)' => index'[v].to = Open
             /\ \A u \in Worker : Approving(u)' /\ txn'[u].new = v =>
                  /\ txn'[u].step = "opened"
                  /\ index'[v].from = txn'[u].date
                  /\ index'[v].prov = version'[txn'[u].old].prov
  <2>1. version' = version /\ version[v] = None /\ v \in NewId
    <3>1. version' = version
      BY <1>7 DEF ApproveIndexNew, db
    <3>2. version[txn[w].new] = None
      BY <1>0, <1>7 DEF InFlight, ApprovalSound
    <3> QED
      BY <1>1, <1>7, <3>1, <3>2
  <2>2. /\ txn'[w] = [txn[w] EXCEPT !.step = "opened"] /\ txn[w] \in Approval
    BY <1>0, <1>7 DEF ApproveIndexNew, Approving, TypeOK
  <2>3. /\ txn'[w] \in Approval /\ Later(txn'[w], txn[w]) /\ txn'[w].step = "opened"
    BY <2>2 DEF Approval, Later
  <2>4. \A u \in Worker : Approving(u)' /\ txn'[u].new = v => u = w
    BY <1>0, <1>7, <2>3 DEF InFlight, FreshIds, Approving, Later
  <2> QED
    BY <1>7, <2>1, <2>3, <2>4, RowsAssumption DEF NewWindow, Later
<1> QED
  BY <1>0, <1>4, <1>5, <1>6, <1>7, ChunkStep

\* Every step leaves a closed version with a successor: the window is closed by the
\* commit that publishes one.
LEMMA DescentStep == ASSUME Sound, Sound', Descent, Next PROVE Descent'
<1> SUFFICES ASSUME NEW v \in VersionId, Approved(v)', version'[v].to # Open
             PROVE  \E n \in VersionId : Approved(n)' /\ version'[n].pred = v
  BY DEF Descent
<1>0. TypeOK /\ TypeOK'
  BY DEF Sound
<1>1. ASSUME NEW w \in Worker, ApproveCommit(w), v = txn[w].old
      PROVE  \E n \in VersionId : Approved(n)' /\ version'[n].pred = v
  BY <1>1, ApproveCommitRows DEF Approved
<1>2. CASE \A w \in Worker : ApproveCommit(w) => v # txn[w].old
  <2>1. \A w \in Worker : ApproveCommit(w) => v # txn[w].new
    BY ApproveCommitRows
  <2>2. version[v] # None
    <3>1. CASE version[v] = None
      <4>1. ~Approved(v)'
        BY <1>0, <2>1, <3>1, RowsStep DEF Approved
      <4> QED
        BY <4>1
    <3> QED
      BY <3>1
  <2>3. version'[v].to = version[v].to
    BY <1>0, <1>2, <2>2, RowsStep
  <2>4. Approved(v)
    <3>1. CASE ~Approved(v)
      <4>1. v \in Provision
        BY <1>0, <2>1, <3>1, RowsStep
      <4>2. version[v] = ParsedVersion(v)
        BY <2>2, <3>1, <4>1 DEF Sound, Records
      <4>3. version[v].to = Open
        BY <4>2 DEF ParsedVersion
      <4> QED
        BY <2>3, <4>3
    <3> QED
      BY <3>1
  <2>5. PICK n \in VersionId : Approved(n) /\ version[n].pred = v
    BY <2>3, <2>4 DEF Descent
  <2>6. Approved(n)' /\ version'[n].pred = v
    BY <1>0, <2>5, RowsStep DEF Approved
  <2> QED
    BY <2>6
<1> QED
  BY <1>1, <1>2

\* What was superseded twice stays so.
LEMMA TwiceStays ==
    ASSUME Sound, TypeOK', Next, NEW v \in VersionId, SupersededTwice(v)
    PROVE  SupersededTwice(v)'
<1>1. PICK m, n \in VersionId : /\ m # n /\ Approved(m) /\ Approved(n)
                                /\ version[m].pred = v /\ version[n].pred = v
  BY DEF SupersededTwice
<1>2. /\ Approved(m)' /\ Approved(n)'
      /\ version'[m].pred = v /\ version'[n].pred = v
  BY <1>1, RowsStep DEF Approved
<1> QED
  BY <1>1, <1>2 DEF SupersededTwice

\* While no transaction has failed, the window of an approved version's chunk ends where
\* the row's does, or is open, or ends where an approval in flight is about to move the
\* row's end; unless the version was superseded twice.
Windows ==
    clean => \A v \in VersionId : Approved(v) /\ index[v] # None =>
        \/ index[v].to \in {Open, version[v].to}
        \/ \E w \in Worker : /\ Approving(w) /\ txn[w].old = v
                             /\ txn[w].step \in {"closed", "opened"}
                             /\ index[v].to = txn[w].date
        \/ SupersededTwice(v)

\* An approval in flight stays, moves on, commits, or is rolled back.
LEMMA ApprovalEnds ==
    ASSUME Sound, TypeOK', Next, NEW w \in Worker, Approving(w), clean'
    PROVE  \/ txn'[w] = txn[w]
           \/ Approving(w)' /\ Later(txn'[w], txn[w])
              /\ (txn[w].step \in {"closed", "opened"}
                    => txn'[w].step \in {"closed", "opened"})
           \/ ApproveCommit(w)
<1> USE DEF Sound, TypeOK
<1>1. txn[w] \notin Activation /\ txn[w] \notin Deletion /\ txn[w] # None
  BY Kinds DEF Approving
<1>2. ASSUME ApproveFlush(w) \/ ApproveIndexOld(w) \/ ApproveIndexNew(w)
      PROVE  /\ Approving(w)' /\ Later(txn'[w], txn[w])
             /\ (txn[w].step \in {"closed", "opened"}
                   => txn'[w].step \in {"closed", "opened"})
  <2>1. /\ txn[w] \in Approval
        /\ \/ txn'[w] = [txn[w] EXCEPT !.step = "flushed"] /\ txn[w].step = "read"
           \/ txn'[w] = [txn[w] EXCEPT !.step = "closed"]
           \/ txn'[w] = [txn[w] EXCEPT !.step = "opened"]
    BY <1>2 DEF ApproveFlush, ApproveIndexOld, ApproveIndexNew, Approving
  <2> QED
    BY <2>1 DEF Approving, Approval, Later
<1>3. ~RollBack(w)
  BY DEF RollBack
<1>4. ~Request(w)
  BY <1>1 DEF Request, ActivateBegin, DeleteBegin, ApproveRead, Idle
<1>5. ASSUME Proceed(w)
      PROVE  \/ ApproveFlush(w) \/ ApproveIndexOld(w) \/ ApproveIndexNew(w)
             \/ ApproveCommit(w)
  BY <1>1, <1>5 DEF Proceed, ActivateRead, ActivateIndex, ActivateIndexFails, ActivateCommit,
                    DeleteCommit, Activating
<1>6. ASSUME NEW u \in Worker, u # w,
             Request(u) \/ Proceed(u) \/ Abort(u) \/ DeadlockVictim(u)
      PROVE  txn'[w] = txn[w]
  BY <1>6
  DEF Request, Proceed, Abort, DeadlockVictim, RollBack, Finish, ActivateBegin, ActivateRead,
      ActivateIndex, ActivateIndexFails, ActivateCommit, ApproveRead, ApproveFlush,
      ApproveIndexOld, ApproveIndexNew, ApproveCommit, DeleteBegin, DeleteCommit
<1>7. ASSUME \/ \E d \in Doc : Upload(d)
             \/ \E t \in Task, answer \in Decisions : Decide(t, answer)
             \/ \E e \in Event : ApproveUnpatchable(e)
      PROVE  txn' = txn
  BY <1>7 DEF Upload, Decide, ApproveUnpatchable
<1> QED
  BY <1>2, <1>3, <1>4, <1>5, <1>6, <1>7 DEF Next, Abort, DeadlockVictim

\* An activation in flight keeps the versions it has marked, commits, or is rolled back.
LEMMA ActivationEnds ==
    ASSUME Sound, TypeOK', Next, NEW w \in Worker, Activating(w), clean'
    PROVE  \/ Activating(w)' /\ txn[w].marked \subseteq txn'[w].marked
           \/ ActivateCommit(w)
<1> USE DEF Sound, TypeOK
<1>1. txn[w] \notin Approval /\ txn[w] \notin Deletion /\ txn[w] # None
  BY Kinds DEF Activating
<1>2. ASSUME NEW p \in Provision, ActivateRead(w, p)
      PROVE  Activating(w)' /\ txn[w].marked \subseteq txn'[w].marked
  <2>1. txn'[w] = ReadOf(txn[w], p) /\ txn[w] \in Activation
    BY <1>2 DEF ActivateRead, Activating
  <2>2. ReadOf(txn[w], p) \in Activation
    BY <2>1, ActivationTypes
  <2>3. txn[w].marked \subseteq ReadOf(txn[w], p).marked
    BY <2>1 DEF ReadOf, Activation
  <2> QED
    BY <2>1, <2>2, <2>3 DEF Activating
<1>3. ASSUME ActivateIndex(w)
      PROVE  Activating(w)' /\ txn[w].marked \subseteq txn'[w].marked
  <2>1. txn'[w] = [txn[w] EXCEPT !.current = None] /\ txn[w] \in Activation
    BY <1>3 DEF ActivateIndex, Activating
  <2>2. txn'[w] \in Activation /\ txn'[w].marked = txn[w].marked
    BY <2>1 DEF Activation
  <2> QED
    BY <2>2 DEF Activating
<1>4. ASSUME ActivateIndexFails(w)
      PROVE  Activating(w)' /\ txn[w].marked \subseteq txn'[w].marked
  <2>1. txn'[w] = FailureOf(txn[w]) /\ txn[w] \in Activation /\ txn[w].current # None
    BY <1>4 DEF ActivateIndexFails, Activating
  <2>2. FailureOf(txn[w]) \in Activation
    <3>1. \E p \in Provision : TRUE
      BY <2>1 DEF Activation
    <3> QED
      BY <2>1, <3>1, ActivationTypes
  <2>3. FailureOf(txn[w]).marked = txn[w].marked
    BY <2>1 DEF FailureOf, Activation
  <2> QED
    BY <2>1, <2>2, <2>3 DEF Activating
<1>5. ~RollBack(w)
  BY DEF RollBack
<1>6. ~Request(w)
  BY <1>1 DEF Request, ActivateBegin, DeleteBegin, ApproveRead, Idle
<1>7. ASSUME Proceed(w)
      PROVE  \/ \E p \in Provision : ActivateRead(w, p)
             \/ ActivateIndex(w) \/ ActivateIndexFails(w) \/ ActivateCommit(w)
  BY <1>1, <1>7 DEF Proceed, ApproveFlush, ApproveIndexOld, ApproveIndexNew, ApproveCommit,
                    DeleteCommit, Approving
<1>8. ASSUME NEW u \in Worker, u # w,
             Request(u) \/ Proceed(u) \/ Abort(u) \/ DeadlockVictim(u)
      PROVE  txn'[w] = txn[w]
  BY <1>8
  DEF Request, Proceed, Abort, DeadlockVictim, RollBack, Finish, ActivateBegin, ActivateRead,
      ActivateIndex, ActivateIndexFails, ActivateCommit, ApproveRead, ApproveFlush,
      ApproveIndexOld, ApproveIndexNew, ApproveCommit, DeleteBegin, DeleteCommit
<1>9. ASSUME \/ \E d \in Doc : Upload(d)
             \/ \E t \in Task, answer \in Decisions : Decide(t, answer)
             \/ \E e \in Event : ApproveUnpatchable(e)
      PROVE  txn' = txn
  BY <1>9 DEF Upload, Decide, ApproveUnpatchable
<1>10. txn'[w] = txn[w] => Activating(w)' /\ txn[w].marked \subseteq txn'[w].marked
  BY DEF Activating
<1> QED
  BY <1>2, <1>3, <1>4, <1>5, <1>6, <1>7, <1>8, <1>9, <1>10 DEF Next, Abort, DeadlockVictim

\* Once a transaction has failed, the flag that says so stays.
LEMMA CleanBefore == ASSUME Next, clean' PROVE clean
  BY DEF Next, Upload, Decide, ApproveUnpatchable, Request, Proceed, Abort, DeadlockVictim,
         RollBack, ActivateBegin, ActivateRead, ActivateIndex, ActivateIndexFails,
         ActivateCommit, ApproveRead, ApproveFlush, ApproveIndexOld, ApproveIndexNew,
         ApproveCommit, DeleteBegin, DeleteCommit

\* Every step keeps the windows of the chunks.  A commit that moves the end of a row away
\* from its chunk's supersedes the version for a second time.
LEMMA WindowsStep ==
    ASSUME Sound, Sound', Chunks, Descent, Windows, Next PROVE Windows'
<1> SUFFICES ASSUME clean', NEW v \in VersionId, Approved(v)', index'[v] # None
             PROVE  \/ index'[v].to \in {Open, version'[v].to}
                    \/ \E w \in Worker : /\ Approving(w)' /\ txn'[w].old = v
                                         /\ txn'[w].step \in {"closed", "opened"}
                                         /\ index'[v].to = txn'[w].date
                    \/ SupersededTwice(v)'
  BY DEF Windows
<1>0. TypeOK /\ TypeOK' /\ InFlight /\ clean
  BY CleanBefore DEF Sound
<1>1. ASSUME NEW w \in Worker, ApproveCommit(w), v = txn[w].old,
             version[v].to # Open
      PROVE  SupersededTwice(v)'
  <2>1. PICK n \in VersionId : Approved(n) /\ version[n].pred = v
    BY <1>1, ApproveCommitRows DEF Descent
  <2>2. Approved(n)' /\ version'[n].pred = v
    BY <1>0, <2>1, RowsStep DEF Approved
  <2>3. PICK m \in VersionId : m = txn[w].new
    BY <1>1, ApproveCommitRows
  <2>4. m # n /\ Approved(m)' /\ version'[m].pred = v
    BY <1>1, <2>1, <2>3, ApproveCommitRows DEF Approved
  <2> QED
    BY <2>2, <2>4 DEF SupersededTwice
<1>2. ASSUME index'[v] = index[v], ~Approved(v)
      PROVE  index'[v].to = Open
  BY <1>2 DEF Chunks
<1>3. ASSUME index'[v] = index[v], Approved(v), index[v].to = version[v].to
      PROVE  index'[v].to \in {Open, version'[v].to} \/ SupersededTwice(v)'
  BY <1>0, <1>1, <1>3, RowsStep DEF Approved
<1>4. ASSUME index'[v] = index[v], NEW w \in Worker, Approving(w), txn[w].old = v,
             txn[w].step \in {"closed", "opened"}, index[v].to = txn[w].date
      PROVE  \/ index'[v].to = version'[v].to
             \/ /\ Approving(w)' /\ txn'[w].old = v
                /\ txn'[w].step \in {"closed", "opened"} /\ index'[v].to = txn'[w].date
             \/ SupersededTwice(v)'
  <2>1. CASE ApproveCommit(w)
    <3>1. CASE txn[w].closes
      BY <1>4, <2>1, <3>1, ApproveCommitRows
    <3>2. CASE ~txn[w].closes
      BY <1>0, <1>1, <1>4, <2>1, <3>2 DEF InFlight, ApprovalSound
    <3> QED
      BY <3>1, <3>2
  <2>2. CASE txn'[w] = txn[w]
    BY <1>4, <2>2 DEF Approving
  <2>3. CASE /\ Approving(w)' /\ Later(txn'[w], txn[w])
             /\ txn'[w].step \in {"closed", "opened"}
    BY <1>4, <2>3 DEF Later
  <2> QED
    BY <1>0, <1>4, <2>1, <2>2, <2>3, ApprovalEnds
<1>5. CASE index'[v] = index[v]
  <2>1. CASE ~Approved(v)
    BY <1>2, <1>5, <2>1
  <2>2. CASE Approved(v)
    <3>1. \/ index[v].to \in {Open, version[v].to}
          \/ \E w \in Worker : /\ Approving(w) /\ txn[w].old = v
                               /\ txn[w].step \in {"closed", "opened"}
                               /\ index[v].to = txn[w].date
          \/ SupersededTwice(v)
      BY <1>0, <1>5, <2>2 DEF Windows
    <3>2. SupersededTwice(v) => SupersededTwice(v)'
      BY <1>0, TwiceStays
    <3> QED
      BY <1>3, <1>4, <1>5, <2>2, <3>1, <3>2
  <2> QED
    BY <2>1, <2>2
<1>6. ASSUME NEW w \in Worker, ApproveIndexOld(w), Approving(w), v = txn[w].old,
             index'[v] = OldWindow(w)
      PROVE  /\ Approving(w)' /\ txn'[w].old = v
             /\ txn'[w].step = "closed" /\ index'[v].to = txn'[w].date
  <2>1. txn'[w] = [txn[w] EXCEPT !.step = "closed"] /\ txn[w] \in Approval
    BY <1>0, <1>6 DEF ApproveIndexOld, Approving, TypeOK
  <2>2. /\ txn'[w] \in Approval /\ txn'[w].old = v /\ txn'[w].step = "closed"
        /\ txn'[w].date = txn[w].date
    BY <1>6, <2>1 DEF Approval
  <2> QED
    BY <1>6, <2>2 DEF OldWindow, Approving
<1>7. [prov |-> v, from |-> FirstDate[v], to |-> Open].to = Open
  OBVIOUS
<1>8. \A w \in Worker : NewWindow(w).to = Open
  BY DEF NewWindow
<1>9. CASE index'[v] # index[v]
  <2>1. CASE index'[v] = [prov |-> v, from |-> FirstDate[v], to |-> Open]
    BY <1>7, <2>1
  <2>2. CASE \E w \in Worker : /\ ApproveIndexOld(w) /\ Approving(w) /\ v = txn[w].old
                               /\ index'[v] = OldWindow(w)
    BY <1>6, <2>2
  <2>3. CASE \E w \in Worker : index'[v] = NewWindow(w)
    BY <1>8, <2>3
  <2> QED
    BY <1>0, <1>9, <2>1, <2>2, <2>3, ChunkStep
<1> QED
  BY <1>5, <1>9

\* Every step keeps the chunks accounted for: who writes one either commits it or is
\* rolled back.
LEMMA AccountedStep == ASSUME Sound, Sound', IndexAccounted, Next PROVE IndexAccounted'
<1> SUFFICES ASSUME clean', NEW v \in VersionId, index'[v] # None
             PROVE  Approved(v)' \/ \E w \in Worker : Writing(w, v)'
  BY DEF IndexAccounted
<1>0. TypeOK /\ TypeOK' /\ InFlight /\ clean
  BY CleanBefore DEF Sound
<1>1. Approved(v) => Approved(v)'
  BY <1>0, RowsStep DEF Approved
<1>2. ASSUME NEW w \in Worker, Writing(w, v) PROVE Approved(v)' \/ Writing(w, v)'
  <2>1. CASE Approving(w) /\ v = txn[w].new
    <3>1. CASE ApproveCommit(w)
      BY <2>1, <3>1, ApproveCommitRows DEF Approved
    <3>2. CASE Approving(w)' /\ txn'[w].new = v
      BY <3>2 DEF Writing
    <3> QED
      BY <1>0, <2>1, <3>1, <3>2, ApprovalEnds DEF Later, Approving
  <2>2. CASE Activating(w) /\ v \in txn[w].marked
    <3>1. CASE ActivateCommit(w)
      BY <2>2, <3>1, ActivateCommitRows DEF Approved
    <3>2. CASE Activating(w)' /\ v \in txn'[w].marked
      BY <3>2 DEF Writing
    <3> QED
      BY <1>0, <2>2, <3>1, <3>2, ActivationEnds
  <2> QED
    BY <1>2, <2>1, <2>2 DEF Writing
<1>3. CASE index[v] # None
  BY <1>0, <1>1, <1>2, <1>3 DEF IndexAccounted
<1>4. CASE index[v] = None
  <2>1. ASSUME NEW w \in Worker, Activating(w), v \in txn[w].marked
        PROVE  \E u \in Worker : Writing(u, v)
    BY <2>1 DEF Writing
  <2>2. ASSUME NEW w \in Worker, Approving(w), v = txn[w].new
        PROVE  \E u \in Worker : Writing(u, v)
    BY <2>2 DEF Writing
  <2>3. Approved(v) \/ \E u \in Worker : Writing(u, v)
    <3>1. CASE \E w \in Worker : /\ Activating(w) /\ txn[w].current \in txn[w].marked
                                 /\ v = txn[w].current
      BY <2>1, <3>1
    <3>2. CASE \E w \in Worker : Approving(w) /\ v = txn[w].new
      BY <2>2, <3>2
    <3>3. CASE \E w \in Worker : Approved(txn[w].old) /\ v = txn[w].old
      BY <3>3
    <3> QED
      BY <1>0, <1>4, <3>1, <3>2, <3>3, ChunkStep
  <2> QED
    BY <1>1, <1>2, <2>3
<1> QED
  BY <1>3, <1>4

\* What the search index holds, in every reachable state.
Indexed == First /\ Chunks /\ Descent /\ Windows /\ IndexAccounted

\* Indexed is an invariant: it is inductive relative to Sound.
LEMMA IndexInvariance == Spec => []Indexed
<1>1. Init => Indexed
  BY DEF Init, Indexed, First, Chunks, Descent, Windows, IndexAccounted, Approved, VersionId
<1>2. Sound /\ Sound' /\ Indexed /\ [Next]_vars => Indexed'
  <2> SUFFICES ASSUME Sound, Sound', Indexed, [Next]_vars PROVE Indexed'
    OBVIOUS
  <2>1. CASE Next
    BY <2>1, FirstStep, ChunksStep, DescentStep, WindowsStep, AccountedStep
    DEF Indexed, Sound
  <2>2. CASE UNCHANGED vars
    <3>1. /\ version' = version /\ index' = index /\ txn' = txn /\ clean' = clean
      BY <2>2 DEF vars, db
    <3> QED
      BY <3>1 DEF Indexed, First, Chunks, Descent, Windows, IndexAccounted, Approved,
                  Approving, Activating, Writing, SupersededTwice
  <2> QED
    BY <2>1, <2>2
<1> QED
  BY <1>1, <1>2, Invariance, PTL DEF Spec

\* While no transaction has failed, every chunk belongs to an approved version or to one
\* that a request in flight is approving.
THEOREM ChunksAccounted == Spec => []IndexAccounted
<1>1. Indexed => IndexAccounted
  BY DEF Indexed
<1> QED
  BY <1>1, IndexInvariance, PTL

\* What is in force is found.
LEMMA Found == ASSUME Sound, Indexed PROVE NothingHidden
<1> SUFFICES ASSUME clean, \A w \in Worker : Idle(w),
                    NEW v \in VersionId, NEW t \in Date, TL!InForce(v, t)
             PROVE  Searchable(v, t) \/ OutOfSync(v) \/ SupersededTwice(v)
  BY DEF NothingHidden
<1>1. Approved(v) /\ version[v].from <= t /\ t < version[v].to
  <2>1. Approved(v)
    BY LawRows DEF TL!InForce, TL!Published, Sound
  <2>2. law[v] = PublishedRow(version[v])
    BY <2>1, LawRows DEF Sound
  <2> QED
    BY <2>1, <2>2 DEF TL!InForce, PublishedRow
<1>2. \A w \in Worker : ~Approving(w)
  BY Kinds DEF Idle, Approving
<1>3. CASE index[v] # None
  <2>1. index[v].from = version[v].from
    BY <1>1, <1>3 DEF Indexed, Chunks, Approved
  <2>2. index[v].to \in {Open, version[v].to} \/ SupersededTwice(v)
    BY <1>1, <1>2, <1>3 DEF Indexed, Windows
  <2>3. t < Open
    BY DatesAssumption
  <2> QED
    BY <1>1, <1>3, <2>1, <2>2, <2>3 DEF Searchable
<1>4. CASE index[v] = None
  BY <1>1, <1>4 DEF Sound, IndexedOrFlagged
<1> QED
  BY <1>3, <1>4

\* What is in force by the database is found by a search for that day, flagged, or was
\* superseded twice, whatever requests overlapped on its document.
THEOREM NothingIsHidden == Spec => []NothingHidden
<1>1. Sound /\ Indexed => NothingHidden
  BY Found
<1> QED
  BY <1>1, Invariance, IndexInvariance, PTL

-----------------------------------------------------------------------------
(* The edits of amendments *)

\* An amendment is stored with the document that declares it; one that was approved has
\* a published target, and an approval in flight amends the target of its event.
Targets ==
    /\ \A e \in Event : event[e] # None =>
         /\ doc[AmendingDoc[e]] # None
         /\ event[e].status = "APPROVED"
              => event[e].target \in Provision /\ Approved(event[e].target)
    /\ \A w \in Worker :
         Approving(w) => event[txn[w].event].target = version[txn[w].old].prov

\* Timeline's invariant, of what is published here.
LEMMA LawInvariance == Spec => []TP!IInv
<1>1. TP!Spec => []TP!IInv
  BY TP!Invariance, TimelineAssumptions, PTL
<1> USE DEF TP!VersionId, TL!VersionId, TP!Published, TL!Published
<1>2. TL!Init => TP!Init
  BY DEF TL!Init, TP!Init
<1>3. [TL!Next]_law => [TP!Next]_law
  BY DEF TL!Next, TP!Next, TL!Enact, TP!Enact, TL!Amend, TP!Amend, TL!AmendAgain,
         TP!AmendAgain, TL!FirstRow, TP!FirstRow, TL!Successor, TP!Successor
<1> QED
  BY <1>1, <1>2, <1>3, Refinement, PTL DEF ImplementsTimeline, TL!Spec, TP!Spec

\* No step retargets an amendment; it is approved by the commit of its approval.
LEMMA EventStep ==
    ASSUME Sound, TypeOK', Targets, Next, NEW e \in Event
    PROVE  /\ event[e] # None =>
                /\ event'[e] # None /\ event'[e].target = event[e].target
                /\ \/ event'[e].status = event[e].status
                   \/ \E w \in Worker : ApproveCommit(w) /\ e = txn[w].event
           /\ event[e] = None /\ event'[e] # None =>
                event'[e].status = "PENDING" /\ doc'[AmendingDoc[e]] # None
<1> USE DEF Sound, TypeOK
<1>1. ASSUME NEW d \in Doc, Upload(d)
      PROVE  /\ event[e] # None => event'[e] = event[e]
             /\ event[e] = None /\ event'[e] # None =>
                  event'[e].status = "PENDING" /\ doc'[AmendingDoc[e]] # None
  <2>1. CASE e \in EventsOf(d)
    <3>1. doc[d] = None /\ d = AmendingDoc[e]
      BY <1>1, <2>1 DEF Upload, EventsOf
    <3>2. event[e] = None
      BY <3>1 DEF Targets
    <3>3. \E p \in Provision \cup {None} : event'[e] = NewEvent(e, p)
      BY <1>1, <2>1 DEF Upload
    <3>4. event'[e].status = "PENDING"
      BY <3>3 DEF NewEvent
    <3>5. doc'[d] # None
      <4>1. [processing |-> "PARSED", approval |-> "PENDING", unsynced |-> {}] \in DocRow
        BY DEF DocRow
      <4> QED
        BY <1>1, <4>1, RowsAssumption DEF Upload
    <3> QED
      BY <3>1, <3>2, <3>4, <3>5
  <2>2. CASE e \notin EventsOf(d)
    <3>1. event'[e] = event[e]
      BY <1>1, <2>2 DEF Upload
    <3> QED
      BY <3>1
  <2> QED
    BY <2>1, <2>2
<1>2. ASSUME NEW w \in Worker, ApproveCommit(w)
      PROVE  event[e] # None =>
                /\ event'[e] # None /\ event'[e].target = event[e].target
                /\ event'[e].status = event[e].status \/ e = txn[w].event
  <2>1. txn[w].event \in Event /\ event[txn[w].event] \in EventRow
    BY <1>2, ApproveCommitRows DEF InFlight, ApprovalSound, Approving
  <2>2. CASE e = txn[w].event
    <3> DEFINE row == [event[e] EXCEPT !.status = "APPROVED", !.date = txn[w].date,
                                      !.before = txn[w].old, !.after = txn[w].new]
    <3>1. row \in EventRow /\ row.target = event[e].target
      <4>1. txn[w].date \in Date /\ txn[w].old \in VersionId /\ txn[w].new \in VersionId
        BY <1>2, ApproveCommitRows
      <4> QED
        BY <2>1, <2>2, <4>1 DEF EventRow
    <3>2. event'[e] = row
      BY <1>2, <2>1, <2>2 DEF ApproveCommit, EventRow
    <3> HIDE DEF row
    <3> QED
      BY <2>2, <3>1, <3>2, RowsAssumption
  <2>3. CASE e # txn[w].event
    BY <1>2, <2>3 DEF ApproveCommit
  <2> QED
    BY <2>2, <2>3
<1>3. ASSUME NEW w \in Worker, ApproveCommit(w), event[e] = None PROVE event'[e] = None
  <2>1. e # txn[w].event
    BY <1>3, ApproveCommitRows DEF InFlight, ApprovalSound, Approving
  <2> QED
    BY <1>3, <2>1 DEF ApproveCommit
<1>4. CASE /\ \A d \in Doc : ~Upload(d)
           /\ \A w \in Worker : ~ApproveCommit(w)
  <2>1. event' = event
    BY <1>4
    DEF Next, Decide, ApproveUnpatchable, Request, Proceed, Abort, DeadlockVictim,
        RollBack, ActivateBegin, ActivateRead, ActivateIndex, ActivateIndexFails,
        ActivateCommit, ApproveRead, ApproveFlush, ApproveIndexOld, ApproveIndexNew,
        DeleteBegin, DeleteCommit, db
  <2> QED
    BY <2>1
<1> QED
  BY <1>1, <1>2, <1>3, <1>4

\* A published version's row, field by field.
LEMMA LawFields ==
    /\ TypeOK => \A v \in VersionId :
         /\ Approved(v) <=> law[v] # None
         /\ Approved(v) => /\ law[v].prov = version[v].prov /\ law[v].from = version[v].from
                           /\ law[v].to = version[v].to /\ law[v].pred = version[v].pred
                           /\ version[v] \in VersionRow
    /\ TypeOK' => \A v \in VersionId :
         /\ Approved(v)' <=> law'[v] # None
         /\ Approved(v)' =>
              /\ law'[v].prov = version'[v].prov /\ law'[v].from = version'[v].from
              /\ law'[v].to = version'[v].to /\ law'[v].pred = version'[v].pred
              /\ version'[v] \in VersionRow
<1>1. ASSUME NEW r, NEW s, s = PublishedRow(r)
      PROVE  s.prov = r.prov /\ s.from = r.from /\ s.to = r.to /\ s.pred = r.pred
  BY <1>1 DEF PublishedRow
<1>2. ASSUME TypeOK, NEW v \in VersionId
      PROVE  /\ Approved(v) <=> law[v] # None
             /\ Approved(v) => /\ law[v].prov = version[v].prov /\ law[v].from = version[v].from
                               /\ law[v].to = version[v].to /\ law[v].pred = version[v].pred
                               /\ version[v] \in VersionRow
  <2>1. Approved(v) => version[v] \in VersionRow
    BY <1>2 DEF Approved, TypeOK
  <2> QED
    BY <1>1, <1>2, <2>1, LawRows
<1>3. ASSUME TypeOK', NEW v \in VersionId
      PROVE  /\ Approved(v)' <=> law'[v] # None
             /\ Approved(v)' =>
                  /\ law'[v].prov = version'[v].prov /\ law'[v].from = version'[v].from
                  /\ law'[v].to = version'[v].to /\ law'[v].pred = version'[v].pred
                  /\ version'[v] \in VersionRow
  <2>1. Approved(v)' => version'[v] \in VersionRow
    BY <1>3 DEF Approved, TypeOK
  <2> QED
    BY <1>1, <1>3, <2>1, LawRows
<1> QED
  BY <1>2, <1>3

\* The first version of an approved version's provision is approved.
LEMMA BaseApproved ==
    ASSUME TypeOK, TP!IInv, NEW v \in VersionId, Approved(v)
    PROVE  version[v].prov \in Provision /\ Approved(version[v].prov)
<1>1. law[v] # None /\ law[v].prov = version[v].prov /\ version[v] \in VersionRow
  BY LawFields
<1>2. law[law[v].prov] # None
  BY <1>1 DEF TP!IInv, TP!Lineage, TP!Published, TP!VersionId, VersionId
<1>3. version[v].prov \in Provision /\ version[v].prov \in VersionId
  BY <1>1 DEF VersionRow, VersionId
<1> QED
  BY <1>1, <1>2, <1>3, LawFields

\* Every step keeps the amendments on their targets.
LEMMA TargetsStep ==
    ASSUME Sound, Sound', TP!IInv, Targets, Next PROVE Targets'
<1>0. TypeOK /\ TypeOK' /\ InFlight /\ InFlight'
  BY DEF Sound
<1>1. ASSUME NEW e \in Event, event'[e] # None
      PROVE  /\ doc'[AmendingDoc[e]] # None
             /\ event'[e].status = "APPROVED"
                  => event'[e].target \in Provision /\ Approved(event[e].target)'
  <2>1. CASE event[e] = None
    BY <1>0, <1>1, <2>1, EventStep
  <2>2. CASE event[e] # None
    <3>1. AmendingDoc[e] \in Doc
      BY ConfigAssumption
    <3>2. doc'[AmendingDoc[e]] # None
      BY <1>0, <2>2, <3>1, KeptStep DEF Kept, Targets
    <3>3. event'[e].target = event[e].target
      BY <1>0, <2>2, EventStep
    <3>4. ASSUME event[e].status = "APPROVED"
          PROVE  event[e].target \in Provision /\ Approved(event[e].target)
      BY <2>2, <3>4 DEF Targets
    <3>5. ASSUME NEW w \in Worker, ApproveCommit(w), e = txn[w].event
          PROVE  event[e].target \in Provision /\ Approved(event[e].target)
      <4>1. event[e].target = version[txn[w].old].prov /\ Approved(txn[w].old)
            /\ txn[w].old \in VersionId
        BY <3>5, ApproveCommitRows DEF Targets, Approving
      <4>2. version[txn[w].old].prov \in Provision
        BY <3>5, ApproveCommitRows DEF VersionRow
      <4> QED
        BY <1>0, <4>1, <4>2, BaseApproved
    <3>6. ASSUME NEW p \in Provision, Approved(p) PROVE Approved(p)'
      BY <1>0, <3>6, RowsStep DEF Approved, VersionId
    <3>7. ASSUME event'[e].status = "APPROVED"
          PROVE  event[e].target \in Provision /\ Approved(event[e].target)
      BY <1>0, <2>2, <3>4, <3>5, <3>7, EventStep
    <3>8. PICK p : p = event[e].target
      OBVIOUS
    <3>9. event'[e].status = "APPROVED" => p \in Provision /\ Approved(p)'
      BY <3>6, <3>7, <3>8
    <3> QED
      BY <3>2, <3>3, <3>8, <3>9
  <2> QED
    BY <2>1, <2>2
<1>2. ASSUME NEW w \in Worker, txn'[w] \in Approval
      PROVE  event'[txn'[w].event].target = version'[txn'[w].old].prov
  <2>1. /\ txn'[w].event \in Event /\ txn'[w].old \in VersionId
    BY <1>2 DEF Approval
  <2>2. CASE txn'[w] = txn[w] \/ (Approving(w) /\ Later(txn'[w], txn[w]))
    <3>1. /\ Approving(w) /\ txn'[w].event = txn[w].event /\ txn'[w].old = txn[w].old
      BY <1>2, <2>2 DEF Later, Approving
    <3>2. /\ event[txn[w].event] # None /\ version[txn[w].old] # None
          /\ event[txn[w].event].target = version[txn[w].old].prov
      BY <1>0, <3>1 DEF InFlight, ApprovalSound, Approved, Targets
    <3>3. event'[txn[w].event].target = event[txn[w].event].target
      BY <1>0, <2>1, <3>1, <3>2, EventStep
    <3>4. version'[txn[w].old].prov = version[txn[w].old].prov
      BY <1>0, <2>1, <3>1, <3>2, RowsStep
    <3> QED
      BY <3>1, <3>2, <3>3, <3>4
  <2>3. CASE /\ \E e \in Event : ApproveRead(w, e) /\ txn'[w].event = e
             /\ txn'[w].old \in Latest(event[txn'[w].event].target)
    <3>1. version[txn'[w].old].prov = event[txn'[w].event].target
      BY <2>3 DEF Latest
    <3>2. event' = event /\ version' = version
      BY <2>3 DEF ApproveRead, db
    <3> QED
      BY <3>1, <3>2
  <2> QED
    BY <1>0, <1>2, <2>2, <2>3, ApprovalStep
<1> QED
  BY <1>1, <1>2 DEF Targets, Approving

\* NoLostEdit, with what it takes from Timeline spelled out.
EditsHeld ==
    \A e \in Event, p \in Provision :
        /\ event[e] # None /\ event[e].status = "APPROVED" /\ event[e].target = p
        /\ TP!Orderly(p)
        => \A v \in VersionId :
             law[v] # None /\ law[v].prov = p /\ version[v].to = Open
               => e \in version[v].edits

\* While Targets holds the two say the same.
LEMMA EditsHeldIs == ASSUME Targets PROVE NoLostEdit <=> EditsHeld
<1>1. ASSUME NEW p PROVE TL!Orderly(p) <=> TP!Orderly(p)
  BY DEF TL!Orderly, TP!Orderly, TL!Versions, TP!Versions, TL!Published, TP!Published,
         TL!VersionId, TP!VersionId
<1>2. ASSUME NEW p, NEW v
      PROVE  v \in TL!Versions(p) <=> v \in VersionId /\ law[v] # None /\ law[v].prov = p
  BY DEF TL!Versions, TL!Published, TL!VersionId, VersionId
<1>3. ASSUME EditsHeld PROVE NoLostEdit
  <2> SUFFICES ASSUME NEW e \in Event, event[e] # None, event[e].status = "APPROVED",
                      TL!Orderly(event[e].target),
                      NEW v \in TL!Versions(event[e].target), version[v].to = Open
               PROVE  e \in version[v].edits
    BY DEF NoLostEdit
  <2> DEFINE p == event[e].target
  <2>1. p \in Provision
    BY DEF Targets
  <2>2. TP!Orderly(p) /\ v \in VersionId /\ law[v] # None /\ law[v].prov = p
    BY <1>1, <1>2
  <2> QED
    BY <1>3, <2>1, <2>2 DEF EditsHeld
<1>4. ASSUME NoLostEdit PROVE EditsHeld
  <2> SUFFICES ASSUME NEW e \in Event, NEW p \in Provision, event[e] # None,
                      event[e].status = "APPROVED", event[e].target = p, TP!Orderly(p),
                      NEW v \in VersionId, law[v] # None, law[v].prov = p,
                      version[v].to = Open
               PROVE  e \in version[v].edits
    BY DEF EditsHeld
  <2>1. TL!Orderly(p) /\ v \in TL!Versions(p)
    BY <1>1, <1>2
  <2>2. TL!Orderly(event[e].target) /\ v \in TL!Versions(event[e].target)
    BY <2>1
  <2> QED
    BY <1>4, <2>2 DEF NoLostEdit
<1> QED
  BY <1>3, <1>4

\* No edit is lost by a step: an approval that leaves its provision orderly was made on
\* the open version, which held the edits of all before it, and closes it.
LEMMA EditsStep ==
    ASSUME Sound, Sound', Targets, Targets', TP!IInv, TP!IInv', EditsHeld, Next
    PROVE  EditsHeld'
<1>0. TypeOK /\ TypeOK' /\ TP!TypeOK /\ TP!Lineage
  BY DEF Sound, TP!IInv
<1> SUFFICES ASSUME NEW e \in Event, event'[e] # None, event'[e].status = "APPROVED",
                    NEW p \in Provision, event'[e].target = p, TP!Orderly(p)',
                    NEW v \in VersionId, law'[v] # None, law'[v].prov = p,
                    version'[v].to = Open
             PROVE  e \in version'[v].edits
  BY DEF EditsHeld
<1>2. Approved(v)' /\ version'[v].prov = p
  BY <1>0, LawFields
<1>3. TP!Orderly(p)
  <2>1. CASE law' = law
    BY <2>1 DEF TP!Orderly, TP!Versions, TP!Published
  <2>2. CASE TP!Next
    BY <1>0, <2>2, TP!OrderlyBefore, TimelineAssumptions
  <2>3. [TL!Next]_law => [TP!Next]_law
    BY DEF TL!Next, TP!Next, TL!Enact, TP!Enact, TL!Amend, TP!Amend, TL!AmendAgain,
           TP!AmendAgain, TL!FirstRow, TP!FirstRow, TL!Successor, TP!Successor,
           TL!Published, TP!Published, TL!VersionId, TP!VersionId
  <2> QED
    BY <1>0, <2>1, <2>2, <2>3, LawStep
<1>4. ASSUME event[e] # None, event[e].status = "APPROVED", event[e].target = p,
             NEW u \in VersionId, Approved(u), version[u].prov = p, version[u].to = Open
      PROVE  e \in version[u].edits
  <2>1. law[u] # None /\ law[u].prov = p
    BY <1>0, <1>4, LawFields
  <2> QED
    BY <1>3, <1>4, <2>1 DEF EditsHeld
<1>5. ASSUME NEW w \in Worker, ApproveCommit(w), version[txn[w].old].prov = p
      PROVE  e \in version'[v].edits
  <2>1. PICK old \in VersionId, new \in VersionId :
          old = txn[w].old /\ new = txn[w].new /\ new \in NewId
    BY <1>5, ApproveCommitRows DEF Approval
  <2>2. /\ txn[w].date \in Date /\ version'[old].prov = p /\ Approved(old)
        /\ version[old].prov = p /\ version'[old].edits = version[old].edits
        /\ version'[new].edits = version[old].edits \cup {txn[w].event}
        /\ version[new] = None
        /\ \A u \in VersionId \ {old, new} : version'[u] = version[u]
    BY <1>5, <2>1, ApproveCommitRows
  <2>3. TP!Amend(old, new, txn[w].date) \/ TP!AmendAgain(old, new, txn[w].date)
    BY <1>0, <1>5, <2>1, ApproveCommitAmends
    DEF TL!Amend, TP!Amend, TL!AmendAgain, TP!AmendAgain, TL!Successor, TP!Successor,
        TL!Published, TP!Published
  <2>4. law[old] # None /\ law[old].prov = p /\ law[old].to = version[old].to
    BY <1>0, <2>1, <2>2, LawFields
  <2>5. law[old].to = Open /\ law'[old].to = txn[w].date
    BY <1>0, <2>1, <2>2, <2>3, <2>4, TP!AmendOrderly, TimelineAssumptions
    DEF TP!VersionId, VersionId
  <2>6. v # old
    <3>1. Approved(v)' => law'[v].to = version'[v].to
      BY <1>0, LawFields
    <3> QED
      BY <1>2, <2>2, <2>5, <3>1, DatesAssumption
  <2>7. CASE v = new
    <3>1. CASE e = txn[w].event
      BY <2>2, <2>7, <3>1
    <3>2. CASE e # txn[w].event
      <4>1. /\ event[e] # None /\ event[e].status = "APPROVED" /\ event[e].target = p
        BY <1>5, <3>2 DEF ApproveCommit, Sound, TypeOK
      <4> QED
        BY <1>4, <2>2, <2>4, <2>5, <2>7, <4>1
    <3> QED
      BY <3>1, <3>2
  <2>8. CASE v # new
    <3>1. version'[v] = version[v]
      BY <2>2, <2>6, <2>8
    <3>2. Approved(v) /\ version[v].prov = p /\ version[v].to = Open
      BY <1>2, <3>1 DEF Approved
    <3>3. law[v] # None /\ law[v].prov = p /\ law[v].to = Open /\ law[v].from \in Date
      BY <1>0, <3>2, LawFields DEF VersionRow
    <3>4. law[old].from \in Date
      BY <1>0, <2>2, LawFields DEF VersionRow
    <3>5. law[v].to <= law[old].from \/ law[old].to <= law[v].from
      <4>1. v \in TP!Versions(p) /\ old \in TP!Versions(p)
        BY <2>4, <3>3 DEF TP!Versions, TP!Published, TP!VersionId, VersionId
      <4> QED
        BY <1>3, <2>6, <4>1 DEF TP!IInv, TP!Apart
    <3>6. \A d \in Date : ~(Open <= d)
      BY DatesAssumption
    <3> QED
      BY <2>5, <3>3, <3>4, <3>5, <3>6
  <2> QED
    BY <2>7, <2>8
<1>6. CASE \A w \in Worker : ApproveCommit(w) => version[txn[w].old].prov # p
  <2>1. /\ event[e] # None /\ event[e].status = "APPROVED" /\ event[e].target = p
    <3>1. CASE \E w \in Worker : ApproveCommit(w) /\ e = txn[w].event
      <4>1. PICK w \in Worker : ApproveCommit(w) /\ e = txn[w].event
        BY <3>1
      <4>2. event[e].target = version[txn[w].old].prov /\ event[e] # None
        BY <4>1, ApproveCommitRows
        DEF Targets, Approving, Sound, InFlight, ApprovalSound
      <4>3. event'[e].target = event[e].target
        BY <1>0, <4>2, EventStep
      <4> QED
        BY <1>6, <4>1, <4>2, <4>3
    <3>2. CASE ~\E w \in Worker : ApproveCommit(w) /\ e = txn[w].event
      BY <1>0, <3>2, EventStep
    <3> QED
      BY <3>1, <3>2
  <2>2. Approved(p)
    BY <2>1 DEF Targets
  <2>3. ASSUME version[v] # None
        PROVE  /\ version'[v].prov = version[v].prov /\ version'[v].edits = version[v].edits
               /\ version'[v].to = version[v].to
    <3>1. /\ version'[v].prov = version[v].prov /\ version'[v].edits = version[v].edits
          /\ \/ version'[v].to = version[v].to
             \/ \E w \in Worker : ApproveCommit(w) /\ v = txn[w].old
      BY <1>0, <2>3, RowsStep
    <3> QED
      BY <1>2, <1>6, <3>1
  <2>4. CASE Approved(v)
    <3>1. version[v] # None
      BY <2>4 DEF Approved
    <3> QED
      BY <1>2, <1>4, <2>1, <2>3, <2>4, <3>1
  <2>5. CASE ~Approved(v)
    <3>1. CASE \E w \in Worker : ApproveCommit(w) /\ v = txn[w].new
      <4>1. PICK w \in Worker : ApproveCommit(w) /\ v = txn[w].new
        BY <3>1
      <4> QED
        BY <1>2, <1>6, <4>1, ApproveCommitRows
    <3>2. CASE v \in Provision /\ version[v] # None
      <4>1. version[v].prov = v
        BY <3>2 DEF Sound, Records
      <4> QED
        BY <1>2, <2>2, <2>3, <2>5, <3>2, <4>1
    <3> QED
      BY <1>0, <1>2, <2>5, <3>1, <3>2, RowsStep
  <2> QED
    BY <2>4, <2>5
<1> QED
  BY <1>5, <1>6

\* The amendments, in every reachable state.
LEMMA EditsInvariance == Spec => [](Targets /\ EditsHeld)
<1>1. Init => Targets /\ EditsHeld
  BY Kinds DEF Init, Targets, EditsHeld, Approving
<1>2. /\ Sound /\ Sound' /\ TP!IInv /\ TP!IInv' /\ Targets /\ EditsHeld /\ [Next]_vars
      => (Targets /\ EditsHeld)'
  <2> SUFFICES ASSUME Sound, Sound', TP!IInv, TP!IInv', Targets, EditsHeld, [Next]_vars
               PROVE  Targets' /\ EditsHeld'
    OBVIOUS
  <2>1. CASE Next
    BY <2>1, TargetsStep, EditsStep
  <2>2. CASE UNCHANGED vars
    <3>1. version' = version /\ event' = event /\ txn' = txn /\ doc' = doc
      BY <2>2 DEF vars, db
    <3>2. law' = law
      BY <3>1 DEF law, Approved
    <3>3. \A p : TP!Orderly(p)' <=> TP!Orderly(p)
      BY <3>2 DEF TP!Orderly, TP!Versions, TP!Published
    <3>4. Targets'
      BY <3>1 DEF Targets, Approved, Approving
    <3>5. EditsHeld'
      BY <3>1, <3>2, <3>3 DEF EditsHeld
    <3> QED
      BY <3>4, <3>5
  <2> QED
    BY <2>1, <2>2
<1> QED
  BY <1>1, <1>2, Invariance, LawInvariance, PTL DEF Spec

\* If the amendments of a provision were approved in order, whatever else overlapped, its
\* open version holds the edits of all of them.
THEOREM EditsKept == Spec => []NoLostEdit
<1>1. Targets /\ EditsHeld => NoLostEdit
  BY EditsHeldIs
<1> QED
  BY <1>1, EditsInvariance, PTL
=============================================================================
