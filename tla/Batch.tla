------------------------------- MODULE Batch --------------------------------
(***************************************************************************)
(* A batch review (backend/app/review/batch.py): one file is one item, and *)
(* every attempt at an item is a review run of its own                     *)
(* (backend/app/review/service.py).  The request that creates the batch    *)
(* works on its items with a pool of threads; requests to retry work on    *)
(* the failed items one after the other.  Each step is a transaction of    *)
(* its own, and nothing keeps two requests off the same batch.             *)
(***************************************************************************)
EXTENDS Naturals, FiniteSets

CONSTANTS
    Item,       \* the files of the batch
    Version,    \* provision versions that may be approved
    Request,    \* requests about the batch, each served once
    Workers,    \* BATCH_WORKERS
    Failures,   \* what may fail: some of "listing", "assessment", "storing", "crash"
    None

ASSUME WorkersAssumption == Workers \in Nat \ {0}
ASSUME FailuresAssumption ==
    Failures \subseteq {"listing", "assessment", "storing", "crash"}

\* A run is named for the request that made it and the item it assesses.
Run == Request \X Item
RequestOf(r) == r[1]
ItemOf(r) == r[2]

\* `snapshot' stands for knowledge_snapshot_id, a hash of the approved versions;
\* `summary' for the runs that the summary and the recurring issues add up.  `by'
\* is history: the request that made the batch.
BatchRow == [snapshot : SUBSET Version, summary : SUBSET Run, by : Request]

ItemStatus == {"QUEUED", "PROCESSING", "COMPLETED", "FAILED"}

ItemRow == [status : ItemStatus,
            run : Run \cup {None}]

\* `cites': the versions that the run may cite as valid evidence, all those that
\* a search could find and the version list of its request lets through.
RunRow == [state : {"READY", "FAILED"}, snapshot : SUBSET Version,
           cites : SUBSET Version]

\* A request: how far it is with each item it selected, the approved versions it
\* listed, and what it collected for the summary.
Work == [phase : {"new", "inflight", "ended"},
         at : [Item -> {"selected", "started", "assessed", "failed", "left"}],
         width : Nat, allow : {None} \cup SUBSET Version,
         collected : {None} \cup SUBSET Run]

ASSUME RowsAssumption ==
    /\ None \notin Run \cup BatchRow \cup ItemRow \cup RunRow
    /\ None \notin ItemStatus
    /\ \A S \in (SUBSET Version) \cup (SUBSET Run) : S # None

VARIABLES
    kb,         \* the approved versions of the knowledge base
    batch,      \* batch_reviews
    item,       \* batch_review_items
    run,        \* review_runs
    req,        \* the requests
    overlapped, \* a request began while another was in flight
    crashed     \* a request was cut short

vars == <<kb, batch, item, run, req, overlapped, crashed>>

TypeOK ==
    /\ kb \in SUBSET Version
    /\ batch \in BatchRow \cup {None}
    /\ item \in [Item -> ItemRow \cup {None}]
    /\ run \in [Run -> RunRow \cup {None}]
    /\ req \in [Request -> Work]
    /\ overlapped \in BOOLEAN
    /\ crashed \in BOOLEAN

\* A request that holds nothing, before it begins or after it ends.
Idle(phase) == [phase |-> phase, at |-> [i \in Item |-> "left"], width |-> 1,
                allow |-> None, collected |-> None]

Init ==
    /\ kb = {}
    /\ batch = None
    /\ item = [i \in Item |-> None]
    /\ run = [r \in Run |-> None]
    /\ req = [q \in Request |-> Idle("new")]
    /\ overlapped = FALSE
    /\ crashed = FALSE

InFlight(q) == req[q].phase = "inflight"

Status(i) == IF item[i] = None THEN None ELSE item[i].status

\* q takes up the items of S, at most `width' at a time.
Begin(q, S, width, allow) ==
    /\ req' = [req EXCEPT ![q] =
                 [phase |-> "inflight",
                  at |-> [i \in Item |-> IF i \in S THEN "selected" ELSE "left"],
                  width |-> width, allow |-> allow, collected |-> None]]
    /\ overlapped' = (overlapped \/ \E p \in Request : InFlight(p))

Advance(q, i, to) == req' = [req EXCEPT ![q].at[i] = to]

-----------------------------------------------------------------------------
(* The knowledge base, whose versions other requests approve meanwhile *)

Approve(v) ==
    /\ kb' = kb \cup {v}
    /\ UNCHANGED <<batch, item, run, req, overlapped, crashed>>

-----------------------------------------------------------------------------
(* Requests *)

\* compute_snapshot, which returns an empty list when the query fails.
Listings == {kb} \cup {{} : f \in {"listing"} \cap Failures}

\* create_batch_review freezes the snapshot and stores the batch with its items.
Create(q) ==
    /\ req[q].phase = "new"
    /\ batch = None
    /\ \E listed \in Listings :
         /\ batch' = [snapshot |-> listed, summary |-> {}, by |-> q]
         /\ Begin(q, Item, Workers, listed)
    /\ item' = [i \in Item |-> [status |-> "QUEUED", run |-> None]]
    /\ UNCHANGED <<kb, run, crashed>>

\* All the items, completed or not.
AllItems == Item

FailedItems == {i \in Item : Status(i) = "FAILED"}

\* retry_failed selects the failed items, or the one that was asked for.
Retry(q) ==
    /\ req[q].phase = "new"
    /\ batch # None
    /\ \E S \in {FailedItems} \cup {FailedItems \cap {i} : i \in Item} :
         Begin(q, S, 1, None)
    /\ UNCHANGED <<kb, batch, item, run, crashed>>

\* The list of a retry is computed after its items are selected.
ListAgain(q) ==
    /\ InFlight(q)
    /\ req[q].allow = None
    /\ \E listed \in Listings : req' = [req EXCEPT ![q].allow = listed]
    /\ UNCHANGED <<kb, batch, item, run, overlapped, crashed>>

-----------------------------------------------------------------------------
(* One item (_run_item) *)

Busy(q) == {i \in Item : req[q].at[i] \in {"started", "assessed", "failed"}}

Start(q, i) ==
    /\ InFlight(q)
    /\ req[q].at[i] = "selected"
    /\ req[q].allow # None
    /\ Cardinality(Busy(q)) < req[q].width
    /\ item' = [item EXCEPT ![i].status = "PROCESSING"]
    /\ Advance(q, i, "started")
    /\ UNCHANGED <<kb, batch, run, overlapped, crashed>>

\* The snapshot id that a run records is the one the batch was created with.
NewRun(q, state, cites) ==
    [state |-> state, snapshot |-> batch.snapshot, cites |-> cites]

\* The citations that stay, filtered by the versions approved by now.
CitedToday(q, found) == IF req[q].allow = {} THEN found ELSE found \cap kb

\* The citations that stay: a list without entries filters nothing.
Cited(q, found) == IF req[q].allow = {} THEN found ELSE found \cap req[q].allow

\* The file is assessed against the knowledge base of the moment, and the locked
\* run is stored.
Assess(q, i) ==
    /\ InFlight(q)
    /\ req[q].at[i] = "started"
    /\ run' = [run EXCEPT ![<<q, i>>] = NewRun(q, "READY", Cited(q, kb))]
    /\ Advance(q, i, "assessed")
    /\ UNCHANGED <<kb, batch, item, overlapped, crashed>>

\* The file is refused before a run exists, or its run is stored as failed.
AssessFails(q, i) ==
    /\ "assessment" \in Failures
    /\ InFlight(q)
    /\ req[q].at[i] = "started"
    /\ \/ UNCHANGED run
       \/ run' = [run EXCEPT ![<<q, i>>] = NewRun(q, "FAILED", {})]
    /\ Advance(q, i, "failed")
    /\ UNCHANGED <<kb, batch, item, overlapped, crashed>>

\* Complete, the run of another request put in its place.
CompleteAny(q, i) ==
    /\ InFlight(q)
    /\ req[q].at[i] = "assessed"
    /\ \E r \in {s \in Run : run[s] # None} :
         item' = [item EXCEPT ![i] = [status |-> "COMPLETED", run |-> r]]
    /\ Advance(q, i, "left")
    /\ UNCHANGED <<kb, batch, run, overlapped, crashed>>

Complete(q, i) ==
    /\ InFlight(q)
    /\ req[q].at[i] = "assessed"
    /\ item' = [item EXCEPT ![i] = [status |-> "COMPLETED", run |-> <<q, i>>]]
    /\ Advance(q, i, "left")
    /\ UNCHANGED <<kb, batch, run, overlapped, crashed>>

\* The run is stored, the completion of the item is not.
CompleteFails(q, i) ==
    /\ "storing" \in Failures
    /\ InFlight(q)
    /\ req[q].at[i] = "assessed"
    /\ Advance(q, i, "failed")
    /\ UNCHANGED <<kb, batch, item, run, overlapped, crashed>>

\* Fail, with the item left as it is.
FailForgotten(q, i) ==
    /\ InFlight(q)
    /\ req[q].at[i] = "failed"
    /\ Advance(q, i, "left")
    /\ UNCHANGED <<kb, batch, item, run, overlapped, crashed>>

\* The item keeps the run it had, if any.
Fail(q, i) ==
    /\ InFlight(q)
    /\ req[q].at[i] = "failed"
    /\ item' = [item EXCEPT ![i].status = "FAILED"]
    /\ Advance(q, i, "left")
    /\ UNCHANGED <<kb, batch, run, overlapped, crashed>>

-----------------------------------------------------------------------------
(* The batch report (_aggregate), and the end of a request *)

\* All the runs of the batch that have a report.
ReportedRuns == {r \in Run : run[r] # None /\ run[r].state = "READY"}

\* The runs of the completed items that have a report.
CompletedRuns ==
    {item[i].run : i \in {j \in Item : Status(j) = "COMPLETED"}} \cap ReportedRuns

\* Collect, without waiting for the pool.
CollectEarly(q) ==
    /\ InFlight(q)
    /\ req[q].allow # None
    /\ req[q].collected = None
    /\ req' = [req EXCEPT ![q].collected = CompletedRuns]
    /\ UNCHANGED <<kb, batch, item, run, overlapped, crashed>>

Collect(q) ==
    /\ InFlight(q)
    /\ req[q].allow # None
    /\ req[q].collected = None
    /\ \A i \in Item : req[q].at[i] = "left"
    /\ req' = [req EXCEPT ![q].collected = CompletedRuns]
    /\ UNCHANGED <<kb, batch, item, run, overlapped, crashed>>

NewSummary(q) == req[q].collected

Report(q) ==
    /\ InFlight(q)
    /\ req[q].collected # None
    /\ batch' = [batch EXCEPT !.summary = NewSummary(q)]
    /\ req' = [req EXCEPT ![q] = Idle("ended")]
    /\ UNCHANGED <<kb, item, run, overlapped, crashed>>

\* The process that serves the request ends: nothing takes the request up again.
Crash(q) ==
    /\ "crash" \in Failures
    /\ InFlight(q)
    /\ req' = [req EXCEPT ![q] = Idle("ended")]
    /\ crashed' = TRUE
    /\ UNCHANGED <<kb, batch, item, run, overlapped>>

-----------------------------------------------------------------------------
Proceed(q) ==
    \/ \E i \in Item :
          \/ Start(q, i)
          \/ Assess(q, i) \/ AssessFails(q, i)
          \/ Complete(q, i) \/ CompleteFails(q, i)
          \/ Fail(q, i)
    \/ ListAgain(q) \/ Collect(q) \/ Report(q)

Next ==
    \/ \E v \in Version : Approve(v)
    \/ \E q \in Request : Create(q) \/ Retry(q) \/ Proceed(q) \/ Crash(q)

Spec == Init /\ [][Next]_vars

\* The threads of a request run it to its end.
Fairness == \A q \in Request : WF_vars(Proceed(q))

FairSpec == Spec /\ Fairness

-----------------------------------------------------------------------------
(* Correctness *)

\* A completed item shows the run of its own file, and that run has a report:
\* retries that overlap or fail half way never mix up the runs of the files.
OwnRun ==
    \A i \in Item : Status(i) = "COMPLETED" =>
        /\ item[i].run \in ReportedRuns
        /\ ItemOf(item[i].run) = i

\* The summary counts every file at most once and only runs that have a report,
\* however many runs the retries leave behind.
CountedOnce ==
    batch # None =>
        /\ batch.summary \subseteq ReportedRuns
        /\ \A r, s \in batch.summary : ItemOf(r) = ItemOf(s) => r = s

\* No file of a batch is judged without a version of the frozen snapshot that its
\* neighbours are judged by, whoever assesses it and when; and the files that the
\* request of the batch itself assesses are judged by exactly that snapshot,
\* however the knowledge base grows while its pool is at work.  (Under the same
\* snapshot id a retry may cite versions approved later, and a snapshot that could
\* not be listed, or was empty, freezes nothing.)
FrozenEvidence ==
    \A r \in ReportedRuns :
        /\ batch.snapshot \subseteq run[r].cites
        /\ RequestOf(r) = batch.by /\ batch.snapshot # {}
              => run[r].cites = batch.snapshot

\* Unless two requests overlapped or one was cut short, the summary of a batch
\* that nobody works on adds up its completed items.
SummaryCurrent ==
    batch # None /\ ~overlapped /\ ~crashed /\ (\A q \in Request : ~InFlight(q))
        => batch.summary = CompletedRuns

\* Unless two requests overlapped, a completed item stays as it is: a retry runs
\* the failed ones again and no others, after a crash as well.
CompletedStays ==
    [][ ~overlapped' => \A i \in Item :
          Status(i) = "COMPLETED" => item'[i] = item[i] ]_vars

\* An item is worked on to its end, unless a request was cut short: the pool and
\* the retries leave none behind as QUEUED or PROCESSING.
ItemsEnd ==
    \A i \in Item :
        Status(i) \in {"QUEUED", "PROCESSING"}
            ~> Status(i) \in {"COMPLETED", "FAILED"} \/ crashed
=============================================================================
