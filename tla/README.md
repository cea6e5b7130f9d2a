# AIDE: TLA+ models, model checks and proofs

AIDE keeps a knowledge base of regulations and answers questions about them as of a day. A
crawler collects documents; uploads are taken apart, reviewed by employees and published
as *versions* of provisions with half-open windows `[valid_from, valid_to_exclusive)`;
questions are answered, and documents reviewed, alone or in batches, against what is
published. This directory models the parts of it where requests overlap, fail half way or
arrive in an unexpected order, and the algorithms they rest on, checks them with TLC, and
proves their safety properties with TLAPS for instances of any size.

Paths below are relative to `src/`.

## 1. Inventory

| Component | State | Operations | Hard behaviour | What makes it correct |
|---|---|---|---|---|
| Upload and review inbox: `ingestion/upload.py`, `service.py`, `legal_extract.py`, `change_event.py`, `review_inbox.py`, `entity_resolution.py` | `documents`, `review_tasks`, `change_events`, parsed `provision_versions` | `handle_upload`, `decide_review_task`, `delete_document` | a task may be decided again; an amendment resolves against whatever documents are known at that moment; a language model splits the text | nothing is published before its reviews are decided; no amending sentence is lost; an amendment hits the provision it names |
| Activation and amendment: `ingestion/activate.py`, `backend/app/ingestion/activation/gate.py` | rows above, index, graph, `sync_status` | `activate_document`, `activate_change_event` | one transaction per request, several at a time, index writes in the middle that a rollback does not undo | the gate holds; no hole in the law; no approval lost to search unnoticed |
| Versions in force: `packages/contracts/models.py` | windows, supersession | `is_valid_at` | amendments in any order | one version per day, nothing retroactive |
| Text of provisions: `ingestion/patch.py`, `structure_parser.py`, `pdf_extract.py`, `injection_scan.py` | none | patch, split, parse, scan | ambiguous or missing old text; headings out of place | a patch applies to exactly one place or asks for review; nothing outside it changes |
| Database sessions: `infra/postgres.py` | connections | `session_scope` | READ COMMITTED, row locks, deadlock, lost connection | requests end; all or nothing |
| Search index: `infra/opensearch_client.py` | chunks with windows | upsert, filtered search | a fallback in memory chosen at the first use | what is in force is found, alike by both backends |
| Graph store: `infra/neo4j_client.py` | nodes and edges | idempotent upserts, expansion, pictures | a fallback in memory as well | both backends answer alike |
| Query pipeline: `query/` | none of its own | `answer_query`: check, understand, retrieve, expand, resolve validity, detect conflicts, generate, verify | reads index and database at different moments | every citation is valid on the day; no claim without evidence |
| Review runs and batches: `backend/app/review/` | `review_runs` (locked once stored), `batch_reviews`, `batch_review_items` | `create_review_run`, `create_batch_review`, `retry_failed`, `rerun_full` | thread pool, retries that overlap, crashes between steps, a knowledge base that grows meanwhile | items show their own runs; the report adds up each file once; citations stay in the frozen snapshot |
| Compliance checks: `backend/app/workflows/compliance_checks/` | none | claims, evidence, `assess`, the report | a decision table with dates and amounts; model and database may fail | the verdict follows the evidence |
| Impact analysis: `backend/app/workflows/impact_analysis/`, `query/impact.py` | policy alignments | report of an amendment, stale policies of an answer | two detectors that look at different things | they agree; what a question flags has been reported |
| Conversations: `backend/app/chat/service.py` | conversations, turns, attachments | create, post, attach, delete | two transactions around a long answer | turns stay in their conversation; attachments are never evidence |
| Crawler: `crawl/` | checkpoint, cache, items on disk | four sources, the run loop with robots, budget and retries, the PDF run, graph and audit of the items | a process killed between two files | each page ends with one item; the budget is kept |
| User interface: `frontend/nextjs_app` | one tab's view of a conversation | open, send, attach, new chat | answers that come back after the user went elsewhere | a question goes where it was asked; the view settles |
| Authentication and routes: `api/`, `backend/app/api/` | reports of the old compliance route | login, role check, error to status | none across requests | only employees write |
| Language model, embeddings: `llm/`, `infra/embeddings.py` | clients | choice of provider, JSON out of prose | external services | what is not an object is not read as one |
| Evaluation: `eval/` | none | metrics | none | a number says what it claims |
| Copies under `backend/app`, seed data and scripts | | | | not modelled, section 7 |

How they interact. Routes call the services directly, in thread-pool workers except for
uploads, which run on the event loop. Every service opens a `session_scope`, one
transaction that commits at the end or rolls back. An upload leaves review tasks and
change events; a decision on a change event calls `activate_change_event` in a transaction
of its own; activation writes rows, then index and graph. Questions, compliance checks and
review runs read what activation writes, the index and the rows in turn. A conversation
points to the review run or batch it talks about. The crawler leaves files that are
uploaded like any other. The browser tab sends requests to all of these and cancels none.

## 2. Modules

| Module | What it is |
|---|---|
| `Timeline` | **Abstract specification**: published versions of provisions, the two things that may happen to them (a document is enacted, a published version is amended), and what follows for the law in force on each day |
| `Lifecycle` | **Detailed specification** of review, activation, amendment and soft delete as overlapping transactions with an index on the side; `TL == INSTANCE Timeline` with `law` as the refinement mapping |
| `Query` | questions answered while `Lifecycle` goes on; extends it, so that each step of a question interleaves with each step of a publication |
| `Batch` | batch reviews: the request that creates a batch and works on its items with a pool, requests that retry, the report, crashes |
| `Conversation` | messages, attachments, deletions, reviews and batches of several users in several conversations |
| `Compliance`, `Conflict` | one review run over claims while the law of `Timeline` moves; the rules by which two provisions contradict each other |
| `Impact` | policies aligned to versions of `Timeline`, and the two detectors of stale ones |
| `Extraction` | what an upload makes of a file: provisions, amending sentences, their targets |
| `Ledger` | **Abstract specification** of a resumable crawl |
| `Crawl` | **Detailed specification** of the run loop, the four sources and the PDF run with kills at any step; `LG == INSTANCE Ledger` |
| `Client` | one browser tab, its requests in flight and the server's side of them |
| `Text`, `Reading`, `Values` | pure: patches, splitting, parsing, scanning; sentences, pages and pieces given to the model; amounts and dates |
| `Stores`, `Ask` | pure: both backends of index and graph; security check, understanding, fusion, output checks, client choice, JSON in prose |
| `Corpus`, `Scores`, `Views`, `Service` | pure: relations, graph and audit of the crawl; metrics; reports and lists that are shown; accounts, roles, statuses, health |
| `Timeline_proofs`, `Lifecycle_proofs`, `Query_proofs`, `Batch_proofs`, `Conversation_proofs`, `Crawl_proofs` | theorems and proofs about the module of that name |
| `Readers_proofs` | theorems and proofs about those who read the law: `Impact` and `Compliance` |
| `Intake_proofs` | theorems and proofs about what comes in: `Client` and `Extraction` |
| `MC...` | small instances for TLC. Those of `Query`, `Conversation`, `Crawl`, `Compliance`, `Extraction` and `Client` also compare the pure modules with what they should give |

### Timeline

`law[v]` is the row of a published version: provision, `from`, `to` (`Open` for
`valid_to_exclusive = None`, a number above every day) and `pred`, the version it was
patched from. `Enact(S)` publishes the first versions of a document
(`activate_base_document`), `Amend(old, new, d)` closes `old` at `d` and publishes `new`
from `d` on (`activate_change_event`). `AmendAgain` publishes a successor without closing:
what a second approval amounts to when the end of the old version is at `d` already.
`InForce` is `ProvisionVersion.is_valid_at`.

### Lifecycle

`doc`, `task`, `event`, `version` are the tables, `index` the chunks, `txn[w]` what worker
`w` is doing (`None` when idle). A request is split where others can get in between:

* `ActivateBegin` (gate and status), `ActivateRead` (the next provision's version is read;
  the query flushes what was marked before, so the row locks are taken here),
  `ActivateIndex` or `ActivateIndexFails` (index and graph write), `ActivateCommit`;
* `ApproveRead` (change event, latest approved version), `ApproveFlush`,
  `ApproveIndexOld`, `ApproveIndexNew`, `ApproveCommit`; `ApproveUnpatchable` is the way
  out when the patch does not apply;
* `DeleteBegin` (status), `DeleteCommit`;
* `Upload` and `Decide`, which are single transactions without an index write;
* `Abort` (exception, lost connection, end of the process) and `DeadlockVictim`.

`Locked`, `Wanted` and `Blocked` are the row locks on version rows; marking a change event
decided locks its task (`InApproval`). `clean` remembers that no transaction has failed,
`pred` and `edits` are history variables of a version's content.

Abstractions, and why they are sound for what is checked. A version is one chunk, since
all chunks of a version carry the same window and are written together. The graph write
follows the index write and fails like it; it is folded into `ActivateIndexFails`. The
REFERENCE_REVIEW tasks of one amendment stand together. Ids are drawn with the read rather
than at the insert, which nobody sees before. Whether text is suspicious, which provisions
an amendment may name and its day are inputs here (`Suspicious`, `Candidates`,
`EffectiveDate`); `Extraction`, `Text` and `Reading` say how they come about. The gate
blocks on a pending parsing review, as `gate.py` does; `docs/ARCHITECTURE.md:224` says
PARSING_REVIEW does not block.

### Query

`ask[q]` is a question in its phases: new, retrieved (the index was searched under the
filter of the query day, the references of the hits followed), resolved (rows read a first
time for windows and a second time for the versions that are shown as excluded), explained
(prose and citations of a model, any subset, an `Invented` one included), answered.
`found`, `valid`, `excluded`, `cites` are what it holds; a refused question goes to its
end at once. `calm` is history: nothing was published since the question was asked. A
chunk without a row, written by an approval that has not committed or left by one that
failed, is taken at its word by `resolve_validity`, hence the `version[v] # None` in
`Grounded` and the second case of `RestsOnLaw`.

### Batch

`batch`, `item`, `run` are the three tables, `kb` the approved versions, `req[q]` a
request: for each item how far it is (`selected`, `started`, `assessed`, `failed`,
`left`), the list of versions it computed (`allow`) and what it collected for the report.
Each step is one transaction of the code: `Start`, `Assess` / `AssessFails` (the run is
stored), `Complete` / `CompleteFails`, `Fail`, `Collect` (the reads of `_aggregate`),
`Report` (its write). `Retry` selects the failed items, `ListAgain` recomputes the list of
versions afterwards. A run is named for the request and the item: a request makes at most
one run per item. Its `cites` are the versions it may cite, all that the knowledge base
holds when the file is assessed and the list of its request lets through; which of them
it does cite is a choice that no property depends on. `by` remembers the request that
made the batch. `knowledge_snapshot_id`, a hash of the list, is the list itself;
`summary` stands for the set of runs that the summary and the recurring issues add up.
`overlapped` and `crashed` are history variables that let properties name the cases they
exclude. `rerun_full` is a new batch. A run with state INSUFFICIENT_EVIDENCE has a report
and is treated as READY.

### Conversation

`conv`, `turn` and `attachment` are tables, `turn` in the order of storing; `run` and
`batch` are named for the request that makes them; `req[r]` is a request, of the kind it
arrived with and the user who sent it. A message is read (checked and, in the same
transaction, stored), answered with no transaction open, from whatever it finds then, and
its answer is stored in another; a review and a batch freeze and assess, store, then set
the pointer. `Arrive` chooses kind, user and conversation freely, those of other users
included: a review may be started for any of them, and only the query that sets the
pointer asks for the owner. What a message can draw on, the questions and attachments of
its conversation, are sets of positions in the tables. `kept` and `late` are history: how
long the conversation was when it was deleted, and which requests were in flight then.

### Compliance and Conflict

`run` goes through new, frozen (the snapshot of approved versions, `{}` when the query
fails), assessing (claims of the model), then per claim retrieved, explained, judged, and is
locked at the end, with evidence outside the snapshot dropped. `verdict[c]` is the
assessment. `Facts` gives the values a claim and a version name per class, `Obligation` what
`Conflict` compares. `indexed` holds the chunks of amendments: `IndexAmendment` writes one
before its transaction commits, and whether it ever does is open, so that retrieval meets
chunks of approvals in flight and of approvals rolled back. What has no row is judged by its
chunk (`Counts`), is no party to a conflict, and is dropped by the legal check (`LegalOnly`)
as long as the database answers. The chunks of a base document are written before its
activation commits as well; their rows are there since the upload, so that `Findable` counts
them from the start and `InForce` rejects them until the row is approved. Model and database
may fail where the code catches it. History: `steady` (nothing was published since the
snapshot), `opened` (a legal check that failed let something through), `cut` (claims that
lost evidence to the allowlist). `Conflict` has the rules of `query/conflict.py`, the pairs
they are applied to, and the model's confirmation, which is any answer.

### Impact

`mapped` are the activated policies, `aligned` pairs of a policy and a version it cites
that was open when it was activated. `change[e]` is the row of change event `e`, with the
versions before and after its last approval: `Approve` may happen again to the same event
and then overwrites both, as `activate_change_event` does; `overwritten` remembers which
versions lost their row that way. `Report(d)` is the impact report of an amending document,
read off the rows as they are, `Flagged(v, t)` what a question shows as stale next to
version `v`.

### Extraction

`docs`, `provision`, `event`, one upload at a time as the event loop runs them. Its names
`Content` and `Missing`, and `ExtractionSpec`, keep it apart from `Client`, with which
`Intake_proofs` extends it. `Upload` chooses what the model lists; keys, locators and the
fallback from point to clause to article are computed (`normalize_locator`, `Canonical` and
both in a row as `Understood`, `Levels`, `Resolved`), under the declared number and then
every known one (`Outcomes`).

### Crawl and Ledger

`raw` is the cache (a page whole, torn by a kill, or a challenge), `item` the items,
`done` and `failed` the checkpoint, `pdfDone` and `pdfFailed` that of the PDF run; `run`
is the process: where its generator stands (`discover`: listings, links, passes,
candidates by source; the links of a listing are a set of pages with their positions), the
request it is trying, its count and attempts. `Kill` drops `run` and tears what is being
written. `status` and `stored` map this to `Ledger`.

### Client

`stored` and `files` are the server's, `selected`, `shown` and `busy` the tab's, `op[n]`
the n-th operation with its answer under way: create, created, store, stored, read,
answered, or an error at any of them before or after the server did its part. `asked` and
`clean` are history.

## 3. Runs

| Run | Instance | What it asks |
|---|---|---|
| `timeline` | `MCImpact`: two provisions with different first days, three fresh ids, four days, two policies, two change events of one provision that may each be approved again; 448 thousand states | `NoGap`, `OneInForce`, `NoRetroactiveChange`, `FlaggedWasReported`, `ReportAgreesWithQuery` |
| `lifecycle` | a regulation with a provision, a document that amends it twice, two workers, index writes that fail; 468 thousand | `IndexAccounted`, `NothingHidden`, `NoLostEdit` |
| `lifecycle_faults` | two provisions, so that locks can be taken in opposite orders, one amendment, rollbacks at any step, index writes that fail; 283 thousand | `GateHolds`, `IndexedOrFlagged`, `ImplementsTimeline`, `RequestsEnd` |
| `batch` | two files, a pool of two, the creating request and a retry, two versions approved at any moment, all failures; 810 thousand | `OwnRun`, `CountedOnce`, `FrozenEvidence`, `SummaryCurrent`, `CompletedStays`, `ItemsEnd` |
| `query` | two questions, one of them refused, three results, a worker that activates and amends, index writes that fail; 1.6 million | `Grounded`, `RestsOnLaw`, `EvidenceOrExcluded`, `NothingMissed` |
| `conversation` | two users, two conversations, three requests, two texts; 809 thousand | `Isolated`, `QuestionsAccounted`, `DeletedRefuses`, `PointersSound` |
| `compliance` | three provisions, one of them of an internal policy, an amendment that may be in the index long before it is published or never be, two claims, two classes of values, failures of model and database; 1.8 million | `EvidenceSound`, `VerdictBacked`, `OutdatedNotCurrent` |
| `extraction` | a regulation, another one, two amendments, three uploads; 801 thousand | `QueuedOnce`, `NothingOverlooked`, `ResolvedClosest` |
| `crawl` | each of the four sources, two listings (one of them a page in its own right for one source), two pages, a PDF file, three requests, two attempts, a limit of two, two kills; 194 thousand | `Polite`, `CheckpointSound`, `TextKept`, `ImplementsLedger` |
| `client` | two conversations, two questions, a file, three operations; 93 thousand | `GoesWhereAsked`, `SettledView`, `BusyEnds` |
| `gate_bypass`, `points` | the instances of `lifecycle` and `extraction` | one claim each of the documentation that the code breaks, section 6 |

Bounds. Two workers are enough for every pairwise race, and each action involves the rows
of one document or one amendment only; two amendments give forks, chains and ties of days;
two provisions give the lock orders. The two amendments of `lifecycle` begin on the first
and on the last of three days and are approved in either order, so one may come before the
start of the version it closes and a successor may start later than what replaces it. In
`query` one worker is enough for a question to meet every stage of a publication. In
`batch` a file can fail and be retried while the other is still being worked on. In
`conversation` three requests are a question, what overlaps it, and what refers to the
result. In `crawl` the budget of three, the limit and the scan cap of two are all reached,
with a resume after each kill. In `extraction` a document can be uploaded, deleted and
uploaded again, or an amendment come between two editions of its base. Employees only
approve in the runs (`Decisions = {"APPROVED"}`), which keeps them small; rejections are
covered by the proofs, which hold for every `Decisions`. Where an invariant is proved
(section 5), the bound is no limit.

Deadlock is checked where the system never stops. It is off in `batch`, `query`,
`conversation` and `compliance`, where the instance ends once each of its requests has
been served.

Symmetry is used for fresh ids in `lifecycle` and `gate_bypass`, which check only safety.

### Properties worth a comment

* `GateHolds`: an INDEXED document has no critical review pending and an approved version
  belongs to an INDEXED document, although the gate is read once at the start and
  decisions go on. It holds since no task ever returns to PENDING and an amendment needs
  an approved version to start from.
* `IndexedOrFlagged`: an approved version is in the index or its document says
  INDEX_SYNC_PENDING. An activation that meets no failure must not clear the flag another
  one set.
* `NothingHidden`, `IndexAccounted`: without failed transactions, what is in force by the
  database is found by search, and what is in the index is approved or about to be. A
  version that two amendments superseded, each unaware of the other, is excused by name
  (`SupersededTwice`): an approval that finds the end of the old version where it wants it
  changes no row, so it waits for nobody, and may write that end to the index after a
  third approval has moved it. Small instances do not show this; the proof did.
* `NoLostEdit`: if the amendments of a provision were orderly, the open version holds the
  edits of all of them. `Orderly` is the precondition that the code does not enforce:
  amendments approved out of the order of their days leave two versions in force.
* `ImplementsTimeline`: the database under overlapping and failing requests is a
  `Timeline`.
* `SummaryCurrent`, `CompletedStays` exclude requests on the same batch that overlap, by
  name: the code does not keep them apart.
* `Grounded`: what is shown is approved and had begun, even though the index already holds
  what a transaction has not committed. Only when the knowledge base stood still is it in
  force on the day: a version that ended between search and answer is still shown.
* `RestsOnLaw`: every item a question holds as evidence is an approved version with the
  window of its row, or the version of an approval that has indexed it and may still
  commit; that a question reads the index first and the rows twice, while both change,
  brings in nothing else. What a failed transaction leaves in the index is excused by name
  (`clean`): the code does believe it (section 6).
* `FrozenEvidence`: a file is never judged without a version of the frozen snapshot, and
  those of the batch's own request by nothing else, though versions are approved between
  the files of its pool. A retry lists the versions again and may cite more under the same
  snapshot id (section 6).
* `NothingMissed` names its four excuses: something was published meanwhile, the hits
  exceed `TopK`, the document is flagged, the version was superseded twice.
* `QuestionsAccounted`, `DeletedRefuses`: a question without answer is one whose user was
  told; a deletion that overlaps an answer lets that answer in and nothing that came
  later.
* `Polite`: the budget is tested once per page and spent once per attempt, so that a run
  may exceed it, by `MaxRetries - 1` at most.
* `TextKept` speaks of crawls without kills: a process killed between the item and its
  checkpoint entry makes the next crawl overwrite the text of the PDF, and the PDF run
  skips it.
* `ImplementsLedger`: pages that are done stay done with their item, however often the
  process dies.
* `VerdictBacked`: a verdict can be read off the evidence locked with it, unless the
  allowlist dropped some of it, and evidence that is dropped at the end leaves its verdict
  behind. That takes something published since the snapshot, or the chunk of an amendment
  that was not committed and a legal check that met a failing database.
* `FlaggedWasReported`: the other direction, that what is reported is flagged, is false by
  design: a question looks at today's evidence only. `ReportAgreesWithQuery` states it for
  the days on which the version an event points to is in force. Both speak of the rows of
  change events as they are: what a second approval of an event hides from every report is
  excused by name (`overwritten`).
* `NothingOverlooked`: whether a reviewer has to look for the target is decided by what
  was known at the upload; documents without a number are searched last. It speaks of the
  address that the sentence states. The parts that the second parse of the locator loses
  are named in `OutOfReach`: every point, and a clause that is named behind its article.
  `ResolvedClosest` speaks of the address that is left.
* `SettledView` needs `clean`: overlapping `open`s show the conversation whose answer came
  last.

### Functions against definitions

The pure modules have no steps. Each `ASSUME` of the MC modules compares one of their
operators, on all small inputs, with what it should give or with a second implementation,
and TLC evaluates it at the start of the run:

| In | Assumptions |
|---|---|
| `MCExtraction` | `PatchEditsTheSpan`, `DeletionKeepsTheRest`: a patch changes its span only; `SplitLosesNothing`, `ParseKeepsArticles`: text is neither lost nor doubled; `NegationsAreRead`, `OnlyMoneyIsCompared`, `ReferencesAreElsewhere`, `PagesFollowMarkers`, `ModelFillsGaps`, `OnePieceLosesAll`, `AmendmentsByKind`, `AcceptedIsRead`, `PairsAmend` |
| `MCQuery` | `FiltersAgree`, `FilteredFirst`, `GraphsAgree`, `PicturesAgree`, `EdgesAgree`: the backends of index and graph against each other; `DayIsNotTheModels`, `WordsFirst`, `NaiveConflates`, `ChecksSuffice`, `JsonIsFound`; `FailuresFlatter`, `ScoresAreStrict`, `SharesCount`, `LocatorsConfused`: the metrics |
| `MCCompliance` | `AmountsReadBack`, `SameAmount`, `AmountsLost`, `DatesInOrder`: values written and read back |
| `MCCrawl` | `RelationsOnce`, `SourcesAgree`, `SidesAgree`, `EdgesJoinDocuments`, `PairsAreEdges`, `ReadyHasPairs`: the sources against each other, audit against graph |
| `MCConversation` | `ChatKeepsVerdicts`, `PickFitsQuestion`, `SelectionInOrder`, `InboxInTurn`, `DraftAgainstLast`, `ReportsAddUp`, `ProgressAddsUp`, `AuditShowsLatest`, `RefusalIsOurs`: what is shown against what is stored |
| `MCClient` | `StartRepeats`, `LoginLasts`, `WritesNeedEmployee`, `GateIsConflict`, `OneRoleOnly`, `ReportsStay`, `NoTextNoReview`, `HealthSeesServices`, `HealthEchoesModel`, `NearIsNotSame` |

Several of them state a weakness as it is (`OneRoleOnly`, `HealthEchoesModel`,
`FailuresFlatter`, `LocatorsConfused`, `AmountsLost`, `OnePieceLosesAll`): the model would
be wrong without it, and section 6 says what was meant.

## 4. Fairness

* `Lifecycle`: `SF(Proceed(w))`. A request that holds a worker goes on as long as it is
  not blocked again and again; the lock queue of PostgreSQL is first come first served, so
  a waiter is not passed over for ever. `WF(DeadlockVictim(w))`: the deadlock detector
  runs after `deadlock_timeout`. Nothing is assumed of employees, uploads or failures.
* `Batch`: `WF(Proceed(q))`. Threads of a request run. A request takes no lock across
  steps, so weak fairness is enough. `Retry` is not fair: nobody has to ask for one.
* `Client`: `WF(Network(n))`. A request of the browser is answered or fails; that is what
  `fetch` promises, with no timeout of its own.
* `Conversation`, `Crawl`, `Query`, `Compliance`, `Extraction`, `Impact`: none, as only safety
  is claimed.

## 5. Proofs

Every safety property that a passing run checks, invariants, action properties and the two
refinements, is a theorem, for every set of documents, provisions, amendments, workers,
files, requests, pages and days that satisfies the named assumptions. The proofs go by
induction over the steps: a strengthened invariant, one lemma per action or per conjunct,
and a theorem that draws the property from it.

What is assumed of the constants, as weak as the proofs allow:

* Days are naturals below `Open` (`DatesAssumption`); configuration functions are total
  (`ConfigAssumption`, `QueryAssumption`, `ConversationAssumption`, `ExtractionAssumption`
  and their like); bounds are numbers.
* `None` is not a row, an id or a status, and first versions, fresh ids and `Invented` are
  told apart (`IdsAssumption`, `RowsAssumption`, `RowAssumption`, `StatusAssumption`,
  `ItemsAssumption`). These say that a null of the database is not a value.
* `QueryAssumption` asks for finitely many version ids, as `TopK` counts hits.

**Timeline_proofs** `TypeCorrect`, `NoGaps`, `OneVersion`, `NothingRetroactive`. `NoGap`
is inductive together with `TypeOK`: an amendment takes days from the version it closes
only where its own window, open at the end, covers them. `OneInForce` is not inductive.
Its invariant is `IInv == TypeOK /\ Lineage /\ Apart`: `Lineage` says that every version
descends from the first one of its provision and that a version was closed by a successor,
so an orderly amendment can only replace the open one; `Apart` that the windows of an
orderly provision do not meet. `NothingRetroactive` compares the versions in force on a
day before and after a step under the same invariant.

**Lifecycle_proofs** The base is `Sound == TypeOK /\ Records /\ InFlight /\ GateHolds /\
IndexedOrFlagged`. `Records` relates rows (a provision's first version is there when its
document is, a version that is not approved is as it was parsed, one of a fresh id is
approved), `InFlight` says what a request in flight may rely on: the gate it passed is
still passed, the version it amends is still approved, its fresh id is still free. One
lemma per action. `TypeCorrect`, `Gated`, `NoSilentLoss` follow. `Refinement` proves `Spec
=> TL!Spec`: `ActivateCommit` is `Enact`, `ApproveCommit` is `Amend` or `AmendAgain`,
every other step stutters. `LawInOrder` instantiates `Timeline_proofs` and carries its
theorems over to the database.

`ChunksAccounted` and `NothingIsHidden` rest on `Indexed`, inductive relative to `Sound`.
`Chunks` says that a chunk repeats its row but for the end, and that a chunk without a row
is the last write of the approval that draws its id. `Windows` is about the ends: the end
in the index is open, that of the row, or the day of an approval that is about to close
the version, unless it was superseded twice. It needs `Descent`, a version that was closed
has a successor, to see that an end written late is one of two. `EditsKept` carries the
inductive invariant of `Timeline_proofs` over: `Targets` says that what an amendment
targets is the provision of the version it closes, and an orderly successor is built on
the open version, which by induction (`EditsHeld`) holds the edits of all before it.

**Query_proofs** The questions take no part in publishing, so `QuerySpec` implies `Spec`
of `Lifecycle`, and its invariants hold under them. `Shown == Answering /\ OnePerProvision /\
EvidenceOrExcluded` is inductive and gives `ShownOnce`. `EvidenceRestsOnLaw` and
`AnswersGrounded` need `Evidence`: what a question knows of a version is what its row says
or, without a row, what the approval that is about to write that row has put into the
index, through both readings of the rows.
`NothingIsMissed` needs `Searched`: as long as the knowledge base stands still, what
`NothingHidden` promises of the index is carried through retrieval, resolution and the
choice of the latest version.

**Batch_proofs** `BatchInv == Base /\ Runs /\ Honest`. `Base` is typing and the order of
rows before work; `Runs` says that a request has no run for a file before it assessed it,
hence that a stored run is never written again (`RunsLocked`); with that, reports only gain
and `OwnRun`, `CountedOnce` (through what requests have collected) and `FrozenEvidence` are
inductive. The last needs `Frozen`: the knowledge base only grows, so the snapshot stays
part of it and of every list made later that is not empty, and the request that made the
batch keeps the list it froze. `Alone` (one request at a time works on no completed item)
proves `CompletedItemsStay`, and `Summed` (between collecting and reporting nothing moves)
`SummaryAddsUp`.

**Conversation_proofs** Every request checks a row in one transaction and writes in
another. `Held` says that what it checked still holds: conversations keep their owner and
are never removed. `Gathered`, `Pointed` and `Told` follow every piece of an answer from
the read to the turn and name its conversation and owner, which gives `NothingLeaks`;
`Served` that what a request stores under its id is stored once, which keeps runs final
and pointers sound (`NeverDangling`). `Late` says that a message that goes on with a
deleted conversation was in flight at the deletion (`NoTurnAfterDeletion`).
`EveryQuestionAccounted` is inductive with them.

**Crawl_proofs** `TypeCorrect` first. `Process` says what a process may rely on while it
has a page in hand. `Resumable` has the gap between two files in its invariant (`Parsed`):
an item is written and sound from the moment its process is about to mark it; a kill in
between loses the entry and not the item. `CrawlImplementsLedger` maps each step to one of
`Ledger` or a stutter from these. `TextStays` has `Texts`: without kills an item is that
of a page that is done or about to be. `Politeness` counts: a page is begun within the
budget, and each attempt after its first goes one request beyond it at most (`Asked`).

**Readers_proofs** Both readers leave the law as `Timeline` has it, so its invariant holds
under them. For `Impact`, `Ancestry` (an amendment supersedes a version of the same
provision, and never itself), `AlignedToLaw` (what a policy is aligned to is published) and
`Recorded` (the row of an event joins a version to one that supersedes it, and every
amendment is in such a row, or what it supersedes was overwritten) give `ReportedFirst` and
`DetectorsAgree`. For `Compliance`, `Agreed` says that a published amendment has its chunk
and that the two agree, `Package` what one claim is judged by, `Snapshot` that a snapshot
that could be taken holds the whole law until it moves, `Verdicts` what each assessment can
be read off; with them the filter at the end of a run drops evidence only if the law has
moved or the legal check has failed open. `ReportsOnlyLaw`, `VerdictsCanBeRead` and
`OutdatedByTheLaw` follow.

**Intake_proofs** For `Client`, `ViewIInv`: an item is in one operation or in one place
(`Once`), one question is sent at a time (`OneSend`), an item is bound to what was
selected when it was sent or to a conversation without questions (`Bound`), and as long as
nothing overlapped there is one operation, which works for what is selected (`Settled`).
For `Extraction`, lemmas about its operators first: the keys that are tried are exactly
the address and what holds it, each later one holds the earlier (`LevelsAbove`,
`LevelsOrder`), so that `resolve_locator_text` finds something if there is anything and
the closest of it (`ResolvedIs`); the events of a sentence are attempts in vain and one
last attempt (`OutcomesAre`). An upload adds documents, provisions and events of its own
and changes nothing that was found before (`EarlierStays`), so `QueuedWithOneTarget`,
`TriedAll` (a sentence without target had nothing at the address understood) and
`TargetsAreClosest` are inductive together with `Registry`. `WithinReach` shows that what
stands at the stated address and is not out of reach of the patterns stands at the address
understood, which turns `TriedAll` into `ReviewerIsLastResort`.

Only model-checked: all liveness (`RequestsEnd`, `ItemsEnd`, `BusyEnds`), which is out of
the prover's reach as are ENABLED and induction over data; the comparisons of the pure
modules, which TLC evaluates on small inputs; and the two violations. No module uses
RECURSIVE.

## 6. Where the code differs from what is said of it

Two are runs that expect their property to be violated; `PROJECT.json` quotes the lines.

1. `gate_bypass`: "every activation path must call this" (`gate.py:73`);
   `decide_review_task` publishes an amendment while a critical review of the amending
   document is pending.
2. `points`: `resolve_locator` "tries the most specific key first"
   (`entity_resolution.py:47`); the stored locator begins with the point, and parsed again
   the point is lost.

The others are in the models as the code has them, and no property denies them.

Publication

* Half-open windows "avoid overlaps" (`docs/final_pipeline.md:674`); amendments approved
  out of the order of their days, or at the same time, leave two versions in force.
* "Only APPROVED content is indexed" (`ingestion/activate.py:16`); a transaction that
  fails after its index writes leaves the chunk of a version that does not exist, and
  `resolve_validity` trusts a chunk that has no row (`validity.py:92`). In a compliance
  check it takes the place of the version in force, which then counts as excluded, and is
  dropped only afterwards by the legal check.
* The impact report is "callable any time after activation" (`impact_engine.py:5`); an event
  approved a second time, with another day, has its before and after versions overwritten
  (`activate.py:304-305`), and no report lists the policies that rest on what its first
  approval superseded. A question still flags them.
* Re-indexing leaves "no open-ended old chunk" (`docs/project.md:92`, in Vietnamese); a
  second activation of a document, which read a version before an amendment closed it,
  writes its chunk with the open end afterwards; `resolve_validity` goes by the row.
* Delete is blocked once INDEXED (`ingestion/service.py:249`); an activation that commits
  between the check and the write leaves a deleted document in the index.
  `delete_document` of the index is never called.
* "Do not try every document" (`docs/_final_spec_extracted.md:375`); the locator is tried
  under every known document number, archived copies included, and the first hit wins.
* `mark_decided` merges an employee's edits on a rejection too (`review_inbox.py:97`).
* A locator "tries the most specific key first" (`entity_resolution.py:47`); besides points
  (run `points`), a clause that is named behind its article does not survive the second
  parse, so that an amendment of it goes to the article, or to a reviewer if the article is
  not stored.
* A DELETE patch collapses the spaces of the whole provision, "byte-for-byte" otherwise
  (`patch.py:5`); an old text that overlaps itself is counted once.
* The draft of a change is shown against the approved version that starts last, not the
  one in force.
* REFERENCES edges are written by seed scripts only.

Reading

* "không bắt buộc" is read as an obligation; a term or a percentage before an amount hides
  the amount; an amount without a unit before a full stop, or with letters glued on
  ("500.000.000VNĐ"), is not read.
* A day not right behind the first "hiệu lực", "áp dụng" or "thi hành" is not seen; the
  "first date" of a text is the first of the first form that matches; amending sentences
  come kind by kind.
* One piece that the model fails on drops all claims; an answer that is not a list gives
  none, without the rule-based fallback.
* An unreadable PDF or DOCX is read as the text of its bytes in the inbox, while
  `/extract-text` answers 422. The parser drops the lines between CHƯƠNG and the next
  Điều.
* `extract_cross_references` and `is_legal_ground_truth` have no caller outside tests.

Answers

* The two indexes promise the "same filter semantics" (`opensearch_client.py:8`);
  OpenSearch hides chunks without a first day, memory shows them. Neo4j expands one hop
  whatever is asked, shows an isolated node not at all and needs both nodes of an edge,
  which memory creates.
* The kNN filter is applied after the k nearest were taken.
* `compare` runs the naive baseline for a refused question too; a naive answer reports
  SOURCE_GROUNDED with the text INSUFFICIENT_EVIDENCE.
* The check for amounts of excluded text sees headings only. Fenced JSON that begins on
  the line of the fence and goes on is lost.
* Without a key the mock answers, with one the provider, whatever `demo_mode` says
  (`llm/client.py:3`). When the model fails, a conflict counts as confirmed; amendment
  pairs are never found by their hook.

Reviews

* "Every cited version must belong to the frozen snapshot" (`review/service.py:102`); an
  empty snapshot, also one whose query failed, filters nothing. A retry of a batch records
  the frozen snapshot id with runs that may cite versions approved since (`batch.py:204`),
  though the files of a batch share "knowledge snapshot, versions" (`batch.py:5`).
* The legal check of the evidence passes everything when the database does not answer
  (`assessor.py:91`); the allowlist then drops what has no row, and a verdict of COMPLIANT
  can be left without evidence although nothing was published.
* "Re-run FAILED items only" (`review/batch.py:191`); of two retries that overlap the
  slower one runs a completed item again.
* A version that begins after the review date counts as outdated (`assessor.py:8`).
* The policy mapper gives every citation the first "Điều" of the text. Amendments without
  a day are skipped.
* A failed run replaces the conversation's active run as well; a run wins over a later
  batch. An unknown claim id explains another claim; a bracketed citation with a space in
  it is not checked.
* Attachments outlive the deletion of their conversation. The reports of the old
  compliance route live in the memory of one process.

Crawl

* A resumed crawl with the same limit "continues" (`checkpoint.py:3`) only in part: pages
  that are done count towards it.
* Challenge pages with status 200 stay in the cache; served for a PDF address one becomes
  an item. Of two items that share a PDF only the first gets its text.
* The audit counts relations of items without a number as complete, though it asks for
  both ends (`audit.py:91`); a slug that repeats its own number relates a document to
  itself.

Around

* "Two roles" (`auth.py:4`, `docs/ARCHITECTURE.md:48`); the enumeration has one, a token
  with the other ends with 500, and 403 cannot be reached.
* The health report promises to look, "never by echoing config" (`routes_health.py:3`);
  its line on the language model repeats the settings.
* A failed call counts as a right abstention and as no conflict found; citations are
  compared as sets of words, by substring: article 12 clause 3 is article 3 clause 12.
* In the browser, of two conversations opened at once the slower one is shown, under the
  name of the other.

## 7. Not modelled, and what is left

Left out of the modelled components: `Extraction` does not activate (documents stay
PARSED; `Lifecycle` does that) and never resolves again an amendment that came before its
base, as the code does not. `Client` has one view; texts of errors, the refresh of lists
and the review and batch panels are not there. `Crawl` takes the text of a page as given,
has no throttle and no disk that is full. `Service` has no validation of request bodies
and no password hashing. `Ask` takes the wording of prompts and answers as given.

Not modelled: most of the tree under `backend/app` repeats `ingestion/`, `query/` and
`infra/`; the running program imports the originals, except for the gate, the PDF
extractor, chat, review, the workflows and the routes, which are modelled. The parsers in
`rules.py` are among the copies. Seed data and the scripts that load it decide nothing.

What is left to prove: facts about the pure modules that TLC evaluates on small inputs, as
far as they need no induction over data: that a patch changes nothing outside its span,
that the two indexes apply the same window, that the rules of `Conflict` are symmetric;
and that `Query`, whose evidence is a choice from `Lifecycle`, implements an answer from
`Timeline` alone when nothing is published meanwhile.

## 8. Running

In this directory, `tlc -config MCBatch.cfg MCBatch.tla` (likewise the other
configurations with the module that `PROJECT.json` names) and `tlapm Batch_proofs.tla`.
`PROJECT.json` maps every definition to the lines it stands for, lists hazards with the
properties that cover them, and gives for each property a mutant of the model that
violates it.
