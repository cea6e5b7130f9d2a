-------------------------------- MODULE Query --------------------------------
(***************************************************************************)
(* Questions to the knowledge base (query/service.py): security check,     *)
(* retrieval under a temporal filter, graph expansion, validity, prose by  *)
(* a language model and deterministic checks of that prose.                *)
(*                                                                         *)
(* A question reads the index once and the database in several             *)
(* transactions, while the requests of Lifecycle.tla go on: what it read   *)
(* first may be out of date when it reads the rest, and the index shows    *)
(* what a transaction has written before that transaction commits.         *)
(***************************************************************************)
EXTENDS Lifecycle

CONSTANTS
    Question,       \* questions, each asked once
    DateOf,         \* DateOf[q]: the resolved query_date
    Matches,        \* Matches[q]: provisions whose text shares words with q
    Refused,        \* questions that check_query does not allow
    References,     \* REFERENCES edges of the graph, pairs of provisions
    TopK,           \* DEFAULT_TOP_K
    Invented        \* a [source_id] in the prose that is no version's

ASSUME QueryAssumption ==
    /\ DateOf \in [Question -> Date]
    /\ Matches \in [Question -> SUBSET Provision]
    /\ Refused \subseteq Question
    /\ References \subseteq Provision \X Provision
    /\ TopK \in Nat \ {0}
    /\ Invented \notin VersionId
    /\ IsFiniteSet(VersionId)

VARIABLE ask        \* ask[q]: how far question q is and what it has gathered

queryVars == <<vars, ask>>

\* What a question knows of a version: the chunk it found, with the status and
\* the row it was checked against.
Item == [id : VersionId, prov : Provision, from : Date, to : Date \cup {Open}]

Reason == {"NOT_APPROVED", "NOT_VALID_AT_QUERY_DATE", "SUPERSEDED"}

AnswerStatus == {"INSUFFICIENT_EVIDENCE", "DETERMINISTIC_CHECKS_PASSED",
                 "NEEDS_REVIEW"}

ASSUME StatusAssumption == None \notin AnswerStatus

\* `calm' is history: nothing was published and no transaction had failed or was
\* in flight since the question was asked.
Asked == [phase : {"new", "retrieved", "resolved", "explained", "answered"},
          found : SUBSET Item, reach : SUBSET Provision,
          valid : SUBSET Item, excluded : SUBSET (VersionId \X Reason),
          cites : SUBSET (VersionId \cup {Invented}),
          status : AnswerStatus \cup {None}, calm : BOOLEAN]

QueryTypeOK == ask \in [Question -> Asked]

QueryInit ==
    /\ Init
    /\ ask = [q \in Question |->
                [phase |-> "new", found |-> {}, reach |-> {}, valid |-> {},
                 excluded |-> {}, cites |-> {}, status |-> None,
                 calm |-> FALSE]]

Ids(S) == {i.id : i \in S}
Provs(S) == {i.prov : i \in S}

\* The window without its first day.
CoversLate(row, t) == row.from < t /\ t < row.to

\* [from, to) holds day t.
Covers(row, t) == row.from <= t /\ t < row.to

-----------------------------------------------------------------------------
(* Retrieval (hybrid_search under build_temporal_filter)                      *)

ChunkItem(v) == [id |-> v, prov |-> index[v].prov, from |-> index[v].from,
                 to |-> index[v].to]

\* The chunks a question may rank, with valid_at left out of the filter.
UndatedHits(q) ==
    {ChunkItem(v) : v \in {u \in VersionId : /\ index[u] # None
                                             /\ index[u].prov \in Matches[q]}}

\* bm25_search: chunks that share a word with the question and whose own window
\* holds the query date; knn_search only ranks them.
Hits(q) == {i \in UndatedHits(q) : Covers(i, DateOf[q])}

\* The best TopK of S, in whatever order they rank.
Best(S) == IF Cardinality(S) <= TopK THEN {S}
           ELSE {T \in SUBSET S : Cardinality(T) = TopK}

\* InMemoryGraph.expand: two hops along REFERENCES.
Referenced(P) == {e[2] : e \in {r \in References : r[1] \in P}}

Reached(P) == (Referenced(P) \cup Referenced(Referenced(P))) \ P

Retrieve(q) ==
    /\ ask[q].phase = "new"
    /\ q \notin Refused
    /\ \E found \in Best(Hits(q)) :
         ask' = [ask EXCEPT ![q].phase = "retrieved", ![q].found = found,
                            ![q].reach = Reached(Provs(found)),
                            ![q].calm = clean /\ \A w \in Worker : Idle(w)]
    /\ UNCHANGED vars

\* A question that check_query refuses is answered without any retrieval.
Refuse(q) ==
    /\ ask[q].phase = "new"
    /\ q \in Refused
    /\ ask' = [ask EXCEPT ![q].phase = "answered",
                          ![q].status = "INSUFFICIENT_EVIDENCE"]
    /\ UNCHANGED vars

RowItem(v) == [id |-> v, prov |-> version[v].prov, from |-> version[v].from,
               to |-> version[v].to]

\* _valid_version_chunk: an approved version of p that holds the query date.
CurrentRows(q, p) ==
    {i \in {RowItem(v) : v \in {u \in VersionId : Approved(u)}} :
        i.prov = p /\ Covers(i, DateOf[q])}

\* A referenced provision is looked up in a transaction of its own.  A version
\* that retrieval found keeps the chunk retrieval found.
Expand(q, p) ==
    /\ ask[q].phase = "retrieved"
    /\ p \in ask[q].reach
    /\ \E S \in IF CurrentRows(q, p) = {} THEN {{}}
                ELSE {{i} : i \in CurrentRows(q, p)} :
         ask' = [ask EXCEPT ![q].reach = @ \ {p},
                            ![q].found = @ \cup {i \in S : i.id \notin Ids(@)}]
    /\ UNCHANGED vars

-----------------------------------------------------------------------------
(* Validity (validity.resolve)                                                *)

\* _exclusion_reason, without its look at the approval status.
ReasonsByDate(status, row, t) ==
    {r \in {"NOT_VALID_AT_QUERY_DATE"} : ~Covers(row, t)}

\* _exclusion_reason: at most one.
Reasons(status, row, t) ==
    CASE status # "APPROVED" -> {"NOT_APPROVED"}
      [] status = "APPROVED" /\ ~Covers(row, t) -> {"NOT_VALID_AT_QUERY_DATE"}
      [] OTHER -> {}

\* The version as it is judged: its row, or what its chunk says of it when there
\* is no row.
StatusOf(i) == IF version[i.id] = None THEN "APPROVED" ELSE version[i.id].status
Judged(i) == IF version[i.id] = None THEN i ELSE RowItem(i.id)

ReasonsOf(q, i) == Reasons(StatusOf(i), Judged(i), DateOf[q])

\* _mark_superseded: of each provision the version that starts last, any of them
\* if several do.
LatestOfEach(S) ==
    {T \in SUBSET S :
        /\ \A i \in S : \E j \in T : j.prov = i.prov /\ i.from <= j.from
        /\ \A i, j \in T : i.prov = j.prov => i = j}

Resolve(q) ==
    /\ ask[q].phase = "retrieved"
    /\ ask[q].reach = {}
    /\ LET ok == {Judged(i) : i \in {j \in ask[q].found : ReasonsOf(q, j) = {}}}
       IN \E keep \in LatestOfEach(ok) :
            ask' = [ask EXCEPT
                      ![q].phase = "resolved",
                      ![q].found = {},
                      ![q].valid = keep,
                      ![q].excluded =
                         (Ids(ok \ keep) \X {"SUPERSEDED"})
                           \cup UNION {{i.id} \X ReasonsOf(q, i)
                                         : i \in ask[q].found}]
    /\ UNCHANGED vars

\* The versions of the provisions that are shown.
Siblings(q) == {v \in VersionId : /\ version[v] # None
                                  /\ version[v].prov \in Provs(ask[q].valid)}

\* Those that are not in the package yet.
NewSiblings(q) ==
    Siblings(q) \ (Ids(ask[q].valid) \cup {x[1] : x \in ask[q].excluded})

\* _add_sibling_exclusions reads the rows once more.
Explain(q) ==
    /\ ask[q].phase = "resolved"
    /\ ask' = [ask EXCEPT
                 ![q].phase = "explained",
                 ![q].excluded = @ \cup
                    UNION {{v} \X Reasons(version[v].status, version[v], DateOf[q])
                             : v \in NewSiblings(q)}]
    /\ UNCHANGED vars

-----------------------------------------------------------------------------
(* Prose and its checks (generation.generate, output_checks.run)              *)

\* What the prose of the model, or of the fallback, may cite: a version the
\* prompt named as evidence or as excluded, or something else.
Citable(q) == Ids(ask[q].valid) \cup {x[1] : x \in ask[q].excluded} \cup {Invented}

\* The failed checks, without the one for made-up ids.
LenientChecks(q, cites) ==
    {c \in {"NO_GROUNDED_CITATION"} : cites \cap Ids(ask[q].valid) = {}}

\* output_checks.run, as far as it looks at citations.
FailedChecks(q, cites) ==
    {c \in {"FABRICATED_CITATION"} : ~(cites \subseteq Ids(ask[q].valid))}
    \cup {c \in {"NO_GROUNDED_CITATION"} : cites \cap Ids(ask[q].valid) = {}}

Conclude(q, cites, status) ==
    ask' = [ask EXCEPT ![q].phase = "answered", ![q].cites = cites,
                       ![q].status = status]

\* The model answers, or fails and the first evidence is quoted in its place.
Generate(q) ==
    /\ ask[q].phase = "explained"
    /\ ask[q].valid # {}
    /\ \E cites \in SUBSET Citable(q) :
         Conclude(q, cites, IF FailedChecks(q, cites) = {}
                            THEN "DETERMINISTIC_CHECKS_PASSED"
                            ELSE "NEEDS_REVIEW")
    /\ UNCHANGED vars

\* There is no evidence, or the model says that it is not enough.
Abstain(q) ==
    /\ ask[q].phase = "explained"
    /\ Conclude(q, {}, "INSUFFICIENT_EVIDENCE")
    /\ UNCHANGED vars

-----------------------------------------------------------------------------
\* The knowledge base moves on under the questions.
KnowledgeStep ==
    /\ Next
    /\ ask' = [q \in Question |->
                 [ask[q] EXCEPT !.calm = @ /\ clean' /\ version' = version
                                           /\ index' = index]]

Advance(q) ==
    \/ Retrieve(q) \/ Refuse(q)
    \/ \E p \in Provision : Expand(q, p)
    \/ Resolve(q) \/ Explain(q) \/ Generate(q) \/ Abstain(q)

QueryNext == KnowledgeStep \/ \E q \in Question : Advance(q)

QuerySpec == QueryInit /\ [][QueryNext]_queryVars

-----------------------------------------------------------------------------
(* Correctness *)

Passed(q) == ask[q].status = "DETERMINISTIC_CHECKS_PASSED"

\* An answer that passed the checks cites something, and whatever it cites that
\* has a row is approved and had begun by the query date: no clause of the
\* future, no draft, however publishing overlaps with the question.  If nothing
\* was published meanwhile, it is in force on the query date.
Grounded ==
    \A q \in Question : Passed(q) =>
        /\ ask[q].cites # {}
        /\ \A v \in ask[q].cites :
             /\ v \in VersionId
             /\ version[v] # None => /\ Approved(v)
                                     /\ version[v].from <= DateOf[q]
             /\ ask[q].calm => TL!InForce(v, DateOf[q])

\* Unless a transaction has failed, what a question holds as evidence is approved
\* law, or the text that an approval in flight has indexed and is about to commit;
\* and it says of the version whose text it is, and of the day it begins, what the
\* database says or will say: the chunks of a document that is being activated
\* are not taken for law, though they are in the index before it is approved.
RestsOnLaw ==
    clean => \A q \in Question : \A i \in ask[q].valid :
        \/ /\ Approved(i.id)
           /\ version[i.id].prov = i.prov
           /\ version[i.id].from = i.from
        \/ \E w \in Worker : /\ Approving(w)
                             /\ txn[w].new = i.id
                             /\ version[txn[w].old].prov = i.prov
                             /\ txn[w].date = i.from

\* A version is shown as evidence or as excluded, never as both, though the rows
\* are read twice; and it is excluded for one reason.
EvidenceOrExcluded ==
    \A q \in Question :
        /\ \A x \in ask[q].excluded : x[1] \notin Ids(ask[q].valid)
        /\ \A x, y \in ask[q].excluded : x[1] = y[1] => x = y

\* If nothing was published while a question was answered and TopK is no limit,
\* every matching provision that has a version in force on the query date is
\* among the evidence, with the version that starts last; unless its document is
\* flagged as not synchronised, or two amendments superseded the version.
NothingMissed ==
    \A q \in Question :
        ask[q].phase \in {"resolved", "explained"} /\ ask[q].calm
          /\ Cardinality(UndatedHits(q)) <= TopK
        => \A p \in Matches[q] :
             \A v \in TL!InForceAt(p, DateOf[q]) :
               \/ OutOfSync(v) \/ SupersededTwice(v)
               \/ \E i \in ask[q].valid : i.prov = p /\ version[v].from <= i.from
=============================================================================
