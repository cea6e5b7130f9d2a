------------------------------- MODULE MCQuery -------------------------------
(* Instances of Query: a regulation with two provisions, the first of which   *)
(* refers to the second, and a document that amends one of them.  The two     *)
(* backends of each store are compared on all small indexes and graphs.       *)
EXTENDS Query, Sequences, MCLifecycle

CONSTANTS q1, q2

\* A question about the amended provision and one about the other; the first
\* gets to the second provision by reference only.
MCDateOf == (q1 :> 1) @@ (q2 :> 2)
MCMatches == (q1 :> {p1}) @@ (q2 :> {p1, p2})
MCReferences == {<<p1, p2>>}

-----------------------------------------------------------------------------
ST == INSTANCE Stores

Chunks == [id : {1}, doc : {"d1", "d2"}, approved : BOOLEAN,
           from : {None, 1, 2}, to : {None, 1, 2, 3}]
Filters == [approved : BOOLEAN, at : {None, 1, 2}, docs : {{}, {"d1"}}]

\* The filters of the two indexes agree on every chunk that begins on a day; the one
\* in memory lets more through.
ASSUME FiltersAgree ==
    \A c \in Chunks, f \in Filters :
        /\ ST!Clauses(c, f) => ST!Passes(c, f)
        /\ c.from # None => (ST!Clauses(c, f) <=> ST!Passes(c, f))

\* Four chunks, each in force on day 1, on day 2, or not approved.
Indexes == {{[id |-> i, doc |-> "d1", approved |-> s[i] # 0, from |-> s[i],
              to |-> s[i] + 1] : i \in 1..4} : s \in [1..4 -> 0..2]}
Day1 == [approved |-> TRUE, at |-> 1, docs |-> {}]

\* What is not valid on the day of the question takes no place among the k best: the
\* results are those of an index that does not have it.
ASSUME FilteredFirst ==
    \A held \in Indexes, score \in [1..4 -> 0..2], k \in 1..2 :
        LET valid == {c \in held : c.from = 1}
        IN  /\ ST!KnnMemory(held, score, Day1, k) = ST!KnnMemory(valid, score, Day1, k)
            /\ ST!Bm25Memory(held, score, Day1, k) = ST!Bm25OpenSearch(valid, score, Day1, k)

Graphs ==
    [label : {("p" :> "Provision") @@ ("q" :> "Provision") @@ ("r" :> "Provision")
                @@ ("e" :> "ChangeEvent")},
     edges : SUBSET {<<"p", "REFERENCES", "q">>, <<"q", "REFERENCES", "r">>,
                     <<"r", "REFERENCES", "p">>, <<"e", "TARGETS", "p">>,
                     <<"e", "TARGETS", "q">>, <<"q", "SUPERSEDES", "r">>}]

\* The two graphs agree on one hop; asked for two, Neo4j stops after the first.
ASSUME GraphsAgree ==
    \A g \in Graphs : \A S \in SUBSET {"p", "q", "r"} :
        /\ ST!ExpandNeo4j(g, S, 1) = ST!ExpandMemory(g, S, 1)
        /\ ST!ExpandNeo4j(g, S, 2).reached \subseteq ST!ExpandMemory(g, S, 2).reached

\* Around a node both show the same nodes, if there is an edge to show; in memory there
\* are edges too that lead out of the picture or join its outermost nodes.
ASSUME PicturesAgree ==
    \A g \in Graphs, d \in 0..2 :
        LET memory == ST!SubgraphMemory(g, "p", d)
            neo4j == ST!SubgraphNeo4j(g, "p", d)
        IN  /\ neo4j.nodes = IF neo4j.edges = {} THEN {} ELSE memory.nodes
            /\ neo4j.edges \subseteq memory.edges
            /\ \A e \in neo4j.edges : {e[1], e[3]} \subseteq memory.nodes

\* An edge between nodes that are there is stored alike, however often.
ASSUME EdgesAgree ==
    \A g \in Graphs :
        LET once == ST!UpsertEdgeMemory(g, "p", "r", "REFERENCES")
        IN  /\ ST!UpsertEdgeNeo4j(g, "p", "r", "REFERENCES") = once
            /\ ST!UpsertEdgeMemory(once, "p", "r", "REFERENCES") = once
-----------------------------------------------------------------------------
(* What is done to a question around its evidence.                            *)

AK == INSTANCE Ask

Asks == [blank : BOOLEAN, long : {FALSE}, admin : BOOLEAN, injection : BOOLEAN,
         cues : SUBSET AK!Cue, date : {None, 1, 2}]
Labels == AK!Intent \cup {"other", None}

\* Neither the model nor the wording decides of which day a question is; the model
\* chooses an intent only when no rule does; and whoever asks, nothing unapproved is
\* searched.
ASSUME DayIsNotTheModels ==
    \A q \in Asks, requested \in {None, 1, 2} :
        LET u == AK!Understand(q, requested, 3, None)
        IN  /\ \A label \in Labels :
                  LET v == AK!Understand(q, requested, 3, label)
                  IN  v.date = u.date /\ (q.cues # {} => v.intent = u.intent)
            /\ u.date = 3 \/ u.explicit
            /\ u.intent = "POINT_IN_TIME_QA" => u.explicit /\ q.cues = {}
            /\ \A role \in AK!Role :
                  LET d == AK!CheckQuery(q, role)
                  IN  d.allowed => d.filters = {"approved_only"}

Rankings == UNION {{r \in [1..n -> 1..4] : \A i, j \in 1..n : r[i] = r[j] => i = j}
                     : n \in 0..3}
Ranked(list) == {list[i] : i \in DOMAIN list}

\* What shares no word with the question is never found, what both rankings hold goes
\* before what one does, and what is first in both is first.
ASSUME WordsFirst ==
    \A bm25, knn \in Rankings, k \in 1..3 : \A found \in AK!HybridSearch(bm25, knn, k) :
        /\ Ranked(found) \subseteq Ranked(bm25)
        /\ \A i, j \in DOMAIN found :
              i < j /\ AK!In(knn, found[j]) => AK!In(knn, found[i])
        /\ bm25 # << >> /\ knn # << >> /\ bm25[1] = knn[1] => found[1] = bm25[1]

Versions2 == {[id |-> "v1", doc |-> "d1", approved |-> TRUE, from |-> 1, to |-> 2],
              [id |-> "v2", doc |-> "d1", approved |-> TRUE, from |-> 2, to |-> None]}

\* With the day in the filter one version of a provision is found, without it, as the
\* naive answer is made, both are.
ASSUME NaiveConflates ==
    LET hits(at) == ST!Bm25Memory(Versions2, [v \in {"v1", "v2"} |-> 1],
                                  [approved |-> TRUE, at |-> at, docs |-> {}], 2)
    IN  /\ \A day \in {1, 2} : \A S \in hits(day) : Cardinality(S) = 1
        /\ hits(None) = {Versions2}
        /\ \A cites \in SUBSET {"v1", "v2"} :
              AK!NaiveAnswer(<<[id |-> "v1"], [id |-> "v2"]>>, "prose", cites).cites
                = cites

Items(ids) == [id : ids, amounts : {{}, {5}, {7}}]
Packages == {p \in [valid : SUBSET Items({"a", "b"}), excluded : SUBSET Items({"c"})] :
                Cardinality(p.valid) <= 2 /\ Cardinality(p.excluded) <= 1}
Answers == [text : {None, "prose"}, cites : SUBSET {"a", "c", "x"},
            amounts : SUBSET {5, 7}, leaks : BOOLEAN,
            status : {"SOURCE_GROUNDED", "INSUFFICIENT_EVIDENCE"}]

\* An answer that passes cites evidence and nothing else and states no amount that
\* only excluded text holds.  What is cited of excluded text is caught as made up
\* anyway.
ASSUME ChecksSuffice ==
    \A answer \in Answers, package \in Packages :
        LET c == AK!Checked(answer, package)
        IN  /\ c.status = "DETERMINISTIC_CHECKS_PASSED" =>
                  /\ answer.cites \subseteq AK!IdsOf(package.valid)
                  /\ package.valid # {} => answer.cites # {}
                  /\ answer.amounts \cap AK!AmountsOf(package.excluded)
                       \subseteq AK!AmountsOf(package.valid)
            /\ "CITED_EXCLUDED_EVIDENCE" \in c.failures =>
                  "FABRICATED_CITATION" \in c.failures

Objects == {<<"{", "a", "}">>, <<"{", "nl", "a", "nl", "}">>,
            <<"{", "{", "a", "}", "}">>, <<"{", "nl", "{", "a", "}", "}">>}
Fence == <<"tick", "tick", "tick">>
Spread(o) == \E i \in DOMAIN o : o[i] = "nl"

\* The object is found in a fence, with a language or without, and in prose; but not
\* whole if it begins on the line of the fence and goes on on the next.
ASSUME JsonIsFound ==
    \A o \in Objects :
        /\ AK!ExtractJson(o) = o
        /\ AK!ExtractJson(Fence \o <<"json", "nl">> \o o \o <<"nl">> \o Fence) = o
        /\ AK!ExtractJson(Fence \o <<"nl">> \o o \o <<"nl">> \o Fence) = o
        /\ AK!ExtractJson(<<"b", "nl">> \o o \o <<"b">>) = o
        /\ (AK!ExtractJson(Fence \o o \o Fence) = o) <=> ~Spread(o)
        /\ AK!ExtractJson(o \o <<"b">> \o o) = None

-----------------------------------------------------------------------------
(* How answers are scored.                                                    *)

SC == INSTANCE Scores

Value(amount) == [phrase |-> "limit", currency |-> amount]
Gold(type) ==
    [type |-> type, expected |-> Value(700), forbidden |-> Value(500),
     source |-> {<<"1">>, <<"dieu">>}, page |-> None, number |-> None,
     reference |-> {<<"1", "2">>, <<"3">>, <<"dieu">>, <<"khoan">>}, values |-> {5, 7},
     stale |-> "policy", status |-> None]
Types == {"CURRENT", "POINT_IN_TIME", "PARTIAL_PATCH", "CROSS_REFERENCE", "CONFLICT",
          "CONFLICT_NEGATIVE", "STALE_POLICY", "ABSTENTION"}
Answered(amounts, used, pairs) ==
    [SC!Nothing EXCEPT !.text.amounts = amounts, !.status = "SOURCE_GROUNDED",
                       !.used = used, !.pairs = pairs]

\* A question whose call failed is never counted as a stale answer, and counts as one
\* that was rightly answered and, where no conflict was to be found, as one where none
\* was.
ASSUME FailuresFlatter ==
    \A type \in Types :
        LET score(m) == SC!ScoreItem(m, SC!Extract(None, {}), Gold(type), {"v1"}, {})
        IN  /\ score("abstention") = (type # "ABSTENTION")
            /\ score("superseded_rate") \in {FALSE, None}
            /\ type = "CONFLICT_NEGATIVE" => score("conflict_precision")
            /\ score("current_version") \in {FALSE, None}

\* An amount that is forbidden makes an answer wrong whatever else it says; a conflict
\* counts with both its values; and evidence goes before citations in what was used.
ASSUME ScoresAreStrict ==
    \A amounts \in SUBSET {500, 700}, used, shown \in SUBSET {"v1", "v2"},
       pairs \in SUBSET {{5}, {5, 7}} :
        LET d == SC!Extract(Answered(amounts, used, pairs), shown)
            score(m, type) == SC!ScoreItem(m, d, Gold(type), {"v1"}, {})
        IN  /\ score("current_version", "CURRENT") = (amounts = {700})
            /\ score("conflict_precision", "CONFLICT") = ({5, 7} \in pairs)
            /\ score("superseded_rate", "CURRENT")
                 = ("v1" \in IF shown = {} THEN used ELSE shown)

\* The share is of the questions a metric applies to.
ASSUME SharesCount ==
    \A results \in UNION {[1..n -> {TRUE, FALSE, None}] : n \in 0..4} :
        LET s == SC!Share(results)
            count(r) == Cardinality({i \in DOMAIN results : results[i] = r})
        IN  IF count(TRUE) + count(FALSE) = 0 THEN s = None
            ELSE s.right = count(TRUE) /\ s.of = count(TRUE) + count(FALSE)

\* Not told apart: article 12, clause 3 and article 3, clause 12; a citation of article
\* 12 where article 1 was expected.
ASSUME LocatorsConfused ==
    /\ SC!CrossrefRecalled({{<<"3">>, <<"1", "2">>, <<"dieu">>, <<"khoan">>}},
                           Gold("CROSS_REFERENCE").reference)
    /\ SC!CitationCorrect({[heading |-> {<<"1", "2">>, <<"dieu">>},
                             page |-> 1, number |-> None]},
                          Gold("CURRENT"))
=============================================================================
