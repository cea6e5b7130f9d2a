-------------------------------- MODULE Ask --------------------------------
(***************************************************************************)
(* What is done to a question around the evidence of Query.tla: the check  *)
(* of who asks what (query/security.py), what is asked and of which day    *)
(* (query/understanding.py), the fusion of two rankings                    *)
(* (query/hybrid_retrieval.py), the checks of an answer                    *)
(* (query/output_checks.py), the naive answer it is compared with          *)
(* (query/standard_rag.py), and the choice of the language model and the   *)
(* reading of its JSON (llm/client.py).  Functions of their arguments.     *)
(*                                                                         *)
(* A question is [blank, long, admin, injection, cues, date]: whether it   *)
(* is empty, too long, begins with a word of administration or tries to    *)
(* direct the model, the groups of words it uses and the date it names.    *)
(***************************************************************************)
EXTENDS Integers, Sequences, FiniteSets, FiniteSetsExt

CONSTANT None

-----------------------------------------------------------------------------
(* check_query                                                                *)

\* The roles its docstring names; the enumeration of roles holds only the second.
Role == {"USER", "EMPLOYEE"}

Decision(allowed, filters, reason, injection) ==
    [allowed |-> allowed, filters |-> filters, reason |-> reason,
     injection |-> injection]

CheckQuery(q, role) ==
    CASE q.blank -> Decision(FALSE, {}, "EMPTY_QUERY", FALSE)
      [] ~q.blank /\ role # "EMPLOYEE" /\ q.admin ->
            Decision(FALSE, {}, "ADMIN_OP_REQUIRES_EMPLOYEE", q.injection)
      [] OTHER -> Decision(TRUE, {"approved_only"}, None, q.injection)

-----------------------------------------------------------------------------
(* understand                                                                 *)

\* The cues in the order in which they decide.
Intents == <<[cue |-> "conflict", intent |-> "CONFLICT_CHECK"],
             [cue |-> "impact", intent |-> "IMPACT_CHECK"],
             [cue |-> "history", intent |-> "VERSION_HISTORY"],
             [cue |-> "change", intent |-> "CHANGE_EXPLANATION"],
             [cue |-> "xref", intent |-> "CROSS_REFERENCE_QA"]>>

Cue == {"current", "conflict", "impact", "history", "change", "xref"}

Intent == {Intents[k].intent : k \in DOMAIN Intents}
            \cup {"POINT_IN_TIME_QA", "CURRENT_QA"}

ByRule(q, requested) ==
    LET S == {k \in DOMAIN Intents : Intents[k].cue \in q.cues}
    IN  CASE S # {} -> Intents[Min(S)].intent
          [] S = {} /\ "current" \in q.cues -> "CURRENT_QA"
          [] S = {} /\ "current" \notin q.cues /\ {requested, q.date} # {None} ->
                "POINT_IN_TIME_QA"
          [] OTHER -> None

\* `label' is what the model says when it is asked, None if it fails or is not; an
\* unknown label is none.
Understand(q, requested, today, label) ==
    [date |-> CASE requested # None -> requested
                [] requested = None /\ q.date # None -> q.date
                [] OTHER -> today,
     explicit |-> requested # None \/ q.date # None \/ "current" \in q.cues,
     intent |-> CASE ByRule(q, requested) # None -> ByRule(q, requested)
                  [] ByRule(q, requested) = None /\ label \in Intent -> label
                  [] OTHER -> "CURRENT_QA"]

-----------------------------------------------------------------------------
(* hybrid_search                                                              *)

\* The score of rank r in one list is 1 / (RrfK + r).
RrfK == 60

Rank(list, d) == CHOOSE i \in DOMAIN list : list[i] = d
In(list, d) == \E i \in DOMAIN list : list[i] = d

\* The sum of the scores of d, [num, den].
Score(bm25, knn, d) ==
    LET a == RrfK + Rank(bm25, d)
        b == RrfK + Rank(knn, d)
    IN  CASE In(bm25, d) /\ In(knn, d) -> [num |-> a + b, den |-> a * b]
          [] In(bm25, d) /\ ~In(knn, d) -> [num |-> 1, den |-> a]
          [] OTHER -> [num |-> 1, den |-> b]

Above(r, s) == r.num * s.den > s.num * r.den

\* reciprocal_rank_fusion: the best k, ties in whatever order.
Fusions(bm25, knn, k) ==
    LET all == {bm25[i] : i \in DOMAIN bm25} \cup {knn[i] : i \in DOMAIN knn}
        n == IF Cardinality(all) < k THEN Cardinality(all) ELSE k
    IN  {list \in [1..n -> all] :
            /\ \A i, j \in 1..n : i < j =>
                  /\ list[i] # list[j]
                  /\ ~Above(Score(bm25, knn, list[j]), Score(bm25, knn, list[i]))
            /\ \A d \in all, i \in 1..n :
                  ~In(list, d) => ~Above(Score(bm25, knn, d), Score(bm25, knn, list[i]))}

\* With require_lexical a neighbour counts only if it shares a word as well.
Lexical(bm25, knn) == SelectSeq(knn, LAMBDA d : In(bm25, d))

HybridSearch(bm25, knn, k) ==
    IF bm25 = << >> THEN {<< >>} ELSE Fusions(bm25, Lexical(bm25, knn), k)

-----------------------------------------------------------------------------
(* output_checks.run                                                          *)

\* An answer is [text, cites, amounts, leaks, status], a package [valid, excluded] of
\* items [id, amounts].
IdsOf(items) == {i.id : i \in items}
AmountsOf(items) == UNION {i.amounts : i \in items}

UsesExcludedNumber(answer, package) ==
    answer.amounts \cap (AmountsOf(package.excluded) \ AmountsOf(package.valid)) # {}

FailuresOf(answer, package) ==
    {c \in {"EMPTY_ANSWER_WITH_EVIDENCE"} : package.valid # {} /\ answer.text = None}
    \cup {c \in {"FABRICATED_CITATION"} : ~(answer.cites \subseteq IdsOf(package.valid))}
    \cup {c \in {"CITED_EXCLUDED_EVIDENCE"} :
            answer.cites \cap IdsOf(package.excluded) # {}}
    \cup {c \in {"NO_GROUNDED_CITATION"} :
            package.valid # {} /\ answer.cites \cap IdsOf(package.valid) = {}}
    \cup {c \in {"USES_EXCLUDED_NUMBER"} : UsesExcludedNumber(answer, package)}
    \cup {c \in {"SYSTEM_PROMPT_LEAK"} : answer.leaks}

Checked(answer, package) ==
    IF answer.status = "INSUFFICIENT_EVIDENCE" THEN [status |-> answer.status,
                                                     failures |-> {}]
    ELSE [status |-> IF FailuresOf(answer, package) = {}
                     THEN "DETERMINISTIC_CHECKS_PASSED" ELSE "NEEDS_REVIEW",
          failures |-> FailuresOf(answer, package)]

-----------------------------------------------------------------------------
(* standard_rag                                                               *)

\* The items it shows the model: the fusion of rankings that are not bound to a day.
\* What the model cites of them is cited; nothing is checked.
NaiveAnswer(items, text, cites) ==
    IF items = << >> \/ text = None
    THEN [cites |-> {}, status |-> "INSUFFICIENT_EVIDENCE"]
    ELSE [cites |-> cites \cap {items[i].id : i \in DOMAIN items},
          status |-> "SOURCE_GROUNDED"]

-----------------------------------------------------------------------------
(* get_client, _extract_json, MockClient.complete                             *)

Provider == {"google", "anthropic", "openai", "openrouter"}

\* keys: the providers there is a key for; broken: those whose library fails to load.
ClientFor(provider, keys, broken) ==
    IF provider \in Provider /\ provider \in keys \ broken THEN provider ELSE "mock"

\* A text of the model as a sequence of "tick" (the fence), "nl", braces and others.
\* Trimming it of what stands for white space is left out.
Body(t, chars) ==
    LET S == {i \in DOMAIN t : t[i] \notin chars}
    IN  IF S = {} THEN << >> ELSE SubSeq(t, Min(S), Max(S))

LineEnds(t) == {i \in DOMAIN t : t[i] = "nl"}

Unfenced(t) ==
    IF t = << >> \/ t[1] # "tick" THEN t
    ELSE LET u == Body(t, {"tick"})
         IN  IF LineEnds(u) = {} THEN u ELSE SubSeq(u, Min(LineEnds(u)) + 1, Len(u))

\* json.loads of an object: braces that close at the end and not before.
Depth(t, i) == Cardinality({j \in 1..i : t[j] = "{"})
                 - Cardinality({j \in 1..i : t[j] = "}"})
IsObject(t) ==
    LET u == Body(t, {"nl"})
    IN  /\ u # << >> /\ u[1] = "{"
        /\ \A i \in DOMAIN u : u[i] # "tick" /\ (Depth(u, i) = 0 <=> i = Len(u))

\* From the first opening to the last closing brace.
Braces(t) ==
    LET S == {i \in DOMAIN t : t[i] = "{"}
        E == {i \in DOMAIN t : t[i] = "}"}
    IN  IF S = {} \/ E = {} \/ Min(S) > Max(E) THEN << >> ELSE SubSeq(t, Min(S), Max(E))

ExtractJson(t) ==
    LET u == Unfenced(Body(t, {"nl"}))
    IN  CASE IsObject(u) -> Body(u, {"nl"})
          [] ~IsObject(u) /\ IsObject(Braces(u)) -> Braces(u)
          [] OTHER -> None

\* The first line with a source and a content is the answer.
MockComplete(lines) ==
    LET S == {i \in DOMAIN lines : lines[i].source # None /\ lines[i].content # None}
    IN  IF S = {} THEN None ELSE lines[Min(S)]
=============================================================================
