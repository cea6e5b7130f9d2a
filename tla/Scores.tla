------------------------------- MODULE Scores -------------------------------
(***************************************************************************)
(* The evaluation of answers against golden questions: the metrics of      *)
(* eval/metrics.py and the scoring of eval/run_eval.py.  Functions of      *)
(* their arguments.                                                        *)
(*                                                                         *)
(* A text is [phrases, amounts], what it contains; an expected or a        *)
(* forbidden value is [phrase, currency], `currency' None if it is not an  *)
(* amount with a unit.  A word of a locator is a sequence of characters.   *)
(* A metric that does not apply to a question is None.                     *)
(***************************************************************************)
EXTENDS Naturals, Sequences, FiniteSets

CONSTANT None

-----------------------------------------------------------------------------
(* One question                                                               *)

Contains(text, value) ==
    IF value.currency # None THEN value.currency \in text.amounts
    ELSE value.phrase \in text.phrases

ContainsText(text, expected) == expected = None \/ Contains(text, expected)
NotContainsText(text, forbidden) == forbidden = None \/ ~Contains(text, forbidden)

AnswerCorrect(text, gold) ==
    IF gold.expected = None THEN None
    ELSE ContainsText(text, gold.expected) /\ NotContainsText(text, gold.forbidden)

VersionCorrect(used, label, labelOf) ==
    IF label = None THEN None ELSE label \in {labelOf[v] : v \in used}

\* `tok in hp': somewhere in the heading's text.
Within(word, heading) ==
    \E w \in heading : \E i \in 0..Len(w) :
        i + Len(word) <= Len(w) /\ SubSeq(w, i + 1, i + Len(word)) = word

CitationCorrect(citations, gold) ==
    IF gold.source = {} THEN None
    ELSE \E c \in citations : /\ \A word \in gold.source : Within(word, c.heading)
                              /\ gold.page # None => c.page = gold.page
                              /\ gold.number # None => c.number = gold.number

SupersededUsed(used, superseded) == used \cap superseded # {}

\* Locators are compared as sets of words.
CrossrefRecalled(locators, expected) == expected \in locators

ConflictCorrect(pairs, gold) ==
    CASE gold.type = "CONFLICT_NEGATIVE" -> pairs = {}
      [] gold.type = "CONFLICT" /\ gold.values # {} ->
            \E p \in pairs : gold.values \subseteq p
      [] OTHER -> None

\* alike: one title contains the other.
StalePolicyCorrect(titles, gold, alike) ==
    IF gold.stale = None THEN None ELSE \E t \in titles : <<gold.stale, t>> \in alike

ToAbstain(gold) == gold.type = "ABSTENTION" \/ gold.status = "INSUFFICIENT_EVIDENCE"

AbstainedCorrectly(status, gold) ==
    (status = "INSUFFICIENT_EVIDENCE") <=> ToAbstain(gold)

-----------------------------------------------------------------------------
(* All questions                                                              *)

Share(results) ==
    LET vals == SelectSeq(results, LAMBDA r : r # None)
    IN  IF vals = << >> THEN None
        ELSE [right |-> Len(SelectSeq(vals, LAMBDA r : r = TRUE)), of |-> Len(vals)]

Metric == {"current_version", "point_in_time", "partial_patch", "crossref_recall",
           "conflict_precision", "stale_policy", "citation", "abstention",
           "superseded_rate"}

\* What is scored when the call of a question fails.
Nothing == [text |-> [phrases |-> {}, amounts |-> {}], status |-> None,
            citations |-> {}, used |-> {}, locators |-> {}, pairs |-> {},
            titles |-> {}]

\* The versions an answer used: those of its evidence, if it comes with any.
Extract(answer, evidence) ==
    IF answer = None THEN Nothing
    ELSE [answer EXCEPT !.used = IF evidence = {} THEN @ ELSE evidence]

OnType(gold, type, result) == IF gold.type = type THEN result ELSE None

ScoreItem(metric, d, gold, superseded, alike) ==
    CASE metric = "current_version" ->
            OnType(gold, "CURRENT", AnswerCorrect(d.text, gold))
      [] metric = "point_in_time" ->
            OnType(gold, "POINT_IN_TIME", AnswerCorrect(d.text, gold))
      [] metric = "partial_patch" ->
            OnType(gold, "PARTIAL_PATCH", AnswerCorrect(d.text, gold))
      [] metric = "crossref_recall" ->
            OnType(gold, "CROSS_REFERENCE", CrossrefRecalled(d.locators, gold.reference))
      [] metric = "conflict_precision" -> ConflictCorrect(d.pairs, gold)
      [] metric = "stale_policy" ->
            OnType(gold, "STALE_POLICY", StalePolicyCorrect(d.titles, gold, alike))
      [] metric = "citation" -> CitationCorrect(d.citations, gold)
      [] metric = "abstention" -> AbstainedCorrectly(d.status, gold)
      [] metric = "superseded_rate" ->
            IF ToAbstain(gold) THEN None ELSE SupersededUsed(d.used, superseded)

\* got[k]: what the system under test gave for question k, None if the call failed.
ScoreSystem(golden, got, superseded, alike) ==
    [metric \in Metric |->
        Share([k \in DOMAIN golden |->
                  ScoreItem(metric, got[k], golden[k], superseded, alike)])]
=============================================================================
