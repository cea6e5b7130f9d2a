------------------------------- MODULE Views --------------------------------
(***************************************************************************)
(* What the program shows of its data: the review inbox                    *)
(* (ingestion/review_inbox.py), the lists of documents and provisions      *)
(* (ingestion/service.py), the two answers side by side and the audit      *)
(* (query/service.py), the progress of a batch (review/batch.py), the      *)
(* explanation of a locked review (review/explainer.py), and the reports   *)
(* of impact and compliance (workflows/*/report_builder.py).  Functions of *)
(* their arguments; what they show is changed in the other modules.        *)
(***************************************************************************)
EXTENDS Integers, Sequences, FiniteSets, FiniteSetsExt, SequencesExt

CONSTANT None

\* Lists are in the order of the times of the rows, rows of one time in any order.
Older(r, s) == r.at < s.at
Newer(r, s) == r.at > s.at

Upto(s, n) == SubSeq(s, 1, IF Len(s) < n THEN Len(s) ELSE n)

-----------------------------------------------------------------------------
(* The inbox: a task is [id, at, status, decision, by, fields].                *)

NewTask(id, at, fields) ==
    [id |-> id, at |-> at, status |-> "PENDING", decision |-> None, by |-> None,
     fields |-> fields]

ListTasks(tasks, status) ==
    SetToSortSeq({t \in tasks : status # None => t.status = status}, Older)

\* The edits are merged whatever the decision.
Merged(fields, edits) ==
    [k \in DOMAIN fields \cup DOMAIN edits |->
        IF k \in DOMAIN edits THEN edits[k] ELSE fields[k]]
MarkDecided(task, decision, by, edits) ==
    [task EXCEPT !.fields = Merged(@, edits), !.decision = decision, !.by = by,
                 !.status = IF decision = "REJECT" THEN "REJECTED" ELSE "APPROVED"]

\* _current_version_content: what the draft of a change is made against.  A version is
\* [from, approved]; of the approved ones, or of all if there are none, the last to start.
CurrentVersion(versions) ==
    LET approved == {v \in versions : v.approved}
        S == IF approved = {} THEN versions ELSE approved
    IN  IF S = {} THEN None ELSE CHOOSE v \in S : \A w \in S : w.from <= v.from

-----------------------------------------------------------------------------
(* Documents are [id, at, approval], versions [prov, doc, at]                  *)

ListDocuments(docs) == SetToSortSeq({d \in docs : d.approval # "ARCHIVED"}, Newer)

ListProvisions(versions, provisions, doc) ==
    SetToSortSeq({v \in versions : v.doc = doc /\ v.prov \in provisions}, Older)

-----------------------------------------------------------------------------
(* Queries                                                                    *)

\* The naive answer is made of the text even if the check refuses it.
Compare(decision, naive, ours) ==
    [standard |-> naive,
     ours |-> IF decision.allowed THEN ours
              ELSE [status |-> "INSUFFICIENT_EVIDENCE", cites |-> {},
                    failures |-> {decision.reason}]]

AuditRow(id, at, user, package, answer) ==
    [id |-> id, at |-> at, user |-> user, used |-> package.valid,
     excluded |-> package.excluded, failures |-> answer.failures,
     status |-> answer.status]

\* A row that cannot be written is lost and the answer given all the same; a list that
\* cannot be read is empty.
Audit(rows, row, fails) == IF fails THEN rows ELSE rows \cup {row}
ListAudit(rows, limit, fails) ==
    IF fails THEN << >> ELSE Upto(SetToSortSeq(rows, Newer), limit)

-----------------------------------------------------------------------------
(* A batch: items are [id, at, status]                                        *)

BatchProgress(items) ==
    LET count(s) == Cardinality({i \in items : i.status = s})
    IN  [total |-> Cardinality(items), completed |-> count("COMPLETED"),
         failed |-> count("FAILED"), items |-> SetToSortSeq(items, Older)]

-----------------------------------------------------------------------------
(* The explainer.  An assessment of a report is [claim, words, status, findings,      *)
(* evidence, revision, review].                                                        *)

Citations(a) == a.evidence

\* The first of those that share most words with the question; with less than two, the
\* first that is not compliant.
PickAssessment(report, words, claim) ==
    LET share(i) == Cardinality(report[i].words \cap words)
        named == {i \in DOMAIN report : claim # None /\ report[i].claim = claim}
        best == {i \in DOMAIN report : \A j \in DOMAIN report : share(j) <= share(i)}
        open == {i \in DOMAIN report : report[i].status # "COMPLIANT"}
    IN  CASE report = << >> -> None
          [] report # << >> /\ named # {} -> report[Min(named)]
          [] OTHER -> report[Min(IF share(Min(best)) < 2 /\ open # {}
                                 THEN open ELSE best)]

\* The parts of the answer; at most three pieces of evidence are named in it.
DeterministicAnswer(a, asksRevision) ==
    [status |-> a.status, findings |-> a.findings,
     evidence |-> Upto(a.evidence, 3),
     revision |-> IF ~asksRevision THEN None
                  ELSE IF a.revision # None THEN a.revision ELSE "needs review",
     review |-> a.review]

\* `out' is what the model makes of it, [text, brackets], None if it fails or is not:
\* brackets holds the words in square brackets, of which those with a space in them
\* are not looked at.
LlmPolish(deterministic, out, allowed) ==
    IF /\ out # None /\ out.text # None
       /\ {b.name : b \in {c \in out.brackets : ~c.spaced}} \subseteq allowed
    THEN out.text ELSE deterministic

\* A message that is not about a finding.
Said(message) == [status |-> message]

Reply(text, cites, claim) == [text |-> text, cites |-> cites, claim |-> claim]

Answer(report, q, out) ==
    LET a == PickAssessment(report, q.words, q.claim)
    IN  CASE q.change -> Reply(Said("locked"), << >>, None)
          [] ~q.change /\ q.parameters -> Reply(Said("new run"), << >>, None)
          [] ~q.change /\ ~q.parameters /\ a = None -> Reply(Said("nothing"), << >>, None)
          [] OTHER -> Reply(LlmPolish(DeterministicAnswer(a, q.revision), out,
                                      ToSet(a.evidence)),
                            Citations(a), a.claim)

\* answer_batch with the scope SELECTED_FINDINGS: the reports of the items that have one.
Selected(reports, claims) ==
    FlattenSeq([i \in DOMAIN reports |->
                   SelectSeq(reports[i], LAMBDA a : a.claim \in claims)])

AnswerBatch(reports, claims, change, asksRevision) ==
    IF change THEN [text |-> <<Said("locked")>>, cites |-> << >>]
    ELSE LET found == Selected(reports, claims)
         IN  [text |-> [i \in DOMAIN found |->
                           DeterministicAnswer(found[i], asksRevision)],
              cites |-> FlattenSeq([i \in DOMAIN found |-> Citations(found[i])])]

-----------------------------------------------------------------------------
(* Reports                                                                    *)

Severity == <<"LOW", "MEDIUM", "HIGH">>
Rank(s) == CHOOSE k \in DOMAIN Severity : Severity[k] = s

\* changes: the review states of the changes, impacted: the severities of the policies.
ImpactReport(changes, impacted) ==
    LET approved == Len(SelectSeq(changes, LAMBDA c : c = "APPROVED"))
        pending == Len(changes) - approved
        ranks == {Rank(impacted[i]) : i \in DOMAIN impacted}
    IN  [approved |-> approved, pending |-> pending,
         severity |-> IF ranks = {} THEN None ELSE Severity[Max(ranks)],
         status |-> IF impacted # << >> \/ pending > 0 THEN "REVIEW_REQUIRED"
                    ELSE "COMPLETED"]

ComplianceStatus == {"COMPLIANT", "NON_COMPLIANT", "PARTIALLY_COMPLIANT",
                     "OUTDATED_REFERENCE", "MISSING_EVIDENCE", "AMBIGUOUS",
                     "NEEDS_HUMAN_REVIEW"}

ComplianceReport(statuses) ==
    [summary |-> [s \in ComplianceStatus |->
                     Cardinality({i \in DOMAIN statuses : statuses[i] = s})],
     total |-> Len(statuses),
     status |-> IF statuses = << >> THEN "COMPLETED" ELSE "REVIEW_REQUIRED"]
=============================================================================
