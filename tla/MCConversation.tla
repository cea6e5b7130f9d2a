--------------------------- MODULE MCConversation ---------------------------
(* Instances of Conversation: two users, two conversations, and messages that *)
(* between them take every way through post_message.                          *)
EXTENDS Conversation, TLC

CONSTANTS hello, file, u1, u2, c1, c2

\* One user has a conversation of each kind; the other has none.
MCOwnerOf == (c1 :> u1) @@ (c2 :> u1)
MCModeOf == (c1 :> "REGULATORY_ASSISTANT") @@ (c2 :> "DOCUMENT_REVIEW")

\* A follow-up on the attached file, and a greeting that asks for a change.
MCHints == (file :> {"follow-up", "attachment"})
             @@ (hello :> {"chitchat", "change result"})
-----------------------------------------------------------------------------
(* What is shown of the data, on small inputs.                                *)

VW == INSTANCE Views
AK == INSTANCE Ask

SeqsUpTo(S, n) == UNION {[1..k -> S] : k \in 0..n}

\* Two claims are compliant and one is not; each rests on its own sources.
Assessment(c, words, status) ==
    [claim |-> c, words |-> words, status |-> status, findings |-> << >>,
     evidence |-> <<c, "law">>, revision |-> None, review |-> status # "COMPLIANT"]
Reports == SeqsUpTo({Assessment("k1", {1, 2}, "COMPLIANT"),
                     Assessment("k2", {2, 3}, "COMPLIANT"),
                     Assessment("k3", {4}, "NON_COMPLIANT")}, 3)
Asked == [words : SUBSET (1..4), claim : {None, "k1", "k3", "k4"},
          change : BOOLEAN, parameters : BOOLEAN, revision : {FALSE}]
Prose == [status |-> "prose"]
Outs == {None} \cup [text : {Prose},
                     brackets : SUBSET [name : {"k1", "elsewhere"}, spaced : BOOLEAN]]

\* A chat about a review answers with an assessment of the locked report as it stands
\* (explainer.py:1-11): what it cites is the evidence of the claim it names, and prose
\* of the model that puts another source in brackets is dropped.
ASSUME ChatKeepsVerdicts ==
    \A report \in Reports, q \in Asked, out \in Outs :
        LET a == VW!Answer(report, q, out)
        IN  /\ a.claim # None => \E i \in DOMAIN report :
                  /\ report[i].claim = a.claim /\ a.cites = report[i].evidence
                  /\ a.text # Prose => a.text.status = report[i].status
            /\ a.text = Prose =>
                  [name |-> "elsewhere", spaced |-> FALSE] \notin out.brackets
            /\ q.change \/ q.parameters => a.claim = None /\ a.cites = << >>

\* A question that names a claim is answered with it; one that shares hardly a word with
\* the report, with a claim that is not compliant.  A claim that is not in the report is
\* not missed: another one is explained.
ASSUME PickFitsQuestion ==
    /\ \A report \in Reports, words \in SUBSET (1..4), c \in {None, "k1", "k3", "k4"} :
          LET a == VW!PickAssessment(report, words, c)
              far == \A i \in DOMAIN report :
                         /\ report[i].claim # c
                         /\ Cardinality(report[i].words \cap words) < 2
          IN  /\ a = None <=> report = << >>
              /\ (\E i \in DOMAIN report : report[i].claim = c) => a.claim = c
              /\ far /\ (\E i \in DOMAIN report : report[i].status # "COMPLIANT")
                    => a.status # "COMPLIANT"
    /\ \E report \in Reports \ {<< >>} :
          VW!PickAssessment(report, {1, 2}, "k4").claim = "k1"

\* The findings selected from a batch are cited in the order in which they are told.
ASSUME SelectionInOrder ==
    \A one \in Reports, two \in SeqsUpTo({Assessment("k3", {4}, "NON_COMPLIANT")}, 1),
       claims \in SUBSET {"k1", "k3"} :
        LET a == VW!AnswerBatch(<<one, two>>, claims, FALSE, FALSE)
        IN  /\ Len(a.cites) = 2 * Len(a.text)
            /\ \A i \in DOMAIN a.text :
                  /\ a.text[i].evidence[1] \in claims
                  /\ a.cites[2 * i - 1] = a.text[i].evidence[1]

Tasks == {S \in SUBSET [id : 1..2, at : 1..3, status : {"PENDING", "APPROVED"},
                        decision : {None}, by : {None},
                        fields : {[old |-> 1, new |-> 2]}] :
            \A s, t \in S : s.id = t.id \/ s.at = t.at => s = t}
Edits == {[new |-> 3], [note |-> 4]}

\* A task is shown once, in its turn, until it is decided.  What a reviewer edits is
\* merged even when the task is rejected, against the docstring (review_inbox.py:97-98).
ASSUME InboxInTurn ==
    /\ \A tasks \in Tasks :
          LET list == VW!ListTasks(tasks, "PENDING")
          IN  /\ {list[i] : i \in DOMAIN list} = {t \in tasks : t.status = "PENDING"}
              /\ \A i, j \in DOMAIN list : i < j => list[i].at < list[j].at
              /\ \A t \in tasks, d \in {"APPROVE", "EDIT", "REJECT"}, e \in Edits :
                    LET done == VW!MarkDecided(t, d, u1, e)
                    IN  /\ VW!ListTasks((tasks \ {t}) \cup {done}, "PENDING")
                              = SelectSeq(list, LAMBDA x : x # t)
                        /\ \A k \in DOMAIN t.fields \ DOMAIN e :
                              done.fields[k] = t.fields[k]
    /\ \E t \in UNION Tasks : VW!MarkDecided(t, "REJECT", u1, [new |-> 3]).fields.new = 3

\* The draft of a change is made against an approved version if there is one, of those
\* the last to start, which need not be the one in force.
ASSUME DraftAgainstLast ==
    /\ \A versions \in SUBSET [from : 1..3, approved : BOOLEAN] : \A w \in versions :
          LET v == VW!CurrentVersion(versions)
          IN  v \in versions /\ (w.approved => v.approved /\ w.from <= v.from)
    /\ \E versions \in SUBSET [from : 1..3, approved : BOOLEAN] : \E w \in versions :
          w.approved /\ w.from <= 2 /\ VW!CurrentVersion(versions).from > 2

\* The summary of a compliance report counts every claim once; the severity of an impact
\* report is the worst there is, in whatever order the policies come.
ASSUME ReportsAddUp ==
    /\ \A statuses \in SeqsUpTo({"COMPLIANT", "AMBIGUOUS", "NON_COMPLIANT"}, 3) :
          LET r == VW!ComplianceReport(statuses)
              bad == r.summary["AMBIGUOUS"] + r.summary["NON_COMPLIANT"]
          IN  /\ r.total = r.summary["COMPLIANT"] + bad
              /\ r.status = "COMPLETED" <=> r.total = 0
    /\ \A changes \in SeqsUpTo({"APPROVED", "PENDING", "REJECTED"}, 2),
          impacted \in SeqsUpTo({"LOW", "MEDIUM", "HIGH"}, 3) :
          LET r == VW!ImpactReport(changes, impacted)
          IN  /\ r.severity = "HIGH" <=> \E i \in DOMAIN impacted : impacted[i] = "HIGH"
              /\ r.severity = "LOW" => {impacted[i] : i \in DOMAIN impacted} = {"LOW"}
              /\ r.approved + r.pending = Len(changes)
              /\ r.status = "COMPLETED" => r.severity = None /\ r.pending = 0

\* The progress of a batch leaves no item out and counts none twice.
ASSUME ProgressAddsUp ==
    \A at \in {f \in [1..3 -> 1..4] : \A i, j \in 1..3 : f[i] = f[j] => i = j},
       status \in [1..3 -> {"QUEUED", "COMPLETED", "FAILED"}] :
        LET p == VW!BatchProgress({[id |-> i, at |-> at[i], status |-> status[i]] :
                                      i \in 1..3})
        IN  /\ p.completed + p.failed <= p.total /\ p.total = Len(p.items)
            /\ {p.items[i].id : i \in 1..3} = 1..3
            /\ p.completed + p.failed = 3 <=> "QUEUED" \notin {status[i] : i \in 1..3}

\* The audit shows the latest rows; an answer whose row could not be written leaves none.
AuditRows == {VW!AuditRow(i, at, u1, [valid |-> {}, excluded |-> {}],
                          [failures |-> {}, status |-> "NEEDS_REVIEW"]) :
                 i \in 1..3, at \in 1..3}
ASSUME AuditShowsLatest ==
    \A rows \in {S \in SUBSET AuditRows : \A r, s \in S : r.at = s.at => r = s} :
        LET list == VW!ListAudit(rows, 2, FALSE)
        IN  /\ Len(list) = (IF Cardinality(rows) < 2 THEN Cardinality(rows) ELSE 2)
            /\ \A r \in rows, i \in DOMAIN list :
                  (\A j \in DOMAIN list : list[j] # r) => r.at < list[i].at

\* A refusal is ours alone: the naive system answers the same text all the same
\* (query/service.py:103-107).
ASSUME RefusalIsOurs ==
    \A q \in [blank : BOOLEAN, admin : BOOLEAN, injection : BOOLEAN],
       cites \in SUBSET {1, 2} :
        LET ours == [status |-> "NEEDS_REVIEW"]
            both == VW!Compare(AK!CheckQuery(q, "EMPLOYEE"),
                               AK!NaiveAnswer(<<[id |-> 1]>>, "text", cites), ours)
        IN  /\ both.standard = [cites |-> cites \cap {1}, status |-> "SOURCE_GROUNDED"]
            /\ IF q.blank THEN both.ours.failures = {"EMPTY_QUERY"} ELSE both.ours = ours
=============================================================================
