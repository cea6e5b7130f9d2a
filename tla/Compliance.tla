----------------------------- MODULE Compliance -----------------------------
(***************************************************************************)
(* One review run (backend/app/review/service.py create_review_run and     *)
(* workflows/compliance_checks): the knowledge snapshot is frozen, claims  *)
(* are extracted from the document by a language model, each claim is      *)
(* compared with the evidence that retrieval finds for it, and the report  *)
(* is locked after evidence from outside the snapshot is dropped.          *)
(*                                                                         *)
(* The run reads the database in many transactions while the law moves on  *)
(* as Timeline.tla promises: what it reads may be newer than its snapshot. *)
(* The index may hold more than the law: the chunk of an amendment is      *)
(* written before its transaction commits, and stays if it is rolled back. *)
(***************************************************************************)
EXTENDS Timeline, FiniteSets

CONSTANTS
    Claim,          \* sentences of the document that state a checkable fact
    Class,          \* _FACT_CLASSES
    Facts,          \* Facts[c], Facts[v]: the values of each class in the text
                    \*   of a claim or of a version
    Relevant,       \* Relevant[c]: versions that share a bigram with claim c
    Obligation,     \* Obligation[v]: what conflict detection compares
    Internal,       \* provisions of INTERNAL_POLICY documents
    ReviewDate,     \* assessment_date
    Faults          \* what may fail, \subseteq {"model", "database"}

CF == INSTANCE Conflict

Status == {"COMPLIANT", "OUTDATED_REFERENCE", "NON_COMPLIANT",
           "PARTIALLY_COMPLIANT", "AMBIGUOUS", "MISSING_EVIDENCE",
           "NEEDS_HUMAN_REVIEW"}

Chunk == [prov : Provision, from : Date]

ASSUME ComplianceAssumption ==
    /\ None \notin Chunk
    /\ Claim \cap VersionId = {}
    /\ \A x \in Claim \cup VersionId : DOMAIN Facts[x] = Class
    /\ Relevant \in [Claim -> SUBSET VersionId]
    /\ DOMAIN Obligation = VersionId
    /\ Internal \subseteq Provision
    /\ ReviewDate \in Date
    /\ Faults \subseteq {"model", "database"}

VARIABLES
    indexed,        \* indexed[n]: the chunk of the amendment n, or None
    run,            \* how far the run is and what it holds
    verdict         \* verdict[c]: the ClaimAssessment of c, or None

reviewVars == <<law, indexed, run, verdict>>

\* History: nothing was published since the snapshot (`steady'); a failed legal check
\* let through what it would have dropped (`opened'); and the claims that lost
\* evidence to the allowlist (`cut').
Run == [phase : {"new", "frozen", "assessing", "retrieved", "explained",
                 "READY", "INSUFFICIENT_EVIDENCE", "FAILED"},
        snapshot : SUBSET VersionId, todo : SUBSET Claim,
        claim : Claim \cup {None}, valid : SUBSET VersionId,
        excluded : SUBSET VersionId, conflicts : SUBSET SUBSET Provision,
        steady : BOOLEAN, opened : BOOLEAN, cut : SUBSET Claim]

Assessment == [status : Status, valid : SUBSET VersionId,
               excluded : SUBSET VersionId]

ReviewTypeOK ==
    /\ indexed \in [NewId -> Chunk \cup {None}]
    /\ run \in Run
    /\ verdict \in [Claim -> Assessment \cup {None}]

ReviewInit ==
    /\ Init
    /\ indexed = [n \in NewId |-> None]
    /\ run = [phase |-> "new", snapshot |-> {}, todo |-> {}, claim |-> None,
              valid |-> {}, excluded |-> {}, conflicts |-> {},
              steady |-> FALSE, opened |-> FALSE, cut |-> {}]
    /\ verdict = [c \in Claim |-> None]

InLaw == {v \in VersionId : Published(v)}

-----------------------------------------------------------------------------
(* Snapshot and claims *)

\* compute_snapshot; a database error leaves it empty.
Freeze ==
    /\ run.phase = "new"
    /\ \/ run' = [run EXCEPT !.phase = "frozen", !.steady = TRUE,
                              !.snapshot = InLaw]
       \/ /\ "database" \in Faults
          /\ run' = [run EXCEPT !.phase = "frozen", !.steady = TRUE]
    /\ UNCHANGED <<law, indexed, verdict>>

\* claim_extractor.extract: the model finds some of the claims, or it fails on
\* one piece of the text and all claims are lost.
Extract ==
    /\ run.phase = "frozen"
    /\ \E found \in {S \in SUBSET Claim : S = {} => "model" \in Faults} :
         run' = [run EXCEPT !.phase = "assessing", !.todo = found]
    /\ UNCHANGED <<law, indexed, verdict>>

-----------------------------------------------------------------------------
(* Assessing a claim *)

\* The provision and the first day of a version, in which its row and its chunk agree.
ProvOf(v) == IF v \in Provision THEN v ELSE indexed[v].prov
FromOf(v) == IF v \in Provision THEN FirstDate[v] ELSE indexed[v].from

\* The version has a row, be it one that waits for activation.
HasRow(v) == v \in Provision \/ Published(v)

\* An amendment that the index knows and the database does not: in flight, or rolled
\* back.
Uncommitted(v) == v \in NewId /\ indexed[v] # None /\ ~Published(v)

\* Chunks retrieval may find: their window, which may lag behind the row's, holds
\* the review date.  Those of a base document are written before it is published.
Findable ==
    {v \in VersionId : /\ v \in NewId => indexed[v] # None
                       /\ FromOf(v) <= ReviewDate}

\* _exclusion_reason has none: the row says so, or where there is no row the chunk.
Counts(v) ==
    \/ InForce(v, ReviewDate)
    \/ Uncommitted(v) /\ FromOf(v) <= ReviewDate

\* validity.resolve: of each provision found in force the version that starts
\* last, any of them if several do.
LatestOfEach(S) ==
    {T \in SUBSET S :
        /\ \A v \in S : \E w \in T : ProvOf(w) = ProvOf(v) /\ FromOf(v) <= FromOf(w)
        /\ \A v, w \in T : ProvOf(v) = ProvOf(w) => v = w}

\* evidence_package.build, up to the conflicts, which are looked for among versions
\* with a row; the model may drop any hit of the rules.
Retrieve(c) ==
    /\ run.phase = "assessing"
    /\ c \in run.todo
    /\ \E found \in SUBSET Findable :
         \E S \in LatestOfEach({v \in found : Counts(v)}) :
           LET rows == {v \in S : HasRow(v)}
               hits == CF!ConflictPairs(rows, [v \in rows |-> ProvOf(v)], Obligation)
           IN \E answer \in [hits -> {None, TRUE, FALSE}] :
             run' = [run EXCEPT !.phase = "retrieved", !.claim = c,
                                !.todo = @ \ {c}, !.valid = S,
                                !.excluded = found \ S,
                                !.conflicts = CF!Confirmed(hits, answer)]
    /\ UNCHANGED <<law, indexed, verdict>>

\* The versions not in force of the provisions shown, read in a later transaction.
Siblings ==
    {v \in InLaw \ run.valid : /\ \E w \in run.valid : ProvOf(w) = ProvOf(v)
                               /\ ~InForce(v, ReviewDate)}

\* _add_sibling_exclusions
Explain ==
    /\ run.phase = "retrieved"
    /\ run' = [run EXCEPT !.phase = "explained", !.excluded = @ \cup Siblings]
    /\ UNCHANGED <<law, indexed, verdict>>

\* _legal_provision_versions, with the check of the document's type left out.
AnyOrigin(S) == S

\* _legal_provision_versions
LegalOnly(S) == {v \in S : HasRow(v) /\ ProvOf(v) \notin Internal}

ValuesOf(S, f) == UNION {Facts[v][f] : v \in S}

\* _compare, with the superseded values looked at first.
CompareOldFirst(c, valid, old) ==
    [f \in {g \in Class : Facts[c][g] # {}} |->
        IF Facts[c][f] \cap ValuesOf(old, f) # {} THEN "outdated"
        ELSE IF Facts[c][f] \cap ValuesOf(valid, f) # {} THEN "match"
        ELSE IF ValuesOf(valid, f) # {} THEN "mismatch" ELSE "no_evidence"]

\* _compare, with a value that no evidence has taken for a match.
CompareLenient(c, valid, old) ==
    [f \in {g \in Class : Facts[c][g] # {}} |->
        IF Facts[c][f] \cap ValuesOf(old, f) # {} THEN "outdated" ELSE "match"]

\* _compare: the outcome for each class of which the claim has a value.
Compare(c, valid, old) ==
    [f \in {g \in Class : Facts[c][g] # {}} |->
        IF Facts[c][f] \cap ValuesOf(valid, f) # {} THEN "match"
        ELSE IF Facts[c][f] \cap ValuesOf(old, f) # {} THEN "outdated"
        ELSE IF ValuesOf(valid, f) # {} THEN "mismatch" ELSE "no_evidence"]

Outcomes(r) == {r[f] : f \in DOMAIN r}

\* The decision table of assess_claim, first line that fits.
StatusFor(results, valid, excluded, conflict) ==
    LET o == Outcomes(results) IN
    IF valid = {} /\ excluded = {} THEN "MISSING_EVIDENCE"
    ELSE IF o = {} THEN "NEEDS_HUMAN_REVIEW"
    ELSE IF "outdated" \in o THEN "OUTDATED_REFERENCE"
    ELSE IF {"match", "mismatch"} \subseteq o THEN "PARTIALLY_COMPLIANT"
    ELSE IF "mismatch" \in o THEN "NON_COMPLIANT"
    ELSE IF o = {"no_evidence"} THEN "MISSING_EVIDENCE"
    ELSE IF conflict THEN "AMBIGUOUS" ELSE "COMPLIANT"

\* assess_claim once it has its package: the evidence must share words with the
\* claim and come from legal provisions with a row; when the database does not answer
\* the second test is passed, and some of the excluded versions go unread.
Judge ==
    /\ run.phase = "explained"
    /\ LET c == run.claim
           shown == run.valid \cap Relevant[c]
           old == {v \in run.excluded \cap Relevant[c] : HasRow(v)}
       IN \E valid \in {LegalOnly(shown)} \cup (IF "database" \in Faults
                                               THEN {shown} ELSE {}) :
          \E read \in {old} \cup (IF "database" \in Faults THEN SUBSET old ELSE {}) :
            LET results == Compare(c, valid, read)
                inScope == \E pair \in run.conflicts :
                              pair \subseteq {ProvOf(v) : v \in valid}
            IN /\ verdict' = [verdict EXCEPT
                     ![c] = [status |-> StatusFor(results, valid, read, inScope),
                             valid |-> valid, excluded |-> read]]
               /\ run' = [run EXCEPT
                     !.phase = "assessing", !.claim = None, !.valid = {},
                     !.excluded = {}, !.conflicts = {},
                     !.opened = @ \/ valid # LegalOnly(shown)]
    /\ UNCHANGED <<law, indexed>>

-----------------------------------------------------------------------------
(* Locking the report *)

\* The citation allowlist; an empty snapshot allows everything.
Allowed(S) == IF run.snapshot = {} THEN S ELSE S \cap run.snapshot

Assessed == {c \in Claim : verdict[c] # None}

Lock ==
    /\ run.phase = "assessing"
    /\ run.todo = {}
    /\ verdict' = [c \in Claim |->
                     IF verdict[c] = None THEN None
                     ELSE [verdict[c] EXCEPT !.valid = Allowed(@)]]
    /\ run' = [run EXCEPT
                 !.phase = IF Assessed = {} THEN "INSUFFICIENT_EVIDENCE" ELSE "READY",
                 !.cut = {c \in Assessed : Allowed(verdict[c].valid) # verdict[c].valid}]
    /\ UNCHANGED <<law, indexed>>

\* Any other failure is contained: the run is stored without a report.
Fail ==
    /\ "database" \in Faults
    /\ run.phase \in {"assessing", "retrieved"}
    /\ run' = [run EXCEPT !.phase = "FAILED", !.todo = {}, !.claim = None,
                          !.valid = {}, !.excluded = {}, !.conflicts = {}]
    /\ verdict' = [c \in Claim |-> None]
    /\ UNCHANGED <<law, indexed>>

-----------------------------------------------------------------------------
(* The law and the index move *)

\* activate_change_event on its way: the new version of p is in the index, and the
\* transaction may yet be rolled back.
IndexAmendment(n, p, d) ==
    /\ indexed[n] = None
    /\ Versions(p) # {}
    /\ indexed' = [indexed EXCEPT ![n] = [prov |-> p, from |-> d]]
    /\ UNCHANGED <<law, run, verdict>>

\* The index writes of an amendment are part of its transaction's way to commit.
LawChanges ==
    /\ Next
    /\ \A n \in NewId : ~Published(n) /\ Published(n)' =>
          indexed[n] = [prov |-> law'[n].prov, from |-> law'[n].from]
    /\ run' = [run EXCEPT !.steady = FALSE]
    /\ UNCHANGED <<indexed, verdict>>

ReviewNext ==
    \/ \E n \in NewId, p \in Provision, d \in Date : IndexAmendment(n, p, d)
    \/ LawChanges
    \/ Freeze \/ Extract \/ \E c \in Claim : Retrieve(c)
    \/ Explain \/ Judge \/ Lock \/ Fail

ReviewSpec == ReviewInit /\ [][ReviewNext]_reviewVars

-----------------------------------------------------------------------------
(* Correctness *)

Locked == run.phase = "READY"

\* The evidence in a locked report was in the law when the snapshot was taken, if
\* there was a snapshot, and had begun by the review date, however law and index have
\* moved since; it is law in force on that date, unless something was published
\* meanwhile; and none of it is an internal policy.  Without a snapshot only the legal
\* check keeps out what was never committed, and it fails open.
EvidenceSound ==
    Locked => \A c \in Assessed : \A v \in verdict[c].valid :
        /\ run.snapshot # {} => v \in run.snapshot
        /\ FromOf(v) <= ReviewDate
        /\ run.snapshot # {} \/ ~run.opened =>
              Published(v) /\ (run.steady => InForce(v, ReviewDate))
        /\ ~run.opened => ProvOf(v) \notin Internal

HasMatch(c) ==
    \E f \in Class : Facts[c][f] \cap ValuesOf(verdict[c].valid, f) # {}
HasMismatch(c) ==
    \E f \in Class : /\ Facts[c][f] # {}
                     /\ ValuesOf(verdict[c].valid, f) # {}
                     /\ Facts[c][f] \cap ValuesOf(verdict[c].valid, f) = {}

\* The verdict on c can be read off the evidence stored with it.
Readable(c) ==
    /\ verdict[c].status \in {"COMPLIANT", "AMBIGUOUS"} => HasMatch(c) /\ ~HasMismatch(c)
    /\ verdict[c].status = "NON_COMPLIANT" => HasMismatch(c) /\ ~HasMatch(c)
    /\ verdict[c].status = "PARTIALLY_COMPLIANT" => HasMatch(c) /\ HasMismatch(c)
    /\ verdict[c].status = "AMBIGUOUS" =>
          \E v, w \in verdict[c].valid :
             ProvOf(v) # ProvOf(w) /\ CF!RuleConflict(Obligation[v], Obligation[w])

\* A verdict in a locked report can be read off the evidence locked with it, unless the
\* allowlist dropped some of it; and the allowlist drops evidence only if something was
\* published during the run or a failed legal check let it through.
VerdictBacked ==
    Locked => \A c \in Assessed :
        IF c \in run.cut THEN ~run.steady \/ run.opened ELSE Readable(c)

\* The versions a verdict of OUTDATED_REFERENCE can mean.
OldSources(c) ==
    {v \in verdict[c].excluded : \E f \in Class :
        /\ Facts[c][f] \cap Facts[v][f] # {}
        /\ Facts[c][f] \cap ValuesOf(verdict[c].valid, f) = {}}

\* v does not count on the review date: it is not in force, or another version of the
\* provision that counts starts as late.  That other may be an amendment nobody
\* committed.
PassedOver(v) ==
    InForce(v, ReviewDate) =>
        \E w \in VersionId \ {v} : /\ Counts(w) /\ ProvOf(w) = ProvOf(v)
                                   /\ FromOf(v) <= FromOf(w)

\* A claim is called outdated only for a value that no evidence has and that some
\* version has which does not count on the review date.
OutdatedNotCurrent ==
    Locked /\ run.steady => \A c \in Assessed :
        verdict[c].status = "OUTDATED_REFERENCE" => \E v \in OldSources(c) : PassedOver(v)
=============================================================================
