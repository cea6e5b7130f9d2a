------------------------------- MODULE Impact -------------------------------
(***************************************************************************)
(* Internal policies and the amendments that make them stale.  An          *)
(* activated policy is aligned to the versions its text cites              *)
(* (policy_mapper.py); the report of an amending document lists the        *)
(* policies aligned to what it superseded (impact_engine.py,               *)
(* candidate_finder.py); and a question flags the policies that disagree   *)
(* with the evidence it shows (query/impact.py).  The law itself moves as  *)
(* Timeline.tla promises, and every amendment is the approval of a change  *)
(* event, whose row remembers the last approval only.                      *)
(***************************************************************************)
EXTENDS Timeline

CONSTANTS
    Policy,         \* provision versions of internal policy documents
    Document,       \* documents with a number that may be cited
    DocOf,          \* DocOf[p]: the document that holds p
    Cites,          \* Cites[x]: documents whose number is in the text of x
    Named,          \* Named[x]: provisions of any document with the article and
                    \*   clause that the text of x names first; all provisions
                    \*   if it names none
    Amount,         \* Amount[v], Amount[x]: the first amount of money in the
                    \*   text of a version or of a policy, or None
    Event,          \* change events whose target was resolved
    Target,         \* Target[e]: target_provision_id
    Source          \* Source[e]: amending_document_id

ASSUME ImpactAssumption ==
    /\ DocOf \in [Provision -> Document]
    /\ Cites \in [Policy -> SUBSET Document]
    /\ Named \in [Policy -> SUBSET Provision]
    /\ Policy \cap VersionId = {}
    /\ DOMAIN Amount = Policy \cup VersionId
    /\ Target \in [Event -> Provision]
    /\ Source \in [Event -> Document]
    /\ None \notin [before : VersionId, after : NewId]

VARIABLES
    mapped,         \* policies whose document was activated
    aligned,        \* InternalArtifactRow: pairs of a policy and a version
    change,         \* change[e]: before and after version of an approved event
    overwritten     \* history: before versions that a later approval of the
                    \*   same event put another in place of

impactVars == <<law, mapped, aligned, change, overwritten>>

Change == [before : VersionId, after : NewId]

ImpactTypeOK ==
    /\ mapped \subseteq Policy
    /\ aligned \subseteq mapped \X VersionId
    /\ change \in [Event -> Change \cup {None}]
    /\ overwritten \subseteq VersionId

ImpactInit ==
    /\ Init
    /\ mapped = {}
    /\ aligned = {}
    /\ change = [e \in Event |-> None]
    /\ overwritten = {}

-----------------------------------------------------------------------------
(* Policy mapping *)

\* _open_version; when there are several it takes any.
OpenVersions(p) == {v \in Versions(p) : law[v].to = Open}

\* The provisions of document d that x may mean.
Matches(x, d) == {p \in Named[x] : DocOf[p] = d}

\* Citations that lead somewhere: to one provision, which has an open version.
\* None is guessed.
Resolved(x) ==
    {d \in Cites[x] : \E p \in Provision : /\ Matches(x, d) = {p}
                                           /\ OpenVersions(p) # {}}

\* map_policy_document
MapPolicy(x) ==
    /\ x \notin mapped
    /\ mapped' = mapped \cup {x}
    /\ \E target \in [Resolved(x) -> VersionId] :
         /\ \A d \in Resolved(x) :
               \E p \in Matches(x, d) : target[d] \in OpenVersions(p)
         /\ aligned' = aligned \cup {<<x, target[d]>> : d \in Resolved(x)}
    /\ UNCHANGED <<law, change, overwritten>>

-----------------------------------------------------------------------------
(* The impact report of a document *)

Approved(e) == change[e] # None

\* The approved change events of document d.
Changes(d) == {e \in Event : Approved(e) /\ Source[e] = d}

\* candidate_finder.find, which looks up the new version in place of the old.
FoundByAfter(e) == {a \in aligned : a[2] = change[e].after}

\* candidate_finder.find
Found(e) == {a \in aligned : a[2] = change[e].before}

Disagree(x, v) == Amount[x] # None /\ Amount[v] # None /\ Amount[x] # Amount[v]

\* candidate_finder._classify.  A mapped policy has no modality to compare.
Severity(a, e) == IF Disagree(a[1], change[e].after) THEN "HIGH" ELSE "LOW"

\* impact_engine.run: every aligned policy once, with the highest severity.
Report(d) ==
    {[alignment |-> a,
      severity |-> IF \E e \in Changes(d) : a \in Found(e) /\ Severity(a, e) = "HIGH"
                   THEN "HIGH" ELSE "LOW"]
       : a \in UNION {Found(e) : e \in Changes(d)}}

-----------------------------------------------------------------------------
(* Stale policies next to an answer *)

\* _superseded_at, which takes the last day for the day after.
SupersededLate(v, t) == Published(v) /\ law[v].to < t

\* _superseded_at
Superseded(v, t) == Published(v) /\ law[v].to <= t

\* impact.detect on day t, with version `shown' as the evidence.
Flagged(shown, t) ==
    {a \in aligned : /\ a[2] \in Versions(law[shown].prov)
                     /\ Superseded(a[2], t)
                     /\ Disagree(a[1], shown)}

-----------------------------------------------------------------------------
(* The law moves *)

\* activate_base_document, of documents that are no policies.
Activate ==
    /\ \E S \in SUBSET Provision : Enact(S)
    /\ UNCHANGED <<mapped, aligned, change, overwritten>>

\* activate_change_event.  An event may be approved again, with other dates: a
\* second amendment is published, and the row of the event forgets the first.
Approve(e, old, new, d) ==
    /\ old \in Versions(Target[e])
    /\ Amend(old, new, d) \/ AmendAgain(old, new, d)
    /\ change' = [change EXCEPT ![e] = [before |-> old, after |-> new]]
    /\ overwritten' = IF Approved(e) THEN overwritten \cup {change[e].before}
                      ELSE overwritten
    /\ UNCHANGED <<mapped, aligned>>

ImpactNext ==
    \/ Activate
    \/ \E e \in Event, old \in VersionId, new \in NewId, d \in Date :
          Approve(e, old, new, d)
    \/ \E x \in Policy : MapPolicy(x)

ImpactSpec == ImpactInit /\ [][ImpactNext]_impactVars

-----------------------------------------------------------------------------
(* Correctness *)

\* A question never flags a policy that no impact report lists, in whatever order
\* policies are activated and amendments approved, unless the policy rests on a
\* version whose amendment was forgotten when its event was approved again.
FlaggedWasReported ==
    \A v \in VersionId, t \in Date : InForce(v, t) =>
        \A a \in Flagged(v, t) :
            \/ \E d \in Document : \E r \in Report(d) : r.alignment = a
            \/ a[2] \in overwritten

\* On a day on which the version an event now points to is in force, the two
\* detectors agree on the policies that rest on the version before it: a question
\* flags one if and only if the report of the amending document gives it a
\* mismatch.
ReportAgreesWithQuery ==
    \A e \in Event : Approved(e) =>
        LET new == change[e].after IN
        \A a \in aligned, t \in Date :
            /\ a[2] = change[e].before
            /\ InForce(new, t)
            /\ Orderly(law[new].prov)
            => (a \in Flagged(new, t)
                  <=> [alignment |-> a, severity |-> "HIGH"] \in Report(Source[e]))
=============================================================================
