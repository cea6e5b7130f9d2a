--------------------------- MODULE Readers_proofs ---------------------------
(***************************************************************************)
(* Proofs about those who read the law that Timeline describes while it    *)
(* moves: Impact, which aligns policies to versions and reports what       *)
(* amendments make of them, and Compliance, a review run over many reads.  *)
(***************************************************************************)
EXTENDS Impact, Compliance, Timeline_proofs

-----------------------------------------------------------------------------
(* Impact: the law under the policies                                        *)

\* An approval of a change event amends, an activation enacts, nothing else touches
\* the law.
LEMMA ImpactStep == [ImpactNext]_impactVars => [Next]_law
<1>1. ASSUME NEW e \in Event, NEW old \in VersionId, NEW new \in NewId, NEW d \in Date,
             Approve(e, old, new, d)
      PROVE  Next
  BY <1>1 DEF Approve, Next
<1>2. Activate => Next
  BY DEF Activate, Next
<1>3. (\E x \in Policy : MapPolicy(x)) => UNCHANGED law
  BY DEF MapPolicy
<1> QED
  BY <1>1, <1>2, <1>3 DEF ImpactNext, impactVars

\* Under the policies the law moves as Timeline says.
LEMMA ImpactLaw == ImpactSpec => Spec
<1>1. ImpactInit => Init
  BY DEF ImpactInit
<1> QED
  BY <1>1, ImpactStep, PTL DEF ImpactSpec, Spec

\* What was published before a step is still, in the same place of its history.
LEMMA Lasting ==
    ASSUME TypeOK, [Next]_law, NEW v \in VersionId, Published(v)
    PROVE  /\ Published(v)' /\ law'[v].prov = law[v].prov
           /\ law'[v].from = law[v].from /\ law'[v].pred = law[v].pred
<1>1. CASE UNCHANGED law
  BY <1>1 DEF Published
<1>2. ASSUME NEW S \in SUBSET Provision, Enact(S) PROVE law'[v] = law[v]
  BY <1>2 DEF Enact
<1>3. ASSUME NEW old \in VersionId, NEW new \in NewId, NEW d \in Date,
             Amend(old, new, d) \/ AmendAgain(old, new, d)
      PROVE  /\ Published(v)' /\ law'[v].prov = law[v].prov
             /\ law'[v].from = law[v].from /\ law'[v].pred = law[v].pred
  <2>1. CASE v = old
    BY <1>3, <2>1, AmendRows
  <2>2. CASE v # old
    BY <1>3, <2>2, AmendRows DEF Published
  <2> QED
    BY <2>1, <2>2
<1> QED
  BY <1>1, <1>2, <1>3 DEF Next, Published

\* The first version of a provision supersedes none, and none supersedes itself or a
\* version of another provision.
Ancestry ==
    \A v \in VersionId : Published(v) =>
        /\ v \in Provision => law[v].pred = None
        /\ law[v].pred # v
        /\ law[v].pred # None => law[v].pred \in Versions(law[v].prov)

\* An amendment gives a version of the same provision as its predecessor.
LEMMA AncestryStep == TypeOK /\ Ancestry /\ [Next]_law => Ancestry'
<1> SUFFICES ASSUME TypeOK, Ancestry, [Next]_law, NEW v \in VersionId, Published(v)'
             PROVE  /\ v \in Provision => law'[v].pred = None
                    /\ law'[v].pred # v
                    /\ law'[v].pred # None => /\ law'[v].pred \in VersionId
                                              /\ law'[law'[v].pred] # None
                                              /\ law'[law'[v].pred].prov = law'[v].prov
  BY DEF Ancestry, Versions, Published
<1>1. CASE Published(v)
  <2>1. law'[v].pred = law[v].pred /\ law'[v].prov = law[v].prov
    BY <1>1, Lasting
  <2>2. law[v].pred # None => /\ law[v].pred \in VersionId /\ Published(law[v].pred)
                              /\ law[law[v].pred].prov = law[v].prov
    BY <1>1 DEF Ancestry, Versions
  <2>3. law[v].pred # None => /\ law'[law[v].pred] # None
                              /\ law'[law[v].pred].prov = law[v].prov
    BY <2>2, Lasting DEF Published
  <2> QED
    BY <1>1, <2>1, <2>2, <2>3 DEF Ancestry
<1>2. CASE ~Published(v)
  <2>1. ASSUME NEW S \in SUBSET Provision, Enact(S)
        PROVE  law'[v].pred = None /\ v # None
    <3>1. law'[v] = FirstRow(v)
      BY <1>2, <2>1 DEF Enact, Published
    <3> QED
      BY <3>1, IdsAssumption DEF FirstRow
  <2>2. ASSUME NEW old \in VersionId, NEW new \in NewId, NEW d \in Date,
               Amend(old, new, d) \/ AmendAgain(old, new, d)
        PROVE  /\ v \notin Provision /\ law'[v].pred # v /\ law'[v].pred \in VersionId
               /\ law'[law'[v].pred] # None /\ law'[law'[v].pred].prov = law'[v].prov
    <3>1. v = new
      BY <1>2, <2>2, AmendRows DEF Published
    <3> QED
      BY <2>2, <3>1, AmendRows, IdsAssumption DEF Published
  <2>3. CASE UNCHANGED law
    BY <1>2, <2>3 DEF Published
  <2> QED
    BY <2>1, <2>2, <2>3 DEF Next
<1> QED
  BY <1>1, <1>2

\* What a policy is aligned to was published when it was mapped.
AlignedToLaw ==
    /\ ImpactTypeOK
    /\ \A a \in aligned : Published(a[2])

\* Versions are never taken back, so an alignment keeps pointing to a published one.
LEMMA AlignedStep ==
    TypeOK /\ AlignedToLaw /\ [ImpactNext]_impactVars => AlignedToLaw'
<1> SUFFICES ASSUME TypeOK, AlignedToLaw, [ImpactNext]_impactVars PROVE AlignedToLaw'
  OBVIOUS
<1>0. \A a \in aligned : a = <<a[1], a[2]>> /\ a[1] \in mapped /\ a[2] \in VersionId
  BY DEF AlignedToLaw, ImpactTypeOK
<1>1. ASSUME UNCHANGED <<mapped, aligned>> PROVE \A a \in aligned' : Published(a[2])'
  BY <1>0, <1>1, ImpactStep, Lasting DEF AlignedToLaw
<1>2. ASSUME NEW x \in Policy, MapPolicy(x) PROVE AlignedToLaw'
  <2>1. PICK target \in [Resolved(x) -> VersionId] :
          /\ \A d \in Resolved(x) : \E p \in Matches(x, d) : target[d] \in OpenVersions(p)
          /\ aligned' = aligned \cup {<<x, target[d]>> : d \in Resolved(x)}
    BY <1>2 DEF MapPolicy
  <2>2. /\ mapped' = mapped \cup {x} /\ law' = law
        /\ change' = change /\ overwritten' = overwritten
    BY <1>2 DEF MapPolicy
  <2>3. \A d \in Resolved(x) : target[d] \in VersionId /\ Published(target[d])
    BY <2>1 DEF OpenVersions, Versions
  <2>4. aligned' \subseteq mapped' \X VersionId
    BY <2>1, <2>2, <2>3, <1>0
  <2>5. \A a \in aligned' : Published(a[2])
    BY <2>1, <2>3 DEF AlignedToLaw
  <2> QED
    BY <2>2, <2>4, <2>5 DEF AlignedToLaw, ImpactTypeOK, Published
<1>3. ASSUME NEW e \in Event, NEW old \in VersionId, NEW new \in NewId, NEW d \in Date,
             Approve(e, old, new, d)
      PROVE  AlignedToLaw'
  <2>1. /\ UNCHANGED <<mapped, aligned>>
        /\ change' = [change EXCEPT ![e] = [before |-> old, after |-> new]]
        /\ overwritten' = IF Approved(e) THEN overwritten \cup {change[e].before}
                          ELSE overwritten
    BY <1>3 DEF Approve
  <2>2. [before |-> old, after |-> new] \in Change
    BY DEF Change
  <2>3. Approved(e) => change[e].before \in VersionId
    BY DEF AlignedToLaw, ImpactTypeOK, Approved, Change
  <2>4. ImpactTypeOK'
    BY <2>1, <2>2, <2>3 DEF AlignedToLaw, ImpactTypeOK
  <2> QED
    BY <1>1, <2>1, <2>4 DEF AlignedToLaw
<1>4. CASE Activate
  BY <1>1, <1>4 DEF Activate, AlignedToLaw, ImpactTypeOK
<1>5. CASE UNCHANGED impactVars
  BY <1>1, <1>5 DEF impactVars, AlignedToLaw, ImpactTypeOK
<1> QED
  BY <1>2, <1>3, <1>4, <1>5 DEF ImpactNext

\* What the rows of the events remember: an approved event names a published version
\* and the one it superseded, and every amendment is in the row of an event unless
\* the event was approved again.
Recorded ==
    /\ \A e \in Event : Approved(e) =>
          /\ Published(change[e].before)
          /\ Published(change[e].after)
          /\ law[change[e].after].pred = change[e].before
    /\ \A n \in NewId : Published(n) =>
          \/ \E e \in Event : Approved(e) /\ change[e].after = n
          \/ law[n].pred \in overwritten

\* The row of an event follows each of its approvals, and what it loses is noted.
LEMMA RecordedStep ==
    TypeOK /\ AlignedToLaw /\ Recorded /\ [ImpactNext]_impactVars => Recorded'
<1> SUFFICES ASSUME TypeOK, AlignedToLaw, Recorded, [ImpactNext]_impactVars
             PROVE  Recorded'
  OBVIOUS
<1>0. \A e \in Event : Approved(e) =>
         /\ change[e].before \in VersionId
         /\ change[e].after \in VersionId /\ change[e].after \in NewId
  BY DEF AlignedToLaw, ImpactTypeOK, Approved, Change, VersionId
<1>1. \A n \in NewId : n \in VersionId
  BY DEF VersionId
<1>2. CASE UNCHANGED <<change, overwritten>>
        /\ \A n \in NewId : Published(n)' => Published(n)
  BY <1>0, <1>1, <1>2, ImpactStep, Lasting DEF Recorded, Approved
<1>3. ASSUME NEW e \in Event, NEW old \in VersionId, NEW new \in NewId, NEW d \in Date,
             Approve(e, old, new, d)
      PROVE  Recorded'
  <2>1. /\ Amend(old, new, d) \/ AmendAgain(old, new, d)
        /\ change' = [change EXCEPT ![e] = [before |-> old, after |-> new]]
        /\ overwritten' = IF Approved(e) THEN overwritten \cup {change[e].before}
                          ELSE overwritten
    BY <1>3 DEF Approve
  <2>2. /\ Published(new)' /\ Published(old)' /\ law'[new].pred = old
        /\ \A w \in VersionId \ {old, new} : law'[w] = law[w]
    BY <2>1, AmendRows
  <2>3. change'[e].before = old /\ change'[e].after = new
    BY <2>1 DEF AlignedToLaw, ImpactTypeOK
  <2>4. \A f \in Event \ {e} : change'[f] = change[f]
    BY <2>1 DEF AlignedToLaw, ImpactTypeOK
  <2>5. ASSUME NEW f \in Event, Approved(f)'
        PROVE  /\ Published(change[f].before)' /\ Published(change[f].after)'
               /\ law'[change'[f].after].pred = change'[f].before
    <3>1. CASE f = e
      BY <2>2, <2>3, <3>1 DEF Published
    <3>2. CASE f # e
      BY <1>0, <2>4, <2>5, <3>2, ImpactStep, Lasting DEF Recorded, Approved, Published
    <3> QED
      BY <3>1, <3>2
  <2>6. ASSUME NEW n \in NewId, Published(n)'
        PROVE  \/ \E f \in Event : Approved(f)' /\ change'[f].after = n
               \/ law'[n].pred \in overwritten'
    <3>1. CASE n = new
      <4>1. change'[e] # None
        BY <2>1, ImpactAssumption DEF AlignedToLaw, ImpactTypeOK
      <4> QED
        BY <2>3, <3>1, <4>1 DEF Approved
    <3>2. CASE n # new
      <4>1. Published(n)
        BY <1>1, <2>1, <2>2, <2>6, <3>2, AmendRows DEF Published
      <4>2. law'[n].pred = law[n].pred
        BY <1>1, <4>1, ImpactStep, Lasting
      <4>3. CASE law[n].pred \in overwritten
        BY <2>1, <4>2, <4>3
      <4>4. ASSUME NEW f \in Event, Approved(f), change[f].after = n
            PROVE  \/ Approved(f)' /\ change'[f].after = n
                   \/ law'[n].pred \in overwritten'
        <5>1. CASE f = e
          BY <2>1, <4>2, <4>4, <5>1 DEF Recorded
        <5>2. CASE f # e
          BY <2>4, <4>4, <5>2 DEF Approved
        <5> QED
          BY <5>1, <5>2
      <4> QED
        BY <4>1, <4>3, <4>4 DEF Recorded
    <3> QED
      BY <3>1, <3>2
  <2> QED
    BY <2>5, <2>6 DEF Recorded
<1>4. CASE Activate
  <2>1. \A n \in NewId : Published(n)' => Published(n)
    BY <1>1, <1>4, IdsAssumption DEF Activate, Enact, Published
  <2> QED
    BY <1>2, <1>4, <2>1 DEF Activate
<1>5. ASSUME NEW x \in Policy, MapPolicy(x) PROVE Recorded'
  BY <1>2, <1>5 DEF MapPolicy, Published
<1>6. CASE UNCHANGED impactVars
  BY <1>2, <1>6 DEF impactVars, Published
<1> QED
  BY <1>3, <1>4, <1>5, <1>6 DEF ImpactNext

\* What policies and events rest on holds in every reachable state.
LEMMA ImpactInvariance ==
    ImpactSpec => [](IInv /\ Ancestry /\ AlignedToLaw /\ Recorded)
<1>1. ImpactInit => Ancestry /\ AlignedToLaw /\ Recorded
  BY DEF ImpactInit, Init, Ancestry, AlignedToLaw, ImpactTypeOK, Published, VersionId,
         Recorded, Approved
<1>2. TypeOK /\ Ancestry /\ [ImpactNext]_impactVars => Ancestry'
  BY ImpactStep, AncestryStep
<1>3. IInv => TypeOK
  BY DEF IInv
<1> QED
  BY <1>1, <1>2, <1>3, AlignedStep, RecordedStep, ImpactLaw, Invariance, PTL
     DEF ImpactSpec

-----------------------------------------------------------------------------
(* Impact: theorems                                                          *)

\* Whoever is flagged was reported: a policy is out of date only because an amendment
\* superseded what it cites, and the report of that amendment lists it, unless a
\* second approval of its change event took its place in the event's row.
THEOREM ReportedFirst == ImpactSpec => []FlaggedWasReported
<1>1. IInv /\ Ancestry /\ AlignedToLaw /\ Recorded => FlaggedWasReported
  <2> SUFFICES ASSUME IInv, Ancestry, AlignedToLaw, Recorded,
                      NEW v \in VersionId, NEW t \in Date, NEW a \in Flagged(v, t),
                      a[2] \notin overwritten
               PROVE  \E d \in Document : \E r \in Report(d) : r.alignment = a
    BY DEF FlaggedWasReported
  <2> DEFINE old == a[2]
  <2>1. a \in aligned /\ old \in VersionId /\ Published(old) /\ Superseded(old, t)
    BY DEF Flagged, AlignedToLaw, ImpactTypeOK
  <2>2. law[old].to # Open
    BY <2>1, Days DEF Superseded
  <2>3. PICK n \in Versions(law[old].prov) : law[n].pred = old
    BY <2>1, <2>2 DEF IInv, Lineage
  <2>4. n \in NewId /\ Published(n)
    BY <2>1, <2>3, IdsAssumption DEF Ancestry, Versions, VersionId
  <2>5. PICK e \in Event : Approved(e) /\ change[e].after = n
    BY <2>3, <2>4 DEF Recorded
  <2>6. Source[e] \in Document /\ e \in Changes(Source[e])
    BY <2>5, ImpactAssumption DEF Changes
  <2>7. change[e].before = old
    BY <2>3, <2>5 DEF Recorded
  <2>8. a \in UNION {Found(f) : f \in Changes(Source[e])}
    BY <2>1, <2>6, <2>7 DEF Found
  <2> DEFINE high(f) == a \in Found(f) /\ Severity(a, f) = "HIGH"
             r == [alignment |-> a,
                   severity |-> IF \E f \in Changes(Source[e]) : high(f)
                                THEN "HIGH" ELSE "LOW"]
  <2>9. r \in Report(Source[e]) /\ r.alignment = a
    BY <2>8 DEF Report
  <2> QED
    BY <2>6, <2>9
<1> QED
  BY <1>1, ImpactInvariance, PTL

\* The two detectors agree on a policy that rests on the version an approved event
\* superseded, as long as the amendments of the provision are orderly.
THEOREM DetectorsAgree == ImpactSpec => []ReportAgreesWithQuery
<1>1. IInv /\ Ancestry /\ AlignedToLaw /\ Recorded => ReportAgreesWithQuery
  <2> SUFFICES ASSUME IInv, Ancestry, AlignedToLaw, Recorded,
                      NEW e \in Event, Approved(e), NEW a \in aligned, NEW t \in Date,
                      a[2] = change[e].before, InForce(change[e].after, t),
                      Orderly(law[change[e].after].prov)
               PROVE  a \in Flagged(change[e].after, t)
                        <=> [alignment |-> a, severity |-> "HIGH"] \in Report(Source[e])
    BY DEF ReportAgreesWithQuery
  <2> DEFINE old == a[2]  n == change[e].after  p == law[n].prov  d == Source[e]
  <2>1. /\ old \in VersionId /\ Published(old) /\ old # None
        /\ n \in VersionId /\ Published(n) /\ law[n].from <= t /\ t < law[n].to
        /\ law[n].pred = old
    BY IdsAssumption DEF AlignedToLaw, ImpactTypeOK, InForce, VersionId, Approved,
                         Change, Recorded
  <2>2. law[n] \in Row /\ law[old] \in Row
    BY <2>1 DEF IInv, TypeOK, Published
  <2>3. n \in Versions(p) /\ p \in Provision
    BY <2>1, <2>2 DEF Versions, Row
  <2>4. /\ old \in Versions(p) /\ law[old].from <= law[n].from
        /\ \A w \in Versions(p) : law[w].pred = old => w = n
    BY <2>1, <2>3 DEF Orderly
  <2>5. /\ law[n].from \in Nat /\ law[n].to \in Nat /\ t \in Nat
        /\ law[old].from \in Nat /\ law[old].to \in Nat
    BY <2>2, Days DEF Row
  \* The old version was closed when its successor began.
  <2>6. Superseded(old, t)
    <3>1. ~(law[n].to <= law[old].from)
      BY <2>1, <2>4, <2>5
    <3>2. n # old
      BY <2>1 DEF Ancestry
    <3>3. law[old].to <= law[n].from
      BY <2>3, <2>4, <3>1, <3>2 DEF IInv, Apart
    <3> QED
      BY <2>1, <2>5, <3>3 DEF Superseded
  <2>7. a \in Flagged(n, t) <=> Disagree(a[1], n)
    BY <2>1, <2>4, <2>6 DEF Flagged
  \* Every event that superseded it points to this amendment.
  <2>8. ASSUME NEW f \in Changes(d), a \in Found(f) PROVE change[f].after = n
    <3>1. /\ change[f].after \in VersionId /\ Published(change[f].after)
          /\ law[change[f].after].pred = old
      BY <2>8 DEF Changes, Found, Approved, AlignedToLaw, ImpactTypeOK, Change, Recorded,
                  VersionId
    <3>2. law[change[f].after].prov = law[old].prov
      BY <3>1, <2>1 DEF Ancestry, Versions
    <3> QED
      BY <2>4, <3>1, <3>2 DEF Versions
  <2>9. e \in Changes(d) /\ a \in Found(e)
    BY <2>1 DEF Changes, Found
  <2> DEFINE high(x) == \E f \in Changes(d) : x \in Found(f) /\ Severity(x, f) = "HIGH"
             row(x) == [alignment |-> x, severity |-> IF high(x) THEN "HIGH" ELSE "LOW"]
  <2>10. high(a) <=> Disagree(a[1], n)
    BY <2>8, <2>9 DEF Severity
  <2>11. Report(d) = {row(x) : x \in UNION {Found(f) : f \in Changes(d)}}
    BY DEF Report
  <2>12. [alignment |-> a, severity |-> "HIGH"] \in Report(d) <=> high(a)
    <3> HIDE DEF high
    <3>1. ASSUME NEW x, row(x) = [alignment |-> a, severity |-> "HIGH"]
          PROVE  x = a /\ high(x)
      <4>1. row(x).alignment = x /\ row(x).severity = (IF high(x) THEN "HIGH" ELSE "LOW")
        OBVIOUS
      <4> QED
        BY <3>1, <4>1
    <3>2. ASSUME high(a) PROVE row(a) = [alignment |-> a, severity |-> "HIGH"]
      BY <3>2
    <3> QED
      BY <2>9, <2>11, <3>1, <3>2
  <2> QED
    BY <2>7, <2>10, <2>12
<1> QED
  BY <1>1, ImpactInvariance, PTL

-----------------------------------------------------------------------------
(* Compliance: the inductive invariant                                       *)

\* The row of a published version says what its chunk says.
Agreed ==
    \A v \in VersionId : Published(v) =>
        /\ v \in NewId => indexed[v] # None
        /\ law[v].prov = ProvOf(v) /\ law[v].from = FromOf(v)

\* What counts as evidence is published or at least indexed, had begun by the review
\* date, and if published is in force, unless the law has moved since.
Sound(S) ==
    \A v \in S : /\ v \in Provision => Published(v)
                 /\ v \in NewId => indexed[v] # None
                 /\ FromOf(v) <= ReviewDate
                 /\ run.steady /\ Published(v) => InForce(v, ReviewDate)

\* The package of the claim under way: one version of a provision, apart from them only
\* versions that do not count, and conflicts between two that do.
Package ==
    /\ Sound(run.valid)
    /\ \A v, w \in run.valid : ProvOf(v) = ProvOf(w) => v = w
    /\ \A v \in run.excluded : run.steady => PassedOver(v)
    /\ \A pair \in run.conflicts : \E v, w \in run.valid :
          /\ pair = {ProvOf(v), ProvOf(w)} /\ ProvOf(v) # ProvOf(w)
          /\ CF!RuleConflict(Obligation[v], Obligation[w])

\* A snapshot holds only law, and if it could be taken all of it, until the law moves;
\* nothing is read before it, and nothing dropped before the report is locked.
Snapshot ==
    /\ run.phase = "new" => /\ run.snapshot = {} /\ Assessed = {}
                            /\ run.valid = {} /\ run.excluded = {}
    /\ run.snapshot \subseteq InLaw
    /\ run.steady => run.snapshot \in {{}, InLaw}
    /\ ~Locked => run.cut = {}

\* A value that makes a claim outdated is of a version that does not count.
Dated(c) ==
    verdict[c].status = "OUTDATED_REFERENCE" => \E v \in OldSources(c) : PassedOver(v)

\* Evidence that passed a legal check that worked.
Legal(S) == \A v \in S : Published(v) /\ ProvOf(v) \notin Internal

\* What has been judged so far.  The allowlist may drop evidence in the end, but only if
\* the law has moved or the legal check let through what is no law.
Verdicts ==
    \A c \in Assessed :
        /\ Sound(verdict[c].valid)
        /\ ~run.opened => Legal(verdict[c].valid)
        /\ Locked /\ run.snapshot # {} => verdict[c].valid \subseteq run.snapshot
        /\ IF c \in run.cut THEN ~run.steady \/ run.opened ELSE Readable(c)
        /\ run.steady => Dated(c)

ReviewIInv == TypeOK /\ ReviewTypeOK /\ Agreed /\ Package /\ Snapshot /\ Verdicts

-----------------------------------------------------------------------------
(* Compliance: steps                                                         *)

\* Under a review the law moves as Timeline says.
LEMMA ReviewLaw == ReviewSpec => Spec
<1>1. ReviewInit => Init
  BY DEF ReviewInit
<1>2. [ReviewNext]_reviewVars => [Next]_law
  BY DEF ReviewNext, reviewVars, LawChanges, IndexAmendment, Freeze, Extract, Retrieve,
         Explain, Judge, Lock, Fail
<1> QED
  BY <1>1, <1>2, PTL DEF ReviewSpec, Spec

\* A version that the index knows belongs to some provision.
LEMMA ProvTyped ==
    ASSUME ReviewTypeOK, NEW v \in VersionId, v \in NewId => indexed[v] # None
    PROVE  ProvOf(v) \in Provision
  BY DEF ReviewTypeOK, Chunk, ProvOf, VersionId

\* While neither the law nor the index moves, versions stay what they are.
LEMMA Unmoved ==
    ASSUME law' = law, indexed' = indexed
    PROVE  /\ \A v : /\ Published(v)' = Published(v)
                     /\ InForce(v, ReviewDate)' = InForce(v, ReviewDate)
                     /\ ProvOf(v)' = ProvOf(v) /\ FromOf(v)' = FromOf(v)
                     /\ PassedOver(v) => PassedOver(v)'
           /\ InLaw' = InLaw
           /\ Agreed => Agreed'
           /\ TypeOK => TypeOK'
           /\ \A S : Legal(S) => Legal(S)'
           /\ \A S : Sound(S) /\ (run'.steady => run.steady) => Sound(S)'
<1>1. \A v : /\ Published(v)' = Published(v)
             /\ InForce(v, ReviewDate)' = InForce(v, ReviewDate)
             /\ ProvOf(v)' = ProvOf(v) /\ FromOf(v)' = FromOf(v)
  BY DEF Published, InForce, ProvOf, FromOf
<1>2. \A v : Counts(v)' = Counts(v)
  BY DEF Counts, Uncommitted, InForce, Published, FromOf
<1>3. \A v : PassedOver(v) => PassedOver(v)'
  BY <1>1, <1>2 DEF PassedOver
<1>4. InLaw' = InLaw
  BY DEF InLaw, Published
<1>5. Agreed => Agreed'
  BY <1>1 DEF Agreed
<1>6. \A S : Legal(S) => Legal(S)'
  BY <1>1 DEF Legal
<1>7. \A S : Sound(S) /\ (run'.steady => run.steady) => Sound(S)'
  BY <1>1 DEF Sound
<1> QED
  BY <1>1, <1>3, <1>4, <1>5, <1>6, <1>7 DEF TypeOK

\* The law moves: what was read stays published and keeps its place, and the run is no
\* longer steady.
LEMMA LawMovesUnder == ASSUME ReviewIInv, LawChanges PROVE ReviewIInv'
<1> USE DEF ReviewIInv
<1>1. /\ run'.phase = run.phase /\ run'.snapshot = run.snapshot /\ run'.todo = run.todo
      /\ run'.claim = run.claim /\ run'.valid = run.valid /\ run'.excluded = run.excluded
      /\ run'.conflicts = run.conflicts /\ run'.opened = run.opened /\ run'.cut = run.cut
      /\ ~run'.steady /\ run' \in Run /\ verdict' = verdict /\ indexed' = indexed
  BY DEF LawChanges, ReviewTypeOK, Run
<1>2. \A v \in VersionId : Published(v) =>
        Published(v)' /\ law'[v].prov = law[v].prov /\ law'[v].from = law[v].from
  BY Lasting DEF LawChanges
<1>3. TypeOK' /\ ReviewTypeOK'
  BY <1>1, TypeStep DEF LawChanges, ReviewTypeOK
<1>4. /\ run.valid \subseteq VersionId
      /\ \A c \in Assessed : verdict[c].valid \subseteq VersionId
  BY DEF ReviewTypeOK, Run, Assessed, Assessment
<1>5. \A v : ProvOf(v)' = ProvOf(v) /\ FromOf(v)' = FromOf(v)
  BY <1>1 DEF ProvOf, FromOf
<1>6. \A S \in SUBSET VersionId : Sound(S) => Sound(S)'
  BY <1>1, <1>2, <1>5 DEF Sound
<1>7. \A S \in SUBSET VersionId : Legal(S) => Legal(S)'
  BY <1>2, <1>5 DEF Legal
<1>8. Agreed'
  <2> SUFFICES ASSUME NEW v \in VersionId, Published(v)'
               PROVE  /\ v \in NewId => indexed[v] # None
                      /\ law'[v].prov = ProvOf(v) /\ law'[v].from = FromOf(v)
    BY <1>1, <1>5 DEF Agreed
  <2>1. CASE Published(v)
    BY <1>2, <2>1 DEF Agreed
  <2>2. CASE ~Published(v) /\ v \in NewId
    <3>1. indexed[v] = [prov |-> law'[v].prov, from |-> law'[v].from]
      BY <2>2 DEF LawChanges
    <3>2. law'[v] \in Row
      BY <1>3 DEF TypeOK, Published
    <3>3. indexed[v] \in Chunk
      BY <3>1, <3>2 DEF Row, Chunk
    <3> QED
      BY <2>2, <3>1, <3>3, IdsAssumption, ComplianceAssumption DEF ProvOf, FromOf
  <2>3. CASE ~Published(v) /\ v \in Provision
    <3>1. ASSUME NEW S \in SUBSET Provision, Enact(S) PROVE law'[v] = FirstRow(v)
      BY <2>3, <3>1 DEF Enact, Published
    <3>2. ASSUME NEW old \in VersionId, NEW new \in NewId, NEW d \in Date,
                 Amend(old, new, d) \/ AmendAgain(old, new, d)
          PROVE  FALSE
      BY <2>3, <3>2, AmendRows, IdsAssumption DEF Published
    <3>3. law'[v] = FirstRow(v)
      BY <3>1, <3>2 DEF LawChanges, Next
    <3> QED
      BY <2>3, <3>3, IdsAssumption DEF FirstRow, ProvOf, FromOf
  <2> QED
    BY <2>1, <2>2, <2>3 DEF VersionId
<1>9. Package'
  <2>1. Sound(run.valid)'
    BY <1>1, <1>4, <1>6 DEF Package
  <2> QED
    BY <1>1, <1>5, <2>1 DEF Package
<1>10. Snapshot'
  BY <1>1, <1>2 DEF Snapshot, Assessed, Locked, InLaw
<1>11. Verdicts'
  <2> SUFFICES ASSUME NEW c \in Assessed
               PROVE  /\ Sound(verdict[c].valid)'
                      /\ ~run.opened => Legal(verdict[c].valid)'
                      /\ Locked /\ run.snapshot # {} => verdict[c].valid \subseteq run.snapshot
                      /\ c \notin run.cut => Readable(c)'
    BY <1>1 DEF Verdicts, Assessed, Locked
  <2>1. Sound(verdict[c].valid)' /\ (~run.opened => Legal(verdict[c].valid)')
    BY <1>1, <1>4, <1>6, <1>7 DEF Verdicts
  <2>2. Readable(c) => Readable(c)'
    BY <1>1, <1>5 DEF Readable, HasMatch, HasMismatch, ValuesOf
  <2> QED
    BY <2>1, <2>2 DEF Verdicts
<1> QED
  BY <1>3, <1>8, <1>9, <1>10, <1>11

\* An amendment enters the index: what was in it stays as it was, and what did not count
\* still does not.
LEMMA IndexStep ==
    ASSUME ReviewIInv, NEW n \in NewId, NEW p \in Provision, NEW d \in Date,
           IndexAmendment(n, p, d)
    PROVE  ReviewIInv'
<1> USE DEF ReviewIInv
<1>1. /\ law' = law /\ run' = run /\ verdict' = verdict /\ indexed[n] = None
      /\ indexed' = [indexed EXCEPT ![n] = [prov |-> p, from |-> d]]
  BY DEF IndexAmendment
<1>2. \A m \in NewId : indexed[m] # None => indexed'[m] = indexed[m]
  BY <1>1 DEF ReviewTypeOK
<1>3. TypeOK' /\ ReviewTypeOK'
  BY <1>1 DEF TypeOK, ReviewTypeOK, Chunk
<1>4. /\ run.valid \subseteq VersionId
      /\ \A c \in Assessed : verdict[c].valid \subseteq VersionId
  BY DEF ReviewTypeOK, Run, Assessed, Assessment
<1>5. \A v \in VersionId : (v \in NewId => indexed[v] # None) =>
        /\ v \in NewId => indexed'[v] = indexed[v]
        /\ ProvOf(v)' = ProvOf(v) /\ FromOf(v)' = FromOf(v)
  BY <1>1, <1>2 DEF ProvOf, FromOf, VersionId
<1>6. \A v : /\ Published(v)' = Published(v)
             /\ InForce(v, ReviewDate)' = InForce(v, ReviewDate)
  BY <1>1 DEF Published, InForce
<1>7. Agreed'
  BY <1>1, <1>5, <1>6 DEF Agreed
<1>8. \A S \in SUBSET VersionId : Sound(S) => Sound(S)'
  BY <1>1, <1>5, <1>6 DEF Sound
<1>9. \A S \in SUBSET VersionId : Sound(S) /\ Legal(S) => Legal(S)'
  BY <1>5, <1>6 DEF Sound, Legal
<1>10. \A v \in VersionId : PassedOver(v) => PassedOver(v)'
  <2> SUFFICES ASSUME NEW v \in VersionId, PassedOver(v), InForce(v, ReviewDate)
               PROVE  \E w \in VersionId \ {v} :
                         /\ Counts(w)' /\ ProvOf(w)' = ProvOf(v)'
                         /\ FromOf(v)' <= FromOf(w)'
    BY <1>6 DEF PassedOver
  <2>1. PICK w \in VersionId \ {v} :
          Counts(w) /\ ProvOf(w) = ProvOf(v) /\ FromOf(v) <= FromOf(w)
    BY DEF PassedOver
  <2>2. v \in NewId => indexed[v] # None
    BY DEF Agreed, InForce
  <2>3. w \in NewId => indexed[w] # None
    BY <2>1 DEF Counts, Uncommitted, Agreed, InForce
  <2>4. Counts(w)'
    BY <1>5, <1>6, <2>1, <2>3 DEF Counts, Uncommitted
  <2> QED
    BY <1>5, <2>1, <2>2, <2>3, <2>4
<1>11. Package'
  <2>1. \A v \in run.valid : ProvOf(v)' = ProvOf(v)
    BY <1>4, <1>5 DEF Package, Sound
  <2>2. Sound(run.valid)'
    BY <1>1, <1>4, <1>8 DEF Package
  <2>3. \A v \in run.excluded : run.steady => PassedOver(v)'
    BY <1>10 DEF Package, ReviewTypeOK, Run
  <2>4. \A v, w \in run.valid : ProvOf(v)' = ProvOf(w)' => v = w
    BY <2>1 DEF Package
  <2>5. \A pair \in run.conflicts : \E v, w \in run.valid :
          /\ pair = {ProvOf(v)', ProvOf(w)'} /\ ProvOf(v)' # ProvOf(w)'
          /\ CF!RuleConflict(Obligation[v], Obligation[w])
    BY <2>1 DEF Package
  <2> QED
    BY <1>1, <2>2, <2>3, <2>4, <2>5 DEF Package
<1>12. Snapshot'
  BY <1>1 DEF Snapshot, Assessed, Locked, InLaw, Published
<1>13. Verdicts'
  <2> SUFFICES ASSUME NEW c \in Assessed
               PROVE  /\ Sound(verdict[c].valid)'
                      /\ ~run.opened => Legal(verdict[c].valid)'
                      /\ Readable(c) => Readable(c)'
                      /\ Dated(c) => Dated(c)'
    BY <1>1 DEF Verdicts, Assessed, Locked
  <2>1. Sound(verdict[c].valid)
    BY DEF Verdicts
  <2>2. Sound(verdict[c].valid)' /\ (~run.opened => Legal(verdict[c].valid)')
    BY <1>1, <1>4, <1>8, <1>9, <2>1 DEF Verdicts
  <2>3. \A v \in verdict[c].valid : ProvOf(v)' = ProvOf(v)
    BY <1>4, <1>5, <2>1 DEF Sound
  <2>4. Readable(c) => Readable(c)'
    BY <1>1, <2>3 DEF Readable, HasMatch, HasMismatch, ValuesOf
  <2>5. Dated(c) => Dated(c)'
    <3>1. OldSources(c)' = OldSources(c) /\ OldSources(c) \subseteq VersionId
      BY <1>1 DEF OldSources, ValuesOf, ReviewTypeOK, Assessed, Assessment
    <3> QED
      BY <1>1, <1>10, <3>1 DEF Dated
  <2> QED
    BY <2>2, <2>4, <2>5
<1> QED
  BY <1>3, <1>7, <1>11, <1>12, <1>13

\* A verdict stands while the run goes on with another claim.
LEMMA VerdictStands ==
    ASSUME Verdicts, Snapshot, law' = law, indexed' = indexed, ~Locked, ~Locked',
           run'.steady => run.steady, run.opened => run'.opened, run'.cut = run.cut,
           NEW c \in Assessed, verdict'[c] = verdict[c]
    PROVE  /\ Sound(verdict[c].valid)'
           /\ ~run'.opened => Legal(verdict[c].valid)'
           /\ c \notin run'.cut /\ Readable(c)'
           /\ run'.steady => Dated(c)'
<1>1. Sound(verdict[c].valid)'
  BY Unmoved DEF Verdicts
<1>2. ~run'.opened => Legal(verdict[c].valid)'
  BY Unmoved DEF Verdicts
<1>3. c \notin run'.cut
  BY DEF Snapshot
<1>4. Readable(c)'
  <2>1. Readable(c)
    BY <1>3 DEF Verdicts
  <2> QED
    BY <2>1, Unmoved DEF Readable, HasMatch, HasMismatch, ValuesOf
<1>5. ASSUME run'.steady PROVE Dated(c)'
  <2>1. Dated(c)
    BY <1>5 DEF Verdicts
  <2>2. OldSources(c)' = OldSources(c)
    BY DEF OldSources, ValuesOf
  <2> QED
    BY <2>1, <2>2, Unmoved DEF Dated
<1> QED
  BY <1>1, <1>2, <1>3, <1>4, <1>5

\* No claim is judged, and the verdicts stand.
LEMMA VerdictsStand ==
    ASSUME Verdicts, Snapshot, law' = law, indexed' = indexed, verdict' = verdict,
           ~Locked, ~Locked', run'.steady => run.steady, run.opened => run'.opened,
           run'.cut = run.cut
    PROVE  Verdicts'
<1> SUFFICES ASSUME NEW c \in Assessed
             PROVE  /\ Sound(verdict[c].valid)'
                    /\ ~run'.opened => Legal(verdict[c].valid)'
                    /\ c \notin run'.cut /\ Readable(c)'
                    /\ run'.steady => Dated(c)'
  BY DEF Verdicts, Assessed
<1> QED
  BY VerdictStands

\* The snapshot is taken of all that is published, or comes to nothing.
LEMMA FreezeStep == ASSUME ReviewIInv, Freeze PROVE ReviewIInv'
<1> USE DEF ReviewIInv
<1>1. /\ run.phase = "new" /\ law' = law /\ indexed' = indexed /\ verdict' = verdict
      /\ run.valid = {} /\ run.excluded = {} /\ Assessed = {}
  BY DEF Freeze, Snapshot
<1>2. \/ run' = [run EXCEPT !.phase = "frozen", !.steady = TRUE, !.snapshot = InLaw]
      \/ run' = [run EXCEPT !.phase = "frozen", !.steady = TRUE]
  BY DEF Freeze
<1>3. /\ run'.phase = "frozen" /\ run'.valid = run.valid /\ run'.excluded = run.excluded
      /\ run'.conflicts = run.conflicts /\ run'.cut = run.cut
      /\ run'.snapshot \in {{}, InLaw}
  BY <1>1, <1>2 DEF ReviewTypeOK, Run, Snapshot
<1>4. run' \in Run
  <2>1. run \in Run /\ InLaw \in SUBSET VersionId
    BY DEF ReviewTypeOK, InLaw
  <2> QED
    BY <1>2, <2>1 DEF Run
<1>5. TypeOK' /\ ReviewTypeOK' /\ Agreed'
  BY <1>1, <1>4, Unmoved DEF ReviewTypeOK
<1>6. Package'
  BY <1>1, <1>3, Unmoved DEF Package, Sound
<1>7. Snapshot'
  BY <1>1, <1>3, Unmoved DEF Snapshot, Locked
<1>8. Verdicts'
  BY <1>1 DEF Verdicts, Assessed
<1> QED
  BY <1>5, <1>6, <1>7, <1>8

\* The model's claims change nothing of what is read.
LEMMA ExtractStep == ASSUME ReviewIInv, Extract PROVE ReviewIInv'
<1> USE DEF ReviewIInv
<1>1. /\ run.phase = "frozen" /\ run'.phase = "assessing"
      /\ run'.valid = run.valid /\ run'.excluded = run.excluded
      /\ run'.conflicts = run.conflicts /\ run'.snapshot = run.snapshot
      /\ run'.steady = run.steady /\ run'.opened = run.opened /\ run'.cut = run.cut
      /\ law' = law /\ indexed' = indexed /\ verdict' = verdict /\ run' \in Run
  BY DEF Extract, ReviewTypeOK, Run
<1>2. TypeOK' /\ ReviewTypeOK' /\ Agreed'
  BY <1>1, Unmoved DEF ReviewTypeOK
<1>3. Package'
  BY <1>1, Unmoved DEF Package
<1>4. Snapshot'
  BY <1>1, Unmoved DEF Snapshot, Locked
<1>5. Verdicts'
  BY <1>1, VerdictsStand DEF Locked
<1> QED
  BY <1>2, <1>3, <1>4, <1>5

\* What retrieval finds is split in what counts on the review date and what does not.
LEMMA RetrieveStep == ASSUME ReviewIInv, NEW c \in Claim, Retrieve(c) PROVE ReviewIInv'
<1> USE DEF ReviewIInv
<1> DEFINE rows(S) == {v \in S : HasRow(v)}
           hits(S) == CF!ConflictPairs(rows(S), [v \in rows(S) |-> ProvOf(v)], Obligation)
           after(found, S, conflicts) ==
               [run EXCEPT !.phase = "retrieved", !.claim = c, !.todo = @ \ {c},
                           !.valid = S, !.excluded = found \ S, !.conflicts = conflicts]
<1>1. PICK found \in SUBSET Findable : \E S \in LatestOfEach({v \in found : Counts(v)}) :
        \E answer \in [hits(S) -> {None, TRUE, FALSE}] :
          run' = after(found, S, CF!Confirmed(hits(S), answer))
  BY DEF Retrieve
<1>2. PICK S \in LatestOfEach({v \in found : Counts(v)}) :
        \E answer \in [hits(S) -> {None, TRUE, FALSE}] :
          run' = after(found, S, CF!Confirmed(hits(S), answer))
  BY <1>1
<1>3. PICK conflicts \in SUBSET hits(S) : run' = after(found, S, conflicts)
  BY <1>2 DEF CF!Confirmed
<1>4. /\ law' = law /\ indexed' = indexed /\ verdict' = verdict
      /\ run.phase = "assessing"
  BY DEF Retrieve
<1>5. \A v \in found : /\ v \in VersionId /\ FromOf(v) <= ReviewDate
                       /\ v \in NewId => indexed[v] # None
  BY DEF Findable
<1>6. /\ S \subseteq found /\ \A v \in S : Counts(v)
      /\ \A v, w \in S : ProvOf(v) = ProvOf(w) => v = w
      /\ \A v \in found : Counts(v) =>
            \E w \in S : ProvOf(w) = ProvOf(v) /\ FromOf(v) <= FromOf(w)
  BY DEF LatestOfEach
<1>7. \A pair \in conflicts : \E v, w \in S :
        /\ pair = {ProvOf(v), ProvOf(w)} /\ ProvOf(v) # ProvOf(w)
        /\ CF!RuleConflict(Obligation[v], Obligation[w])
  BY DEF CF!ConflictPairs
<1>8. conflicts \subseteq SUBSET Provision
  BY <1>5, <1>6, <1>7, ProvTyped
<1>9. /\ run'.phase = "retrieved" /\ run'.valid = S /\ run'.excluded = found \ S
      /\ run'.conflicts = conflicts /\ run'.snapshot = run.snapshot
      /\ run'.steady = run.steady /\ run'.opened = run.opened /\ run'.cut = run.cut
  BY <1>3 DEF ReviewTypeOK, Run
<1>10. run' \in Run
  <2>1. S \in SUBSET VersionId /\ found \ S \in SUBSET VersionId
    BY <1>5, <1>6
  <2> HIDE DEF hits
  <2> QED
    BY <1>3, <1>8, <2>1 DEF ReviewTypeOK, Run
<1>11. TypeOK' /\ ReviewTypeOK' /\ Agreed'
  BY <1>4, <1>10, Unmoved DEF ReviewTypeOK
<1>12. Package'
  <2>1. ASSUME NEW v \in found \ S, InForce(v, ReviewDate)
        PROVE  \E w \in VersionId \ {v} : /\ Counts(w) /\ ProvOf(w) = ProvOf(v)
                                          /\ FromOf(v) <= FromOf(w)
    <3>1. PICK w \in S : ProvOf(w) = ProvOf(v) /\ FromOf(v) <= FromOf(w)
      BY <1>6, <2>1 DEF Counts
    <3>2. w \in VersionId \ {v} /\ Counts(w)
      BY <1>5, <1>6, <2>1
    <3> QED
      BY <3>1, <3>2
  <2>2. \A v \in found \ S : PassedOver(v)
    BY <2>1 DEF PassedOver
  <2>3. Sound(S)
    BY <1>5, <1>6, IdsAssumption DEF Sound, Counts, Uncommitted, InForce
  <2>4. Sound(S)'
    BY <1>4, <1>9, <2>3, Unmoved
  <2> HIDE DEF hits
  <2> QED
    BY <1>4, <1>6, <1>7, <1>9, <2>2, <2>4, Unmoved DEF Package
<1>13. Snapshot'
  BY <1>4, <1>9, Unmoved DEF Snapshot, Locked
<1>14. Verdicts'
  BY <1>4, <1>9, VerdictsStand DEF Locked
<1> QED
  BY <1>11, <1>12, <1>13, <1>14

\* The siblings read later are not in force.
LEMMA ExplainStep == ASSUME ReviewIInv, Explain PROVE ReviewIInv'
<1> USE DEF ReviewIInv
<1>1. /\ run.phase = "retrieved" /\ run'.phase = "explained" /\ run'.valid = run.valid
      /\ run'.excluded = run.excluded \cup Siblings
      /\ run'.conflicts = run.conflicts /\ run'.snapshot = run.snapshot
      /\ run'.steady = run.steady /\ run'.opened = run.opened /\ run'.cut = run.cut
      /\ law' = law /\ indexed' = indexed /\ verdict' = verdict /\ run' \in Run
  BY DEF Explain, ReviewTypeOK, Run, Siblings, InLaw
<1>2. TypeOK' /\ ReviewTypeOK' /\ Agreed'
  BY <1>1, Unmoved DEF ReviewTypeOK
<1>3. Package'
  <2>1. \A v \in Siblings : PassedOver(v)
    BY DEF Siblings, PassedOver
  <2> QED
    BY <1>1, <2>1, Unmoved DEF Package
<1>4. Snapshot'
  BY <1>1, Unmoved DEF Snapshot, Locked
<1>5. Verdicts'
  BY <1>1, VerdictsStand DEF Locked
<1> QED
  BY <1>2, <1>3, <1>4, <1>5

\* The claim has a value of a class that a version of S has too, or none of those it has.
Shares(c, S, f) == Facts[c][f] \cap ValuesOf(S, f) # {}
DiffersOn(c, S, f) == Facts[c][f] # {} /\ ValuesOf(S, f) # {} /\ ~Shares(c, S, f)

\* What the comparison finds: a match is a value shared with the evidence, a mismatch a
\* value of the same class that the evidence has and does not share, and an outdated one
\* is only in what does not count.
LEMMA Compared ==
    ASSUME NEW c \in Claim, NEW valid, NEW old
    PROVE  LET o == Outcomes(Compare(c, valid, old))
           IN  /\ o \subseteq {"match", "outdated", "mismatch", "no_evidence"}
               /\ "match" \in o <=> \E f \in Class : Shares(c, valid, f)
               /\ "mismatch" \in o => \E f \in Class : DiffersOn(c, valid, f)
               /\ (\E f \in Class : DiffersOn(c, valid, f))
                     => "mismatch" \in o \/ "outdated" \in o
               /\ "outdated" \in o => \E f \in Class : Shares(c, old, f) /\ ~Shares(c, valid, f)
<1> DEFINE r == Compare(c, valid, old)
           D == {g \in Class : Facts[c][g] # {}}
<1>1. DOMAIN r = D
  BY DEF Compare
<1>2. \A f \in D : r[f] = IF Shares(c, valid, f) THEN "match"
                          ELSE IF Shares(c, old, f) THEN "outdated"
                          ELSE IF ValuesOf(valid, f) # {} THEN "mismatch" ELSE "no_evidence"
  BY DEF Compare, Shares
<1>3. \A f \in Class : \A S : Shares(c, S, f) => f \in D
  BY DEF Shares
<1>4. \A x : x \in Outcomes(r) <=> \E f \in D : x = r[f]
  BY <1>1 DEF Outcomes
<1> HIDE DEF r, D
<1>5. \A f \in D : f \in Class /\ Facts[c][f] # {}
  BY DEF D
<1>6. Outcomes(r) \subseteq {"match", "outdated", "mismatch", "no_evidence"}
  BY <1>2, <1>4
<1>7. "match" \in Outcomes(r) <=> \E f \in Class : Shares(c, valid, f)
  BY <1>2, <1>3, <1>4, <1>5
<1>8. "mismatch" \in Outcomes(r) => \E f \in Class : DiffersOn(c, valid, f)
  BY <1>2, <1>4, <1>5 DEF DiffersOn
<1>9. (\E f \in Class : DiffersOn(c, valid, f))
         => "mismatch" \in Outcomes(r) \/ "outdated" \in Outcomes(r)
  BY <1>2, <1>4 DEF D, DiffersOn
<1>10. "outdated" \in Outcomes(r) => \E f \in Class : Shares(c, old, f) /\ ~Shares(c, valid, f)
  BY <1>2, <1>4, <1>5
<1> QED
  BY <1>6, <1>7, <1>8, <1>9, <1>10 DEF r

\* What each verdict takes for granted.
LEMMA Decided ==
    ASSUME NEW results, NEW valid, NEW excluded, NEW conflict \in BOOLEAN,
           Outcomes(results) \subseteq {"match", "outdated", "mismatch", "no_evidence"}
    PROVE  LET o == Outcomes(results)
               s == StatusFor(results, valid, excluded, conflict)
           IN  /\ s \in Status
               /\ s \in {"COMPLIANT", "AMBIGUOUS"} =>
                    "match" \in o /\ "mismatch" \notin o /\ "outdated" \notin o
               /\ s = "NON_COMPLIANT" =>
                    "mismatch" \in o /\ "match" \notin o /\ "outdated" \notin o
               /\ s = "PARTIALLY_COMPLIANT" => "match" \in o /\ "mismatch" \in o
               /\ s = "AMBIGUOUS" => conflict
               /\ s = "OUTDATED_REFERENCE" => "outdated" \in o
<1> DEFINE o == Outcomes(results)
           s == StatusFor(results, valid, excluded, conflict)
<1> HIDE DEF o
<1> QED
  BY DEF StatusFor, Status, o


\* A claim is judged by what counts and what does not in its package.
LEMMA JudgeStep == ASSUME ReviewIInv, Judge PROVE ReviewIInv'
<1> USE DEF ReviewIInv
<1>1. PICK c : c = run.claim
  OBVIOUS
<1> DEFINE shown == run.valid \cap Relevant[c]
           old == {v \in run.excluded \cap Relevant[c] : HasRow(v)}
           inScope(S) == \E pair \in run.conflicts : pair \subseteq {ProvOf(v) : v \in S}
           status(S, T) == StatusFor(Compare(c, S, T), S, T, inScope(S))
           judged(S, T) == [status |-> status(S, T), valid |-> S, excluded |-> T]
           after(S, T) == [run EXCEPT
                             !.phase = "assessing", !.claim = None, !.valid = {},
                             !.excluded = {}, !.conflicts = {},
                             !.opened = @ \/ S # LegalOnly(shown)]
<1>2. run.phase = "explained" /\ law' = law /\ indexed' = indexed
  BY DEF Judge
<1>3. PICK valid \in {LegalOnly(shown), shown} : \E read \in SUBSET old :
        /\ verdict' = [verdict EXCEPT ![c] = judged(valid, read)]
        /\ run' = after(valid, read)
  BY <1>1 DEF Judge
<1>4. PICK read \in SUBSET old :
        /\ verdict' = [verdict EXCEPT ![c] = judged(valid, read)]
        /\ run' = after(valid, read)
  BY <1>3
<1>5. /\ valid \subseteq run.valid /\ read \subseteq run.excluded
      /\ valid \subseteq VersionId /\ read \subseteq VersionId
  BY <1>3 DEF LegalOnly, ReviewTypeOK, Run
<1>6. /\ run'.phase = "assessing" /\ run'.valid = {} /\ run'.excluded = {}
      /\ run'.conflicts = {} /\ run'.snapshot = run.snapshot /\ run'.steady = run.steady
      /\ run'.opened = (run.opened \/ valid # LegalOnly(shown))
      /\ run'.cut = run.cut /\ run' \in Run
  <2> HIDE DEF shown, old
  <2> QED
    BY <1>4 DEF ReviewTypeOK, Run
<1>7. CASE c \in Claim
  <2> DEFINE o == Outcomes(Compare(c, valid, read))
  <2>1. /\ o \subseteq {"match", "outdated", "mismatch", "no_evidence"}
        /\ "match" \in o <=> \E f \in Class : Shares(c, valid, f)
        /\ "mismatch" \in o => \E f \in Class : DiffersOn(c, valid, f)
        /\ (\E f \in Class : DiffersOn(c, valid, f))
              => "mismatch" \in o \/ "outdated" \in o
        /\ "outdated" \in o => \E f \in Class : Shares(c, read, f) /\ ~Shares(c, valid, f)
    BY <1>7, Compared
  <2> DEFINE s == status(valid, read)
  <2>2. /\ s \in Status
        /\ s \in {"COMPLIANT", "AMBIGUOUS"} =>
             "match" \in o /\ "mismatch" \notin o /\ "outdated" \notin o
        /\ s = "NON_COMPLIANT" => "mismatch" \in o /\ "match" \notin o /\ "outdated" \notin o
        /\ s = "PARTIALLY_COMPLIANT" => "match" \in o /\ "mismatch" \in o
        /\ s = "AMBIGUOUS" => inScope(valid)
        /\ s = "OUTDATED_REFERENCE" => "outdated" \in o
    <3>1. inScope(valid) \in BOOLEAN
      OBVIOUS
    <3> HIDE DEF inScope
    <3> QED
      BY <2>1, <3>1, Decided
  <2>3. verdict \in [Claim -> Assessment \cup {None}]
    BY DEF ReviewTypeOK
  <2> HIDE DEF s, o
  <2>4. verdict' = [verdict EXCEPT ![c] = [status |-> s, valid |-> valid, excluded |-> read]]
    BY <1>4 DEF s
  <2>5. /\ verdict'[c] = [status |-> s, valid |-> valid, excluded |-> read]
        /\ \A d \in Claim \ {c} : verdict'[d] = verdict[d]
        /\ verdict' \in [Claim -> Assessment \cup {None}]
    <3>1. [status |-> s, valid |-> valid, excluded |-> read] \in Assessment
      BY <1>5, <2>2 DEF Assessment
    <3> QED
      BY <1>7, <2>3, <2>4, <3>1
  <2>6. /\ verdict'[c].status = s /\ verdict'[c].valid = valid
        /\ verdict'[c].excluded = read
    BY <2>5
  <2>7. Sound(valid)'
    <3>1. Sound(valid)
      BY <1>5 DEF Package, Sound
    <3> QED
      BY <1>2, <1>6, <3>1, Unmoved
  <2>8. ~run'.opened => Legal(valid)'
    <3>1. ~run'.opened => Legal(valid)
      BY <1>5, <1>6 DEF LegalOnly, HasRow, Package, Sound, Legal
    <3> QED
      BY <1>2, <3>1, Unmoved
  <2>9. Readable(c)'
    <3>1. HasMatch(c)' <=> \E f \in Class : Shares(c, valid, f)
      BY <2>6 DEF HasMatch, ValuesOf, Shares
    <3>2. HasMismatch(c)' <=> \E f \in Class : DiffersOn(c, valid, f)
      BY <2>6 DEF HasMismatch, ValuesOf, Shares, DiffersOn
    <3>3. ASSUME s = "AMBIGUOUS"
          PROVE  \E v, w \in valid : /\ ProvOf(v)' # ProvOf(w)'
                                     /\ CF!RuleConflict(Obligation[v], Obligation[w])
      <4>1. PICK pair \in run.conflicts : pair \subseteq {ProvOf(v) : v \in valid}
        BY <2>2, <3>3
      <4>2. PICK v, w \in run.valid :
              /\ pair = {ProvOf(v), ProvOf(w)} /\ ProvOf(v) # ProvOf(w)
              /\ CF!RuleConflict(Obligation[v], Obligation[w])
        BY DEF Package
      \* The evidence has one version of a provision, so these two are in it.
      <4>3. v \in valid /\ w \in valid
        BY <1>5, <4>1, <4>2 DEF Package
      <4> QED
        BY <1>2, <4>2, <4>3, Unmoved
    <3> QED
      BY <2>1, <2>2, <2>6, <3>1, <3>2, <3>3 DEF Readable
  <2>10. ASSUME run'.steady PROVE Dated(c)'
    <3> SUFFICES ASSUME s = "OUTDATED_REFERENCE"
                 PROVE  \E v \in OldSources(c)' : PassedOver(v)'
      BY <2>6 DEF Dated
    <3>1. PICK f \in Class : Shares(c, read, f) /\ ~Shares(c, valid, f)
      BY <2>1, <2>2
    <3>2. PICK v \in read : Facts[c][f] \cap Facts[v][f] # {}
      BY <3>1 DEF ValuesOf, Shares
    <3>3. v \in OldSources(c)'
      BY <2>6, <3>1, <3>2 DEF OldSources, ValuesOf, Shares
    <3>4. PassedOver(v)
      BY <1>5, <1>6, <2>10 DEF Package
    <3>5. PassedOver(v)'
      BY <1>2, <3>4, Unmoved
    <3> QED
      BY <3>3, <3>5
  <2>11. Verdicts'
    <3> SUFFICES ASSUME NEW d \in Assessed'
                 PROVE  /\ Sound(verdict[d].valid)'
                        /\ ~run'.opened => Legal(verdict[d].valid)'
                        /\ d \notin run'.cut /\ Readable(d)'
                        /\ run'.steady => Dated(d)'
      BY <1>6 DEF Verdicts, Locked
    <3>1. CASE d = c
      <4>1. d \notin run'.cut
        BY <1>2, <1>6 DEF Snapshot, Locked
      <4> QED
        BY <2>6, <2>7, <2>8, <2>9, <2>10, <3>1, <4>1
    <3>2. CASE d # c
      <4>1. d \in Assessed /\ verdict'[d] = verdict[d]
        BY <2>5, <3>2 DEF Assessed
      <4> QED
        BY <1>2, <1>6, <4>1, VerdictStands DEF Locked
    <3> QED
      BY <3>1, <3>2
  <2>12. ReviewTypeOK' /\ TypeOK' /\ Agreed'
    BY <1>2, <1>6, <2>5, Unmoved DEF ReviewTypeOK
  <2>13. Package'
    BY <1>6 DEF Package, Sound
  <2>14. Snapshot'
    BY <1>2, <1>6, Unmoved DEF Snapshot, Locked
  <2> QED
    BY <2>11, <2>12, <2>13, <2>14
<1>8. CASE c \notin Claim
  <2>1. verdict' = verdict
    <3> HIDE DEF judged
    <3> QED
      BY <1>4, <1>8 DEF ReviewTypeOK
  <2>2. ReviewTypeOK' /\ TypeOK' /\ Agreed'
    BY <1>2, <1>6, <2>1, Unmoved DEF ReviewTypeOK
  <2>3. Package'
    BY <1>6 DEF Package, Sound
  <2>4. Snapshot'
    BY <1>2, <1>6, Unmoved DEF Snapshot, Locked
  <2>5. Verdicts'
    BY <1>2, <1>6, <2>1, VerdictsStand DEF Locked
  <2> QED
    BY <2>2, <2>3, <2>4, <2>5
<1> QED
  BY <1>7, <1>8

\* The allowlist drops evidence only if something was published since the snapshot, or
\* was let through without being law.
LEMMA LockStep == ASSUME ReviewIInv, Lock PROVE ReviewIInv'
<1> USE DEF ReviewIInv
<1> DEFINE dropped == {c \in Assessed : Allowed(verdict[c].valid) # verdict[c].valid}
           phase == IF Assessed = {} THEN "INSUFFICIENT_EVIDENCE" ELSE "READY"
<1>1. /\ run.phase = "assessing" /\ law' = law /\ indexed' = indexed
      /\ run' = [run EXCEPT !.phase = phase, !.cut = dropped]
      /\ verdict' = [c \in Claim |-> IF verdict[c] = None THEN None
                                     ELSE [verdict[c] EXCEPT !.valid = Allowed(@)]]
  BY DEF Lock
<1>2. /\ run'.valid = run.valid /\ run'.excluded = run.excluded
      /\ run'.conflicts = run.conflicts /\ run'.snapshot = run.snapshot
      /\ run'.steady = run.steady /\ run'.opened = run.opened /\ run' \in Run
      /\ run'.phase = phase /\ run'.cut = dropped
  <2>1. phase \in {"INSUFFICIENT_EVIDENCE", "READY"} /\ dropped \subseteq Claim
    BY DEF Assessed
  <2> HIDE DEF phase, dropped
  <2> QED
    BY <1>1, <2>1 DEF ReviewTypeOK, Run
<1>3. ASSUME NEW c \in Assessed
      PROVE  /\ verdict[c] \in Assessment
             /\ verdict'[c] \in Assessment
             /\ verdict'[c].status = verdict[c].status
             /\ verdict'[c].excluded = verdict[c].excluded
             /\ verdict'[c].valid = Allowed(verdict[c].valid)
             /\ verdict'[c].valid \subseteq verdict[c].valid
  <2>1. /\ verdict[c] \in Assessment
        /\ verdict'[c] = [verdict[c] EXCEPT !.valid = Allowed(@)]
    BY <1>1 DEF ReviewTypeOK, Assessed
  <2>2. Allowed(verdict[c].valid) \subseteq verdict[c].valid
    BY DEF Allowed
  <2> QED
    BY <2>1, <2>2 DEF Assessment
<1>4. \A c \in Claim \ Assessed : verdict'[c] = None
  BY <1>1 DEF Assessed
<1>5. TypeOK' /\ ReviewTypeOK' /\ Agreed'
  <2>1. verdict' \in [Claim -> Assessment \cup {None}]
    <3>1. \A c \in Claim : verdict'[c] \in Assessment \cup {None}
      BY <1>3, <1>4
    <3> QED
      BY <1>1, <3>1
  <2> QED
    BY <1>1, <1>2, <2>1, Unmoved DEF ReviewTypeOK
<1>6. Package'
  BY <1>1, <1>2, Unmoved DEF Package
<1>7. Snapshot'
  BY <1>1, <1>2, Unmoved DEF Snapshot, Locked
<1>8. Verdicts'
  <2> SUFFICES ASSUME NEW c \in Assessed
               PROVE  /\ Sound(verdict[c].valid)'
                      /\ ~run.opened => Legal(verdict[c].valid)'
                      /\ run.snapshot # {} => verdict'[c].valid \subseteq run.snapshot
                      /\ IF c \in dropped THEN ~run.steady \/ run.opened ELSE Readable(c)'
                      /\ run.steady => Dated(c)'
    BY <1>2, <1>4 DEF Verdicts, Assessed
  <2>1. /\ Sound(verdict[c].valid) /\ Readable(c)
        /\ ~run.opened => Legal(verdict[c].valid)
        /\ run.steady => Dated(c)
    BY <1>1 DEF Verdicts, Snapshot, Locked
  <2>2. Sound(verdict[c].valid)'
    <3>1. Sound(verdict'[c].valid)
      BY <1>3, <2>1 DEF Sound
    <3> QED
      BY <1>1, <1>2, <3>1, Unmoved
  <2>3. ~run.opened => Legal(verdict[c].valid)'
    <3>1. ~run.opened => Legal(verdict'[c].valid)
      BY <1>3, <2>1 DEF Legal
    <3> QED
      BY <1>1, <3>1, Unmoved
  <2>4. run.snapshot # {} => verdict'[c].valid \subseteq run.snapshot
    BY <1>3 DEF Allowed
  <2>5. ASSUME c \in dropped, run.steady, ~run.opened PROVE FALSE
    <3>1. verdict[c].valid \subseteq InLaw
      BY <1>3, <2>1, <2>5 DEF Legal, InLaw, Assessment
    <3> QED
      BY <2>5, <3>1 DEF Allowed, Snapshot
  <2>6. ASSUME c \notin dropped PROVE Readable(c)'
    <3>1. verdict'[c].valid = verdict[c].valid
      BY <1>3, <2>6
    <3> QED
      BY <1>1, <1>3, <2>1, <3>1, Unmoved DEF Readable, HasMatch, HasMismatch, ValuesOf
  <2>7. ASSUME run.steady PROVE Dated(c)'
    <3>1. \A f : ValuesOf(verdict'[c].valid, f) \subseteq ValuesOf(verdict[c].valid, f)
      BY <1>3 DEF ValuesOf
    <3>2. OldSources(c) \subseteq OldSources(c)'
      BY <1>3, <3>1 DEF OldSources, ValuesOf
    <3> QED
      BY <1>1, <1>3, <2>1, <2>7, <3>2, Unmoved DEF Dated
  <2> QED
    BY <2>2, <2>3, <2>4, <2>5, <2>6, <2>7
<1> QED
  BY <1>5, <1>6, <1>7, <1>8

\* A run that fails keeps no verdict.
LEMMA FailStep == ASSUME ReviewIInv, Fail PROVE ReviewIInv'
<1> USE DEF ReviewIInv
<1>1. /\ run'.phase = "FAILED" /\ run'.valid = {} /\ run'.excluded = {}
      /\ run'.conflicts = {} /\ run'.snapshot = run.snapshot /\ run'.steady = run.steady
      /\ run'.cut = run.cut /\ ~Locked
      /\ law' = law /\ indexed' = indexed /\ verdict' = [c \in Claim |-> None]
      /\ run' \in Run
  BY DEF Fail, ReviewTypeOK, Run, Locked
<1>2. TypeOK' /\ ReviewTypeOK' /\ Agreed'
  BY <1>1, Unmoved DEF ReviewTypeOK
<1>3. Package'
  BY <1>1 DEF Package, Sound
<1>4. Snapshot'
  BY <1>1, Unmoved DEF Snapshot, Locked
<1>5. Verdicts'
  BY <1>1 DEF Verdicts, Assessed
<1> QED
  BY <1>2, <1>3, <1>4, <1>5

\* Nothing happens.
LEMMA ReviewStutter == ASSUME ReviewIInv, UNCHANGED reviewVars PROVE ReviewIInv'
<1> USE DEF ReviewIInv
<1>1. law' = law /\ indexed' = indexed /\ run' = run /\ verdict' = verdict
  BY DEF reviewVars
<1>2. TypeOK' /\ ReviewTypeOK' /\ Agreed'
  BY <1>1, Unmoved DEF ReviewTypeOK
<1>3. Package'
  BY <1>1, Unmoved DEF Package
<1>4. Snapshot'
  BY <1>1, Unmoved DEF Snapshot, Locked, Assessed
<1>5. Verdicts'
  <2>1. \A c : /\ Sound(verdict[c].valid) => Sound(verdict[c].valid)'
               /\ Legal(verdict[c].valid) => Legal(verdict[c].valid)'
    BY <1>1, Unmoved
  <2>2. \A c : Readable(c) => Readable(c)'
    BY <1>1, Unmoved DEF Readable, HasMatch, HasMismatch, ValuesOf
  <2>3. \A c : Dated(c) => Dated(c)'
    BY <1>1, Unmoved DEF Dated, OldSources, ValuesOf
  <2> QED
    BY <1>1, <2>1, <2>2, <2>3 DEF Verdicts, Assessed, Locked
<1> QED
  BY <1>2, <1>3, <1>4, <1>5

\* The invariant of a review, whatever the law does meanwhile and whatever fails.
LEMMA ReviewInvariance == ReviewSpec => []ReviewIInv
<1>1. ReviewInit => ReviewIInv
  <2> SUFFICES ASSUME ReviewInit PROVE ReviewIInv
    OBVIOUS
  <2>1. TypeOK
    BY DEF ReviewInit, Init, TypeOK
  <2>2. ReviewTypeOK
    BY DEF ReviewInit, ReviewTypeOK, Run
  <2>3. Package
    BY DEF ReviewInit, Package, Sound
  <2>4. Snapshot /\ Agreed
    BY DEF ReviewInit, Init, Snapshot, Assessed, Agreed, Published
  <2>5. Verdicts
    BY DEF ReviewInit, Verdicts, Assessed
  <2> QED
    BY <2>1, <2>2, <2>3, <2>4, <2>5 DEF ReviewIInv
<1>2. ReviewIInv /\ [ReviewNext]_reviewVars => ReviewIInv'
  <2> SUFFICES ASSUME ReviewIInv, [ReviewNext]_reviewVars PROVE ReviewIInv'
    OBVIOUS
  <2>1. CASE LawChanges
    BY <2>1, LawMovesUnder
  <2>2. CASE Freeze
    BY <2>2, FreezeStep
  <2>3. CASE Extract
    BY <2>3, ExtractStep
  <2>4. ASSUME NEW c \in Claim, Retrieve(c) PROVE ReviewIInv'
    BY <2>4, RetrieveStep
  <2>5. CASE Explain
    BY <2>5, ExplainStep
  <2>6. CASE Judge
    BY <2>6, JudgeStep
  <2>7. CASE Lock
    BY <2>7, LockStep
  <2>8. CASE Fail
    BY <2>8, FailStep
  <2>9. CASE UNCHANGED reviewVars
    BY <2>9, ReviewStutter
  <2>10. ASSUME NEW n \in NewId, NEW p \in Provision, NEW d \in Date,
                IndexAmendment(n, p, d)
         PROVE  ReviewIInv'
    BY <2>10, IndexStep
  <2> QED
    BY <2>1, <2>2, <2>3, <2>4, <2>5, <2>6, <2>7, <2>8, <2>9, <2>10 DEF ReviewNext
<1> QED
  BY <1>1, <1>2, PTL DEF ReviewSpec

-----------------------------------------------------------------------------
(* Compliance: what a locked report holds                                    *)

\* The evidence of a locked report was in the snapshot and in force, and neither an
\* internal policy nor a version nobody committed passes for law as long as the legal
\* check works: for any document, any law and any leftover in the index, and whatever is
\* published while the run reads it in its many transactions.
THEOREM ReportsOnlyLaw == ReviewSpec => []EvidenceSound
<1>1. ReviewIInv => EvidenceSound
  <2> SUFFICES ASSUME ReviewIInv, Locked, NEW c \in Assessed, NEW v \in verdict[c].valid
               PROVE  /\ run.snapshot # {} => v \in run.snapshot
                      /\ FromOf(v) <= ReviewDate
                      /\ run.snapshot # {} \/ ~run.opened =>
                            Published(v) /\ (run.steady => InForce(v, ReviewDate))
                      /\ ~run.opened => ProvOf(v) \notin Internal
    BY DEF EvidenceSound
  <2>1. run.snapshot # {} => v \in run.snapshot
    BY DEF ReviewIInv, Verdicts
  <2>2. ~run.opened => Published(v) /\ ProvOf(v) \notin Internal
    BY DEF ReviewIInv, Verdicts, Legal
  <2>3. run.snapshot # {} => Published(v)
    BY <2>1 DEF ReviewIInv, Snapshot, InLaw
  <2>4. /\ FromOf(v) <= ReviewDate
        /\ run.steady /\ Published(v) => InForce(v, ReviewDate)
    BY DEF ReviewIInv, Verdicts, Sound
  <2> QED
    BY <2>1, <2>2, <2>3, <2>4
<1> QED
  BY <1>1, ReviewInvariance, PTL

\* A verdict that finds the claim right, wrong, partly right or ambiguous can be read off
\* the evidence locked with it, or the allowlist dropped evidence of it, which takes
\* something published during the run or a legal check that failed.
THEOREM VerdictsCanBeRead == ReviewSpec => []VerdictBacked
<1>1. ReviewIInv => VerdictBacked
  BY DEF ReviewIInv, Verdicts, VerdictBacked
<1> QED
  BY <1>1, ReviewInvariance, PTL

\* A claim is called outdated only for a value of a version that does not count on the
\* review date, whatever retrieval found and whatever failed to be read.
THEOREM OutdatedByTheLaw == ReviewSpec => []OutdatedNotCurrent
<1>1. ReviewIInv => OutdatedNotCurrent
  BY DEF ReviewIInv, Verdicts, Dated, OutdatedNotCurrent
<1> QED
  BY <1>1, ReviewInvariance, PTL
=============================================================================
