-------------------------- MODULE Timeline_proofs ---------------------------
(***************************************************************************)
(* Proofs about Timeline: its types, the absence of gaps, and, for the     *)
(* provisions whose amendments were orderly, a single version in force on  *)
(* any day.                                                                *)
(***************************************************************************)
EXTENDS Timeline, TLAPS

\* Every row that an action writes is a row.
LEMMA TypeStep == TypeOK /\ [Next]_law => TypeOK'
<1> SUFFICES ASSUME TypeOK, [Next]_law PROVE TypeOK'
  OBVIOUS
<1> USE DEF TypeOK, Row, Published
<1>1. CASE UNCHANGED law
  BY <1>1
<1>2. ASSUME NEW S \in SUBSET Provision, Enact(S) PROVE TypeOK'
  <2>1. \A v \in S : FirstRow(v) \in Row
    BY IdsAssumption DEF FirstRow, VersionId
  <2> QED
    BY <1>2, <2>1 DEF Enact
<1>3. ASSUME NEW old \in VersionId, NEW new \in NewId, NEW d \in Date,
             Amend(old, new, d) \/ AmendAgain(old, new, d)
      PROVE TypeOK'
  <2>1. law[old] \in Row /\ new \in VersionId
    BY <1>3 DEF Amend, AmendAgain, VersionId
  <2>2. Successor(old, d) \in Row
    BY <2>1 DEF Successor
  <2>3. [law[old] EXCEPT !.to = d] \in Row
    BY <2>1
  <2> QED
    BY <1>3, <2>1, <2>2, <2>3 DEF Amend, AmendAgain
<1> QED
  BY <1>1, <1>2, <1>3 DEF Next

\* The versions keep a well formed window through all enactments and amendments.
THEOREM TypeCorrect == Spec => []TypeOK
<1>1. Init => TypeOK
  BY IdsAssumption DEF Init, TypeOK
<1> QED
  BY <1>1, TypeStep, PTL DEF Spec

-----------------------------------------------------------------------------
(* No gaps *)

\* Days and their order.
LEMMA Days == Open \in Nat /\ \A d \in Date : d \in Nat /\ d < Open
  BY DatesAssumption

\* What the rows of an amendment are after it.
LEMMA AmendRows ==
    ASSUME TypeOK, NEW old \in VersionId, NEW new \in NewId, NEW d \in Date,
           Amend(old, new, d) \/ AmendAgain(old, new, d)
    PROVE  /\ new \in VersionId /\ new # old /\ ~Published(new) /\ Published(old)
           /\ law'[new].prov = law[old].prov /\ law'[new].from = d
           /\ law'[new].to = Open /\ law'[new].pred = old /\ Published(new)'
           /\ law[old] \in Row /\ law'[old] \in Row /\ Published(old)'
           /\ law'[old].prov = law[old].prov /\ law'[old].from = law[old].from
           /\ law'[old].pred = law[old].pred
           /\ \/ Amend(old, new, d) /\ law'[old].to = d
              \/ law[old].to # Open /\ law'[old] = law[old]
           /\ \A w \in VersionId \ {old, new} : law'[w] = law[w]
<1>1. new \in VersionId /\ new # old /\ ~Published(new) /\ Published(old)
  BY DEF Amend, AmendAgain, VersionId, Published
<1>2. law[old] \in Row
  BY <1>1 DEF TypeOK, Published
<1>3. Successor(old, d) \in Row
  BY <1>2 DEF Successor, Row
<1>4. law'[new] = Successor(old, d) /\ Published(new)'
  BY <1>1, <1>3, IdsAssumption DEF Amend, AmendAgain, TypeOK, Published
<1>5. /\ law'[new].prov = law[old].prov /\ law'[new].from = d
      /\ law'[new].to = Open /\ law'[new].pred = old
  BY <1>4 DEF Successor
<1>6. \/ law'[old] = [law[old] EXCEPT !.to = d] /\ Amend(old, new, d)
      \/ law[old].to # Open /\ law'[old] = law[old]
  BY <1>1 DEF Amend, AmendAgain, TypeOK
<1>7. [law[old] EXCEPT !.to = d] \in Row
  BY <1>2 DEF Row
<1>8. /\ law'[old] \in Row /\ Published(old)'
      /\ law'[old].prov = law[old].prov /\ law'[old].from = law[old].from
      /\ law'[old].pred = law[old].pred
  BY <1>2, <1>6, <1>7, IdsAssumption DEF Row, Published
<1>9. \/ Amend(old, new, d) /\ law'[old].to = d
      \/ law[old].to # Open /\ law'[old] = law[old]
  BY <1>2, <1>6 DEF Row
<1>10. \A w \in VersionId \ {old, new} : law'[w] = law[w]
  BY DEF Amend, AmendAgain, TypeOK
<1> QED
  BY <1>1, <1>2, <1>4, <1>5, <1>8, <1>9, <1>10

\* From the first day of a version on, some version of its provision is in force.
LEMMA NoGapStep == TypeOK /\ NoGap /\ [Next]_law => NoGap'
<1> SUFFICES ASSUME TypeOK, NoGap, [Next]_law PROVE NoGap'
  OBVIOUS
<1>1. CASE UNCHANGED law
  BY <1>1 DEF NoGap, InForceAt, InForce, Versions, Published
<1>2. ASSUME NEW S \in SUBSET Provision, Enact(S) PROVE NoGap'
  <2> SUFFICES ASSUME NEW v \in VersionId, NEW t \in Date,
                      Published(v)', law'[v].from <= t
               PROVE  \E w \in VersionId : /\ Published(w)'
                                           /\ law'[w].prov = law'[v].prov
                                           /\ law'[w].from <= t
                                           /\ t < law'[w].to
    BY DEF NoGap, InForceAt, InForce, Versions
  <2>1. CASE Published(v)
    <3>1. law'[v] = law[v]
      BY <1>2, <2>1 DEF Enact
    <3>2. PICK w \in VersionId : /\ Published(w) /\ law[w].prov = law[v].prov
                                 /\ law[w].from <= t /\ t < law[w].to
      BY <2>1, <3>1 DEF NoGap, InForceAt, InForce, Versions
    <3>3. law'[w] = law[w]
      BY <1>2, <3>2 DEF Enact
    <3> QED
      BY <3>1, <3>2, <3>3 DEF Published
  <2>2. CASE ~Published(v)
    <3>1. law'[v] = FirstRow(v)
      BY <1>2, <2>2 DEF Enact, Published
    <3>2. t < law'[v].to
      BY <3>1, Days DEF FirstRow
    <3> QED
      BY <3>2
  <2> QED
    BY <2>1, <2>2
<1>3. ASSUME NEW old \in VersionId, NEW new \in NewId, NEW d \in Date,
             Amend(old, new, d) \/ AmendAgain(old, new, d)
      PROVE NoGap'
  <2> DEFINE p == law[old].prov
  <2>1. /\ new \in VersionId /\ new # old
        /\ Published(new)' /\ law'[new].prov = p
        /\ law'[new].from = d /\ law'[new].to = Open
    BY <1>3, AmendRows
  <2>2. /\ law'[old].from = law[old].from /\ law'[old].prov = p
        /\ law'[old].to = d \/ law'[old] = law[old]
        /\ Published(old) /\ Published(old)'
    BY <1>3, AmendRows
  <2>3. \A w \in VersionId \ {old, new} : law'[w] = law[w]
    BY <1>3, AmendRows
  <2> SUFFICES ASSUME NEW v \in VersionId, NEW t \in Date,
                      Published(v)', law'[v].from <= t
               PROVE  \E w \in VersionId : /\ Published(w)'
                                           /\ law'[w].prov = law'[v].prov
                                           /\ law'[w].from <= t
                                           /\ t < law'[w].to
    BY DEF NoGap, InForceAt, InForce, Versions
  <2>4. CASE law'[v].prov = p /\ d <= t
    BY <2>1, <2>4, Days
  <2>5. CASE law'[v].prov = p /\ ~(d <= t)
    <3>1. v # new
      BY <2>1, <2>5
    <3>2. Published(v) /\ law[v].from <= t /\ law[v].prov = p
      BY <3>1, <2>2, <2>3, <2>5 DEF Published
    <3>3. PICK w \in VersionId : /\ Published(w) /\ law[w].prov = p
                                 /\ law[w].from <= t /\ t < law[w].to
      BY <3>2 DEF NoGap, InForceAt, InForce, Versions
    <3>4. w # new
      BY <1>3, <3>3 DEF Amend, AmendAgain
    <3>5. CASE w = old
      <4>1. t < law'[old].to
        BY <2>2, <2>5, <3>3, <3>5, Days
      <4> QED
        BY <2>2, <2>5, <3>3, <3>5, <4>1
    <3>6. CASE w # old
      BY <2>3, <2>5, <3>3, <3>4, <3>6 DEF Published
    <3> QED
      BY <3>5, <3>6
  <2>6. CASE law'[v].prov # p
    <3>1. v \notin {old, new} /\ law'[v] = law[v]
      BY <2>1, <2>2, <2>3, <2>6
    <3>2. PICK w \in VersionId : /\ Published(w) /\ law[w].prov = law[v].prov
                                 /\ law[w].from <= t /\ t < law[w].to
      BY <3>1 DEF NoGap, InForceAt, InForce, Versions, Published
    <3>3. w \notin {old, new}
      BY <1>3, <2>6, <3>1, <3>2 DEF Amend, AmendAgain
    <3> QED
      BY <2>3, <3>1, <3>2, <3>3 DEF Published
  <2> QED
    BY <2>4, <2>5, <2>6
<1> QED
  BY <1>1, <1>2, <1>3 DEF Next

\* Whatever amendments are approved, in whatever order and with whatever dates,
\* the law of a provision has no hole after its first day.
THEOREM NoGaps == Spec => []NoGap
<1>1. Init => NoGap
  BY DEF Init, NoGap, Published
<1> QED
  BY <1>1, TypeCorrect, NoGapStep, PTL DEF Spec

-----------------------------------------------------------------------------
(* One version in force *)

\* Every version descends from the published first version of its provision,
\* and a version is closed only by a successor.
Lineage ==
    \A v \in VersionId : Published(v) =>
        /\ Published(law[v].prov)
        /\ law[v].pred # None => Published(law[v].pred)
        /\ law[v].to # Open =>
             \E w \in Versions(law[v].prov) : law[w].pred = v

\* The windows of two versions of an orderly provision do not meet.
Apart ==
    \A p \in Provision : Orderly(p) =>
        \A v, w \in Versions(p) :
            v # w => law[v].to <= law[w].from \/ law[w].to <= law[v].from

IInv == TypeOK /\ Lineage /\ Apart

\* An amendment that leaves its provision orderly found it orderly, supersedes
\* the open version and starts no earlier than it.
LEMMA AmendOrderly ==
    ASSUME TypeOK, Lineage, NEW old \in VersionId, NEW new \in NewId,
           NEW d \in Date, Amend(old, new, d) \/ AmendAgain(old, new, d),
           NEW p \in Provision, law[old].prov = p, Orderly(p)'
    PROVE  /\ law[old].to = Open /\ law[old].from <= d
           /\ law'[old].to = d
<1>1. /\ new \in Versions(p)' /\ law'[new].pred = old /\ law'[new].from = d
      /\ old # None
  BY AmendRows, IdsAssumption DEF Versions
<1>2. /\ law'[old].from <= d
      /\ \A w \in Versions(p)' : law'[w].pred = old => w = new
  BY <1>1 DEF Orderly
<1>3. ASSUME law[old].to # Open PROVE FALSE
  <2>1. PICK w \in Versions(p) : law[w].pred = old
    BY <1>3, AmendRows DEF Lineage
  <2>2. w \in VersionId /\ w # new
    BY <2>1, AmendRows DEF Versions
  <2>3. law'[w].pred = old /\ w \in Versions(p)'
    BY <2>1, <2>2, AmendRows DEF Versions, Published
  <2> QED
    BY <1>2, <2>2, <2>3
<1> QED
  BY <1>2, <1>3, AmendRows

\* What was orderly after a step was orderly before it.
LEMMA OrderlyBefore ==
    ASSUME TypeOK, Lineage, Next, NEW p \in Provision, Orderly(p)'
    PROVE  Orderly(p)
<1>1. \A v \in VersionId : Published(v) =>
        /\ Published(v)' /\ law'[v].prov = law[v].prov
        /\ law'[v].from = law[v].from /\ law'[v].pred = law[v].pred
  <2> SUFFICES ASSUME NEW v \in VersionId, Published(v)
               PROVE  /\ Published(v)' /\ law'[v].prov = law[v].prov
                      /\ law'[v].from = law[v].from /\ law'[v].pred = law[v].pred
    OBVIOUS
  <2>1. ASSUME NEW S \in SUBSET Provision, Enact(S)
        PROVE  law'[v] = law[v] /\ Published(v)'
    BY <2>1 DEF Enact, Published
  <2>2. ASSUME NEW old \in VersionId, NEW new \in NewId, NEW d \in Date,
               Amend(old, new, d) \/ AmendAgain(old, new, d)
        PROVE  /\ Published(v)' /\ law'[v].prov = law[v].prov
               /\ law'[v].from = law[v].from /\ law'[v].pred = law[v].pred
    BY <2>2, AmendRows DEF Published
  <2> QED
    BY <2>1, <2>2 DEF Next
<1> SUFFICES ASSUME NEW v \in Versions(p), law[v].pred # None
             PROVE  /\ law[v].pred \in Versions(p)
                    /\ law[law[v].pred].from <= law[v].from
                    /\ \A w \in Versions(p) : law[w].pred = law[v].pred => w = v
  BY DEF Orderly
<1>2. Versions(p) \subseteq Versions(p)'
  BY <1>1 DEF Versions
<1>3. v \in VersionId /\ law[v].pred \in VersionId /\ Published(law[v].pred)
  BY DEF Versions, Lineage, Published, TypeOK, Row
<1> QED
  BY <1>1, <1>2, <1>3 DEF Orderly, Versions

\* Every step keeps the lineage of the versions.
LEMMA LineageStep == TypeOK /\ Lineage /\ [Next]_law => Lineage'
<1> SUFFICES ASSUME TypeOK, Lineage, [Next]_law PROVE Lineage'
  OBVIOUS
<1>1. CASE UNCHANGED law
  BY <1>1 DEF Lineage, Versions, Published
<1>2. ASSUME NEW S \in SUBSET Provision, Enact(S) PROVE Lineage'
  <2>1. \A v \in VersionId : Published(v) => law'[v] = law[v] /\ Published(v)'
    BY <1>2 DEF Enact, Published
  <2> SUFFICES ASSUME NEW v \in VersionId, Published(v)'
               PROVE  /\ law'[law'[v].prov] # None
                      /\ law'[v].pred # None => law'[law'[v].pred] # None
                      /\ law'[v].to # Open =>
                           \E w \in VersionId : /\ law'[w] # None
                                                /\ law'[w].prov = law'[v].prov
                                                /\ law'[w].pred = v
    BY DEF Lineage, Versions, Published
  <2>2. CASE Published(v)
    <3>1. /\ law[v].prov \in VersionId
          /\ law[v].pred # None => law[v].pred \in VersionId
      BY <2>2 DEF TypeOK, Row, Published, VersionId
    <3>2. law'[v] = law[v]
      BY <2>1, <2>2
    <3>3. law'[law'[v].prov] # None
      BY <2>1, <2>2, <3>1, <3>2 DEF Lineage, Published
    <3>4. law'[v].pred # None => law'[law'[v].pred] # None
      BY <2>1, <2>2, <3>1, <3>2 DEF Lineage, Published
    <3>5. ASSUME law'[v].to # Open
          PROVE  \E w \in VersionId : /\ law'[w] # None
                                      /\ law'[w].prov = law'[v].prov
                                      /\ law'[w].pred = v
      <4>1. PICK w \in Versions(law[v].prov) : law[w].pred = v
        BY <2>2, <3>2, <3>5 DEF Lineage
      <4> QED
        BY <2>1, <3>2, <4>1 DEF Versions, Published
    <3> QED
      BY <3>3, <3>4, <3>5
  <2>3. CASE ~Published(v)
    <3>1. law'[v] = FirstRow(v)
      BY <1>2, <2>3 DEF Enact, Published
    <3> QED
      BY <3>1, IdsAssumption DEF FirstRow, VersionId, Published
  <2> QED
    BY <2>2, <2>3
<1>3. ASSUME NEW old \in VersionId, NEW new \in NewId, NEW d \in Date,
             Amend(old, new, d) \/ AmendAgain(old, new, d)
      PROVE  Lineage'
  <2>1. \A v \in VersionId : Published(v) =>
          /\ Published(v)' /\ law'[v].prov = law[v].prov
          /\ law'[v].pred = law[v].pred
    BY <1>3, AmendRows DEF Published
  <2>2. \A v \in VersionId : Published(v) =>
          /\ law[v].prov \in VersionId
          /\ law[v].pred # None => law[v].pred \in VersionId
    BY DEF TypeOK, Row, Published, VersionId
  <2>3. /\ law'[new] # None /\ law'[new].prov = law[old].prov
        /\ law'[new].pred = old /\ law'[new].to = Open
    BY <1>3, AmendRows DEF Published
  <2> SUFFICES ASSUME NEW v \in VersionId, Published(v)'
               PROVE  /\ law'[law'[v].prov] # None
                      /\ law'[v].pred # None => law'[law'[v].pred] # None
                      /\ law'[v].to # Open =>
                           \E w \in VersionId : /\ law'[w] # None
                                                /\ law'[w].prov = law'[v].prov
                                                /\ law'[w].pred = v
    BY DEF Lineage, Versions, Published
  <2>4. CASE v = new
    BY <1>3, <2>1, <2>2, <2>3, <2>4, AmendRows DEF Lineage, Published
  <2>5. CASE v = old
    <3>1. law'[law'[v].prov] # None
      BY <1>3, <2>1, <2>2, <2>5, AmendRows DEF Lineage, Published
    <3>2. law'[v].pred # None => law'[law'[v].pred] # None
      BY <1>3, <2>1, <2>2, <2>5, AmendRows DEF Lineage, Published
    <3> QED
      BY <1>3, <2>3, <2>5, <3>1, <3>2, AmendRows
  <2>6. CASE v \notin {old, new}
    <3>1. law'[v] = law[v] /\ Published(v)
      BY <1>3, <2>6, AmendRows DEF Published
    <3>2. law'[law'[v].prov] # None
      BY <2>1, <2>2, <3>1 DEF Lineage, Published
    <3>3. law'[v].pred # None => law'[law'[v].pred] # None
      BY <2>1, <2>2, <3>1 DEF Lineage, Published
    <3>4. ASSUME law'[v].to # Open
          PROVE  \E w \in VersionId : /\ law'[w] # None
                                      /\ law'[w].prov = law'[v].prov
                                      /\ law'[w].pred = v
      <4>1. PICK w \in Versions(law[v].prov) : law[w].pred = v
        BY <3>1, <3>4 DEF Lineage
      <4> QED
        BY <2>1, <3>1, <4>1 DEF Versions, Published
    <3> QED
      BY <3>2, <3>3, <3>4
  <2> QED
    BY <2>4, <2>5, <2>6
<1> QED
  BY <1>1, <1>2, <1>3 DEF Next

\* Every step keeps orderly windows apart.
LEMMA ApartStep == IInv /\ [Next]_law => Apart'
<1> SUFFICES ASSUME TypeOK, Lineage, Apart, [Next]_law PROVE Apart'
  BY DEF IInv
<1>1. CASE UNCHANGED law
  BY <1>1 DEF Apart, Orderly, Versions, Published
<1>2. ASSUME NEW S \in SUBSET Provision, Enact(S) PROVE Apart'
  <2> SUFFICES ASSUME NEW p \in Provision, Orderly(p)',
                      NEW v \in Versions(p)', NEW w \in Versions(p)', v # w
               PROVE  law'[v].to <= law'[w].from \/ law'[w].to <= law'[v].from
    BY DEF Apart
  <2>1. Orderly(p)
    BY <1>2, OrderlyBefore DEF Next
  <2>2. v \in VersionId /\ w \in VersionId
    BY DEF Versions
  <2>3. ASSUME NEW x \in Versions(p)', ~Published(x) PROVE x = p /\ Versions(p) = {}
    <3>1. law'[x] = FirstRow(x) /\ x \in VersionId
      BY <1>2, <2>3 DEF Enact, Published, Versions
    <3>2. x = p
      BY <3>1 DEF Versions, FirstRow
    <3> QED
      BY <2>3, <3>2 DEF Lineage, Versions
  <2>4. ASSUME NEW x \in Versions(p)', Published(x)
        PROVE  law'[x] = law[x] /\ x \in Versions(p)
    BY <1>2, <2>4 DEF Enact, Published, Versions
  <2>5. Published(v) /\ Published(w)
    BY <2>3, <2>4
  <2> QED
    BY <2>1, <2>4, <2>5 DEF Apart
<1>3. ASSUME NEW old \in VersionId, NEW new \in NewId, NEW d \in Date,
             Amend(old, new, d) \/ AmendAgain(old, new, d)
      PROVE  Apart'
  <2> SUFFICES ASSUME NEW p \in Provision, Orderly(p)',
                      NEW v \in Versions(p)', NEW w \in Versions(p)', v # w
               PROVE  law'[v].to <= law'[w].from \/ law'[w].to <= law'[v].from
    BY DEF Apart
  <2>1. Orderly(p)
    BY <1>3, OrderlyBefore DEF Next
  <2>2. \A x \in Versions(p)' : x # new =>
          /\ x \in Versions(p) /\ law'[x].from = law[x].from
          /\ x # old => law'[x] = law[x]
    BY <1>3, AmendRows DEF Versions, Published
  <2>3. CASE law[old].prov # p
    <3>1. new \notin Versions(p)' /\ old \notin Versions(p)'
      BY <1>3, <2>3, AmendRows DEF Versions
    <3> QED
      BY <2>1, <2>2, <3>1 DEF Apart
  <2>4. CASE law[old].prov = p
    <3>1. law[old].to = Open /\ law[old].from <= d /\ law'[old].to = d
      BY <1>3, <2>4, AmendOrderly
    <3>2. old \in Versions(p) /\ law[old].from \in Date
      BY <1>3, <2>4, AmendRows DEF Versions, Row
    <3>3. \A x \in Versions(p)' : x \notin {old, new} => law'[x].to <= law[old].from
      <4> SUFFICES ASSUME NEW x \in Versions(p)', x \notin {old, new}
                   PROVE  law[x].to <= law[old].from
        BY <2>2
      <4>1. x \in Versions(p) /\ law[x].from \in Date
        BY <2>2 DEF Versions, TypeOK, Row, Published
      <4>2. law[x].to <= law[old].from \/ law[old].to <= law[x].from
        BY <2>1, <3>2, <4>1 DEF Apart
      <4> QED
        BY <3>1, <4>1, <4>2, Days
    <3>4. \A x \in Versions(p)' : x \notin {old, new} =>
             law'[x].to \in Nat /\ law'[x].to <= d
      <4> SUFFICES ASSUME NEW x \in Versions(p)', x \notin {old, new}
                   PROVE  law'[x].to \in Nat /\ law'[x].to <= d
        OBVIOUS
      <4>1. law'[x].to \in Nat
        BY <2>2, Days DEF Versions, TypeOK, Row, Published
      <4> QED
        BY <3>1, <3>2, <3>3, <4>1, Days
    <3>5. law'[new].from = d /\ law'[old].from = law[old].from
      BY <1>3, AmendRows
    <3>6. d <= d
      BY Days
    <3>7. CASE {v, w} = {old, new}
      BY <3>1, <3>5, <3>6, <3>7
    <3>8. CASE v \notin {old, new}
      BY <2>1, <2>2, <3>3, <3>4, <3>5, <3>8 DEF Apart
    <3>9. CASE w \notin {old, new}
      BY <2>1, <2>2, <3>3, <3>4, <3>5, <3>9 DEF Apart
    <3> QED
      BY <3>7, <3>8, <3>9
  <2> QED
    BY <2>3, <2>4
<1> QED
  BY <1>1, <1>2, <1>3 DEF Next

\* The inductive invariant holds in every reachable state.
LEMMA Invariance == Spec => []IInv
<1>1. Init => Lineage /\ Apart
  BY DEF Init, Lineage, Apart, Versions, Published
<1>2. TypeOK /\ Lineage /\ Apart /\ [Next]_law => Lineage' /\ Apart'
  BY LineageStep, ApartStep DEF IInv
<1> QED
  BY <1>1, <1>2, TypeCorrect, PTL DEF Spec, IInv

\* If the amendments of a provision were approved in the order of their
\* effective days, each on the version the previous one made, then at most one
\* version of the provision is in force on any day.
THEOREM OneVersion == Spec => []OneInForce
<1>1. IInv => OneInForce
  <2> SUFFICES ASSUME IInv, NEW p \in Provision, Orderly(p), NEW t \in Date,
                      NEW v \in InForceAt(p, t), NEW w \in InForceAt(p, t), v # w
               PROVE  FALSE
    BY DEF OneInForce
  <2>1. v \in Versions(p) /\ w \in Versions(p)
    BY DEF InForceAt
  <2>2. /\ law[v].from <= t /\ t < law[v].to /\ law[w].from <= t /\ t < law[w].to
    BY DEF InForceAt, InForce
  <2>3. /\ law[v].from \in Nat /\ law[v].to \in Nat
        /\ law[w].from \in Nat /\ law[w].to \in Nat
    BY <2>1, Days DEF Versions, Published, IInv, TypeOK, Row
  <2>4. law[v].to <= law[w].from \/ law[w].to <= law[v].from
    BY <2>1 DEF IInv, Apart
  <2> QED
    BY <2>2, <2>3, <2>4, Days
<1> QED
  BY <1>1, Invariance, PTL

\* An orderly amendment changes the law only from its effective day on, and an
\* enactment only from the first day of the document.
THEOREM NothingRetroactive == Spec => NoRetroactiveChange
<1> DEFINE Settled ==
      \A p \in Provision : Orderly(p)' =>
        \A t \in Date :
          \/ InForceAt(p, t)' = InForceAt(p, t)
          \/ \E v \in VersionId : ~Published(v) /\ Published(v)'
                                   /\ law'[v].prov = p /\ law'[v].from <= t
<1>1. IInv /\ [Next]_law => [Settled]_law
  <2> SUFFICES ASSUME TypeOK, Lineage, Next, NEW p \in Provision, Orderly(p)',
                      NEW t \in Date,
                      \A v \in VersionId :
                         ~Published(v) /\ Published(v)' /\ law'[v].prov = p
                            => ~(law'[v].from <= t)
               PROVE  InForceAt(p, t)' = InForceAt(p, t)
    BY DEF IInv
  <2> SUFFICES ASSUME NEW v \in VersionId
               PROVE  v \in InForceAt(p, t)' <=> v \in InForceAt(p, t)
    BY DEF InForceAt, Versions
  <2>1. ASSUME NEW S \in SUBSET Provision, Enact(S)
        PROVE  v \in InForceAt(p, t)' <=> v \in InForceAt(p, t)
    <3>1. CASE Published(v)
      BY <2>1, <3>1 DEF Enact, InForceAt, InForce, Versions, Published
    <3>2. CASE ~Published(v)
      BY <3>2 DEF InForceAt, InForce, Versions
    <3> QED
      BY <3>1, <3>2
  <2>2. ASSUME NEW old \in VersionId, NEW new \in NewId, NEW d \in Date,
               Amend(old, new, d) \/ AmendAgain(old, new, d)
        PROVE  v \in InForceAt(p, t)' <=> v \in InForceAt(p, t)
    <3>1. CASE v = new
      BY <2>2, <3>1, AmendRows DEF InForceAt, InForce, Versions
    <3>2. CASE v = old /\ law[old].prov = p
      <4>1. law[old].to = Open /\ law'[old].to = d
        BY <2>2, <3>2, AmendOrderly
      <4>2. ~(d <= t)
        BY <2>2, <3>2, AmendRows
      <4> QED
        BY <2>2, <3>2, <4>1, <4>2, AmendRows, Days
        DEF InForceAt, InForce, Versions
    <3>3. CASE v = old /\ law[old].prov # p
      BY <2>2, <3>3, AmendRows DEF InForceAt, Versions
    <3>4. CASE v \notin {old, new}
      BY <2>2, <3>4, AmendRows DEF InForceAt, InForce, Versions, Published
    <3> QED
      BY <3>1, <3>2, <3>3, <3>4
  <2> QED
    BY <2>1, <2>2 DEF Next
<1>2. NoRetroactiveChange <=> [][Settled]_law
  BY DEF NoRetroactiveChange
<1> QED
  BY <1>1, <1>2, Invariance, PTL DEF Spec

=============================================================================
