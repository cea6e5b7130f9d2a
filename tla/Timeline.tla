------------------------------ MODULE Timeline ------------------------------
(***************************************************************************)
(* What the knowledge base promises about the versions of a provision,     *)
(* whatever transactions, index writes and reviews it takes to keep it:    *)
(* every published version has a half-open window [from, to); a base       *)
(* document puts the first version of its provisions into force, and an    *)
(* amendment closes one version and opens its successor on the same day.   *)
(* Lifecycle.tla, the detailed specification, is shown to implement this.  *)
(***************************************************************************)
EXTENDS Naturals

CONSTANTS
    Provision,      \* the provisions of the base documents
    NewId,          \* ids that new_version_id() may still hand out
    Date,           \* calendar days
    Open,           \* valid_to_exclusive = None, a bound later than every day
    FirstDate,      \* FirstDate[p]: valid_from of the document that holds p
    None            \* no row

\* A provision is parsed into exactly one version, which carries its name here;
\* every later version gets a fresh id.
VersionId == Provision \cup NewId

\* valid_from, valid_to_exclusive, and the version the content was patched from.
Row == [prov : Provision, from : Date, to : Date \cup {Open},
        pred : VersionId \cup {None}]

ASSUME DatesAssumption ==
    /\ Date \subseteq Nat
    /\ Open \in Nat
    /\ \A d \in Date : d < Open
ASSUME IdsAssumption ==
    /\ Provision \cap NewId = {}
    /\ None \notin VersionId
    /\ None \notin Row
    /\ FirstDate \in [Provision -> Date]

VARIABLE law        \* law[v]: the published row of v, or None

TypeOK == law \in [VersionId -> Row \cup {None}]

Published(v) == law[v] # None

Init == law = [v \in VersionId |-> None]

FirstRow(p) == [prov |-> p, from |-> FirstDate[p], to |-> Open, pred |-> None]

\* The base versions in S come into force; those already published stay as
\* they are.
Enact(S) ==
    law' = [v \in VersionId |->
              IF v \in S /\ ~Published(v) THEN FirstRow(v) ELSE law[v]]

Successor(old, d) ==
    [prov |-> law[old].prov, from |-> d, to |-> Open, pred |-> old]

\* Amend, with the end date of the old version taken as its last day.
AmendInclusive(old, new, d) ==
    /\ Published(old)
    /\ ~Published(new)
    /\ law' = [law EXCEPT ![old].to = IF d - 1 \in Date THEN d - 1 ELSE d,
                          ![new] = Successor(old, d)]

\* Amend, without closing the old version.
AmendLeavesOpen(old, new, d) ==
    /\ Published(old)
    /\ ~Published(new)
    /\ law' = [law EXCEPT ![new] = Successor(old, d)]

\* Amend, with the old version withdrawn from its first day.
AmendWithdraws(old, new, d) ==
    /\ Published(old)
    /\ ~Published(new)
    /\ law' = [law EXCEPT ![old].to = law[old].from, ![new] = Successor(old, d)]

\* `new' supersedes `old' from day d on.
Amend(old, new, d) ==
    /\ Published(old)
    /\ ~Published(new)
    /\ law' = [law EXCEPT ![old].to = d, ![new] = Successor(old, d)]

\* `new' supersedes a version that was superseded before, and leaves the end it
\* has: the row already carried the day d when it was read.
AmendAgain(old, new, d) ==
    /\ Published(old)
    /\ law[old].to # Open
    /\ ~Published(new)
    /\ law' = [law EXCEPT ![new] = Successor(old, d)]

Next ==
    \/ \E S \in SUBSET Provision : Enact(S)
    \/ \E old \in VersionId, new \in NewId, d \in Date :
          Amend(old, new, d) \/ AmendAgain(old, new, d)

Spec == Init /\ [][Next]_law

-----------------------------------------------------------------------------
\* ProvisionVersion.is_valid_at
InForce(v, t) == Published(v) /\ law[v].from <= t /\ t < law[v].to

Versions(p) == {v \in VersionId : Published(v) /\ law[v].prov = p}

InForceAt(p, t) == {v \in Versions(p) : InForce(v, t)}

\* The amendments of p were approved one after the other, each on top of the
\* previous one and none with an earlier effective day: no version was
\* superseded twice and none starts before the version it supersedes.
Orderly(p) ==
    \A v \in Versions(p) :
        law[v].pred # None =>
            /\ law[v].pred \in Versions(p)
            /\ law[law[v].pred].from <= law[v].from
            /\ \A w \in Versions(p) : law[w].pred = law[v].pred => w = v

\* Once a version of a provision took effect, every later day has a version of
\* that provision in force: amendments, in whatever order they are approved
\* and whatever their dates, never leave a hole in the law.
NoGap ==
    \A v \in VersionId, t \in Date :
        Published(v) /\ law[v].from <= t => InForceAt(law[v].prov, t) # {}

\* If the amendments of a provision were orderly, at most one of its versions
\* is in force on any day.
OneInForce ==
    \A p \in Provision : Orderly(p) =>
        \A t \in Date : \A v, w \in InForceAt(p, t) : v = w

\* A step that keeps the amendments of p orderly changes the version in force
\* on a day only by publishing a version that takes effect on or before that
\* day: the answer for any earlier day is settled.
NoRetroactiveChange ==
    [][ \A p \in Provision : Orderly(p)' =>
          \A t \in Date :
             \/ InForceAt(p, t)' = InForceAt(p, t)
             \/ \E v \in VersionId :
                   ~Published(v) /\ Published(v)' /\ law'[v].prov = p
                                 /\ law'[v].from <= t ]_law

=============================================================================
