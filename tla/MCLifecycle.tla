---------------------------- MODULE MCLifecycle -----------------------------
(* Instances of Lifecycle: documents, amendments and their dates.              *)
EXTENDS Lifecycle, TLC

CONSTANTS base, other, amend, p1, p2, e1, e2

\* One regulation with one provision, and a document that amends it twice.
MCDocOf == p1 :> base
MCFirstDate == p1 :> 1
MCAmendingDoc == (e1 :> amend) @@ (e2 :> amend)
MCEffectiveDate == (e1 :> 1) @@ (e2 :> 3)
MCCandidates == (e1 :> {p1}) @@ (e2 :> {p1})

\* One regulation with one provision, amended once.
OnceAmendingDoc == e1 :> amend
OnceEffectiveDate == e1 :> 2
OnceCandidates == e1 :> {p1}

\* One regulation with two provisions, the first of them amended once.
PairDocOf == (p1 :> base) @@ (p2 :> base)
PairFirstDate == (p1 :> 1) @@ (p2 :> 1)

\* Workers and fresh ids are interchangeable.
IdSymmetry == Permutations(NewId) \cup Permutations(Worker)
=============================================================================
