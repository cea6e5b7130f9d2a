------------------------------ MODULE Conflict ------------------------------
(***************************************************************************)
(* When two provisions that are valid at the same time may contradict each *)
(* other (query/conflict.py).  An obligation is a record                   *)
(* [modality, amount, scope, exception]; an absent field is None.          *)
(***************************************************************************)
CONSTANT None

Modalities == {"OBLIGATION", "PROHIBITION", "PERMISSION", None}

\* The pairs of modalities that exclude each other.
Clashing == {{"OBLIGATION", "PROHIBITION"}, {"PERMISSION", "PROHIBITION"}}

Known(x) == x # None

\* _scope_overlaps: no field that both name with a different value, and not a
\* general rule against its exception.
ScopeOverlaps(a, b) ==
    /\ \A f \in DOMAIN a.scope :
          Known(a.scope[f]) /\ Known(b.scope[f]) => a.scope[f] = b.scope[f]
    /\ a.exception <=> b.exception

ModalityConflict(a, b) == {a.modality, b.modality} \in Clashing

ThresholdMismatch(a, b) ==
    Known(a.amount) /\ Known(b.amount) /\ a.amount # b.amount

\* _rule_conflict
RuleConflict(a, b) == ModalityConflict(a, b) \/ ThresholdMismatch(a, b)

\* _amendment_pairs: a change relates versions of one provision, so that the pair holds
\* the provision alone and excuses no two.
AmendmentPairs(provisions) == {{p} : p \in provisions}

\* detect, as far as the rules go.  S holds versions, prov[v] is the provision of v,
\* ob[v] its obligation.
ConflictPairs(S, prov, ob) ==
    {{prov[x[1]], prov[x[2]]} : x \in
        {y \in S \X S : /\ prov[y[1]] # prov[y[2]]
                        /\ {prov[y[1]], prov[y[2]]}
                              \notin AmendmentPairs({prov[v] : v \in S})
                        /\ ScopeOverlaps(ob[y[1]], ob[y[2]])
                        /\ RuleConflict(ob[y[1]], ob[y[2]])}}

\* The hits the language model confirms, those it gives no answer on (None) with them.
LlmConfirms(answer) == answer # FALSE
Confirmed(hits, answer) == {h \in hits : LlmConfirms(answer[h])}
=============================================================================
