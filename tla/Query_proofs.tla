---------------------------- MODULE Query_proofs -----------------------------
(***************************************************************************)
(* Proofs about Query: what a question gathers and may cite, while the     *)
(* requests of Lifecycle publish under it.  The knowledge base keeps the   *)
(* invariants of Lifecycle_proofs; those of the questions rest on them.    *)
(***************************************************************************)
EXTENDS Query, Lifecycle_proofs, FiniteSetTheorems

\* The knowledge base under the questions behaves as Lifecycle says.
LEMMA KnowledgeRefinement == QuerySpec => Spec
<1>1. QueryInit => Init
  BY DEF QueryInit
<1>2. [QueryNext]_queryVars => [Next]_vars
  BY DEF QueryNext, KnowledgeStep, Advance, Retrieve, Refuse, Expand, Resolve, Explain,
         Generate, Abstain, queryVars
<1> QED
  BY <1>1, <1>2, PTL DEF QuerySpec, Spec

\* What the knowledge base keeps, for the questions.
LEMMA KnowledgeInvariance == QuerySpec => [](Sound /\ Indexed)
  BY KnowledgeRefinement, Invariance, IndexInvariance, PTL

\* A step of the knowledge base changes nothing of a question but its history.
LEMMA KnowledgeFields ==
    ASSUME QueryTypeOK, KnowledgeStep, NEW q \in Question
    PROVE  /\ ask'[q].phase = ask[q].phase /\ ask'[q].found = ask[q].found
           /\ ask'[q].reach = ask[q].reach /\ ask'[q].valid = ask[q].valid
           /\ ask'[q].excluded = ask[q].excluded /\ ask'[q].cites = ask[q].cites
           /\ ask'[q].status = ask[q].status
           /\ ask'[q].calm => ask[q].calm /\ clean' /\ version' = version /\ index' = index
           /\ ask'[q] \in Asked
<1> DEFINE c == ask[q].calm /\ clean' /\ version' = version /\ index' = index
<1>1. ask[q] \in Asked
  BY DEF QueryTypeOK
<1>2. ask'[q] = [ask[q] EXCEPT !.calm = c]
  BY DEF KnowledgeStep
<1>3. c \in BOOLEAN
  BY <1>1 DEF Asked
<1>4. c => ask[q].calm /\ clean' /\ version' = version /\ index' = index
  OBVIOUS
<1> HIDE DEF c
<1> QED
  BY <1>1, <1>2, <1>3, <1>4 DEF Asked

\* A step of one question leaves the others and the knowledge base alone.
LEMMA AdvanceOthers ==
    ASSUME QueryTypeOK, NEW r \in Question, Advance(r)
    PROVE  /\ vars' = vars
           /\ \A q \in Question : q # r => ask'[q] = ask[q]
  BY DEF QueryTypeOK, Advance, Retrieve, Refuse, Expand, Resolve, Explain, Generate, Abstain,
         Conclude

\* What is found is an item with the id of a version.
LEMMA Items ==
    /\ TypeOK => \A v \in VersionId :
         /\ index[v] # None => ChunkItem(v) \in Item
         /\ version[v] # None => RowItem(v) \in Item
         /\ ChunkItem(v).id = v /\ RowItem(v).id = v
  BY DEF TypeOK, ChunkItem, RowItem, Item, Chunk, VersionRow

\* A question keeps well formed items, however it goes.
LEMMA QueryTypeStep ==
    ASSUME TypeOK, QueryTypeOK, NEW q \in Question, Advance(q) PROVE ask'[q] \in Asked
<1>1. ask[q] \in Asked
  BY DEF QueryTypeOK
<1>2. ASSUME Retrieve(q) PROVE ask'[q] \in Asked
  <2>1. PICK found \in Best(Hits(q)) :
          ask' = [ask EXCEPT ![q].phase = "retrieved", ![q].found = found,
                             ![q].reach = Reached(Provs(found)),
                             ![q].calm = clean /\ \A w \in Worker : Idle(w)]
    BY <1>2 DEF Retrieve
  <2>2. found \subseteq Hits(q)
    BY DEF Best
  <2>3. found \subseteq Item
    BY <2>2, Items DEF Hits, UndatedHits
  <2>4. Reached(Provs(found)) \subseteq Provision
    BY QueryAssumption DEF Reached, Referenced
  <2>5. (clean /\ \A w \in Worker : Idle(w)) \in BOOLEAN
    OBVIOUS
  <2> DEFINE reach == Reached(Provs(found))
             calm == clean /\ \A w \in Worker : Idle(w)
  <2>6. ask'[q] = [ask[q] EXCEPT !.phase = "retrieved", !.found = found, !.reach = reach,
                                 !.calm = calm]
    BY <2>1 DEF QueryTypeOK
  <2>7. reach \in SUBSET Provision /\ calm \in BOOLEAN
    BY <2>4
  <2> HIDE DEF reach, calm
  <2> QED
    BY <1>1, <2>3, <2>6, <2>7 DEF Asked
<1>3. ASSUME Refuse(q) PROVE ask'[q] \in Asked
  BY <1>1, <1>3 DEF Refuse, QueryTypeOK, Asked, AnswerStatus
<1>4. ASSUME NEW p \in Provision, Expand(q, p) PROVE ask'[q] \in Asked
  <2>1. PICK S : /\ S = {} \/ \E i \in CurrentRows(q, p) : S = {i}
                 /\ ask' = [ask EXCEPT ![q].reach = @ \ {p},
                                ![q].found = @ \cup {i \in S : i.id \notin Ids(@)}]
    BY <1>4 DEF Expand
  <2>2. S \subseteq Item
    BY <2>1, Items DEF CurrentRows, Approved
  <2> DEFINE more == {i \in S : i.id \notin Ids(ask[q].found)}
  <2>3. ask'[q] = [ask[q] EXCEPT !.reach = ask[q].reach \ {p},
                                 !.found = ask[q].found \cup more]
    BY <1>1, <2>1 DEF QueryTypeOK
  <2>4. more \subseteq Item
    BY <2>2
  <2> HIDE DEF more
  <2> QED
    BY <1>1, <2>3, <2>4 DEF Asked
<1>5. \A i \in Item, r \in Question : ReasonsOf(r, i) \subseteq Reason
  BY DEF ReasonsOf, Reasons, Reason
<1>6. ASSUME Resolve(q) PROVE ask'[q] \in Asked
  <2> DEFINE ok == {Judged(i) : i \in {j \in ask[q].found : ReasonsOf(q, j) = {}}}
  <2>1. PICK keep \in LatestOfEach(ok) :
          ask' = [ask EXCEPT ![q].phase = "resolved", ![q].found = {}, ![q].valid = keep,
                             ![q].excluded =
                                (Ids(ok \ keep) \X {"SUPERSEDED"})
                                  \cup UNION {{i.id} \X ReasonsOf(q, i)
                                                : i \in ask[q].found}]
    BY <1>6 DEF Resolve
  <2>2. ask[q].found \subseteq Item
    BY <1>1 DEF Asked
  <2>3. ok \subseteq Item
    BY <2>2, Items DEF Judged, Item
  <2>4. keep \subseteq Item
    BY <2>3 DEF LatestOfEach
  <2> DEFINE out == (Ids(ok \ keep) \X {"SUPERSEDED"})
                      \cup UNION {{i.id} \X ReasonsOf(q, i) : i \in ask[q].found}
  <2>5. out \subseteq VersionId \X Reason
    <3>1. Ids(ok \ keep) \X {"SUPERSEDED"} \subseteq VersionId \X Reason
      BY <2>3 DEF Ids, Item, Reason
    <3>2. ASSUME NEW i \in ask[q].found
          PROVE  {i.id} \X ReasonsOf(q, i) \subseteq VersionId \X Reason
      BY <1>5, <2>2 DEF Item
    <3> QED
      BY <3>1, <3>2
  <2> HIDE DEF ok, out
  <2>6. ask'[q] = [ask[q] EXCEPT !.phase = "resolved", !.found = {}, !.valid = keep,
                                 !.excluded = out]
    BY <2>1 DEF QueryTypeOK, ok, out
  <2> QED
    BY <1>1, <2>4, <2>5, <2>6 DEF Asked
<1>7. ASSUME Explain(q) PROVE ask'[q] \in Asked
  <2> DEFINE more == UNION {{v} \X Reasons(version[v].status, version[v], DateOf[q])
                              : v \in NewSiblings(q)}
  <2>1. more \subseteq VersionId \X Reason
    <3>1. ASSUME NEW v \in NewSiblings(q)
          PROVE  {v} \X Reasons(version[v].status, version[v], DateOf[q])
                   \subseteq VersionId \X Reason
      BY DEF NewSiblings, Siblings, Reasons, Reason
    <3> QED
      BY <3>1
  <2>2. ask'[q] = [ask[q] EXCEPT !.phase = "explained",
                                 !.excluded = ask[q].excluded \cup more]
    BY <1>7 DEF Explain, QueryTypeOK
  <2> HIDE DEF more
  <2> QED
    BY <1>1, <2>1, <2>2 DEF Asked
<1>8. Citable(q) \subseteq VersionId \cup {Invented}
  BY <1>1 DEF Citable, Asked, Item, Ids
<1>9. ASSUME NEW cites, cites \subseteq VersionId \cup {Invented},
             NEW status \in AnswerStatus, Conclude(q, cites, status)
      PROVE  ask'[q] \in Asked
  BY <1>1, <1>9 DEF Conclude, QueryTypeOK, Asked
<1>10. ASSUME Generate(q) PROVE ask'[q] \in Asked
  <2>1. PICK cites \in SUBSET Citable(q), status \in AnswerStatus : Conclude(q, cites, status)
    BY <1>10 DEF Generate, AnswerStatus
  <2> QED
    BY <1>8, <1>9, <2>1
<1>11. ASSUME Abstain(q) PROVE ask'[q] \in Asked
  BY <1>9, <1>11 DEF Abstain, AnswerStatus
<1> QED
  BY <1>2, <1>3, <1>4, <1>6, <1>7, <1>10, <1>11 DEF Advance

\* Questions keep well formed items, statuses and citations, while the knowledge base
\* moves under them.
THEOREM QueryTypeCorrect == QuerySpec => []QueryTypeOK
<1>1. QueryInit => QueryTypeOK
  BY DEF QueryInit, QueryTypeOK, Asked
<1>2. TypeOK /\ QueryTypeOK /\ [QueryNext]_queryVars => QueryTypeOK'
  <2> SUFFICES ASSUME TypeOK, QueryTypeOK, [QueryNext]_queryVars PROVE QueryTypeOK'
    OBVIOUS
  <2>1. DOMAIN ask' = Question /\ ask' = [q \in Question |-> ask'[q]]
    BY DEF QueryTypeOK, QueryNext, KnowledgeStep, Advance, Retrieve, Refuse, Expand, Resolve,
           Explain, Generate, Abstain, Conclude, queryVars
  <2>2. ASSUME NEW q \in Question PROVE ask'[q] \in Asked
    <3>1. CASE KnowledgeStep
      BY <3>1, KnowledgeFields
    <3>2. ASSUME NEW r \in Question, Advance(r) PROVE ask'[q] \in Asked
      BY <3>2, AdvanceOthers, QueryTypeStep DEF QueryTypeOK
    <3>3. CASE UNCHANGED queryVars
      BY <3>3 DEF queryVars, QueryTypeOK
    <3> QED
      BY <3>1, <3>2, <3>3 DEF QueryNext
  <2> QED
    BY <2>1, <2>2 DEF QueryTypeOK
<1>3. Sound /\ Indexed => TypeOK
  BY DEF Sound
<1> QED
  BY <1>1, <1>2, <1>3, KnowledgeInvariance, PTL DEF QuerySpec

-----------------------------------------------------------------------------
(* What a question shows *)

\* The evidence holds one version of a provision (_mark_superseded).
OnePerProvision ==
    \A q \in Question : \A i, j \in ask[q].valid : i.prov = j.prov => i = j

\* A version is found once; the text of an answer is final; and what passed the checks
\* cites the evidence and nothing else.
Answering ==
    \A q \in Question :
        /\ \A i, j \in ask[q].found : i.id = j.id => i = j
        /\ ask[q].phase # "answered" => ask[q].status = None
        /\ Passed(q) => ask[q].cites # {} /\ ask[q].cites \subseteq Ids(ask[q].valid)

Shown == Answering /\ OnePerProvision /\ EvidenceOrExcluded

\* What a question does to its evidence.
LEMMA Retrieved ==
    ASSUME QueryTypeOK, NEW q \in Question, Retrieve(q)
    PROVE  /\ ask[q].phase = "new" /\ ask'[q].phase = "retrieved"
           /\ ask'[q].found \in Best(Hits(q)) /\ ask'[q].found \subseteq Hits(q)
           /\ ask'[q].calm = (clean /\ \A w \in Worker : Idle(w))
           /\ ask'[q].valid = ask[q].valid /\ ask'[q].excluded = ask[q].excluded
           /\ ask'[q].cites = ask[q].cites /\ ask'[q].status = ask[q].status
<1>1. ask[q] \in Asked
  BY DEF QueryTypeOK
<1>2. PICK found \in Best(Hits(q)) :
        ask' = [ask EXCEPT ![q].phase = "retrieved", ![q].found = found,
                           ![q].reach = Reached(Provs(found)),
                           ![q].calm = clean /\ \A w \in Worker : Idle(w)]
  BY DEF Retrieve
<1> DEFINE reach == Reached(Provs(found))
           calm == clean /\ \A w \in Worker : Idle(w)
<1>3. ask'[q] = [ask[q] EXCEPT !.phase = "retrieved", !.found = found, !.reach = reach,
                               !.calm = calm]
  BY <1>2 DEF QueryTypeOK
<1> HIDE DEF reach, calm
<1>4. /\ ask'[q].phase = "retrieved" /\ ask'[q].found = found /\ ask'[q].calm = calm
      /\ ask'[q].valid = ask[q].valid /\ ask'[q].excluded = ask[q].excluded
      /\ ask'[q].cites = ask[q].cites /\ ask'[q].status = ask[q].status
  BY <1>1, <1>3 DEF Asked
<1>5. found \subseteq Hits(q)
  BY DEF Best
<1> QED
  BY <1>4, <1>5 DEF Retrieve, calm

\* Following the references adds hits that pass the filter, and changes nothing else.
LEMMA Expanded ==
    ASSUME QueryTypeOK, NEW q \in Question, NEW p \in Provision, Expand(q, p)
    PROVE  /\ ask[q].phase = "retrieved" /\ ask'[q].phase = "retrieved"
           /\ \/ ask'[q].found = ask[q].found
              \/ \E i \in CurrentRows(q, p) :
                    /\ i.id \notin Ids(ask[q].found)
                    /\ ask'[q].found = ask[q].found \cup {i}
           /\ ask'[q].calm = ask[q].calm /\ ask'[q].valid = ask[q].valid
           /\ ask'[q].excluded = ask[q].excluded /\ ask'[q].cites = ask[q].cites
           /\ ask'[q].status = ask[q].status
<1>1. ask[q] \in Asked
  BY DEF QueryTypeOK
<1>2. PICK S : /\ S = {} \/ \E i \in CurrentRows(q, p) : S = {i}
               /\ ask' = [ask EXCEPT ![q].reach = @ \ {p},
                              ![q].found = @ \cup {i \in S : i.id \notin Ids(@)}]
  BY DEF Expand
<1> DEFINE more == {i \in S : i.id \notin Ids(ask[q].found)}
<1>3. ask'[q] = [ask[q] EXCEPT !.reach = ask[q].reach \ {p},
                               !.found = ask[q].found \cup more]
  BY <1>1, <1>2 DEF QueryTypeOK
<1>4. more = {} \/ \E i \in CurrentRows(q, p) : i.id \notin Ids(ask[q].found) /\ more = {i}
  BY <1>2
<1> HIDE DEF more
<1>5. /\ ask'[q].phase = ask[q].phase /\ ask'[q].found = ask[q].found \cup more
      /\ ask'[q].calm = ask[q].calm /\ ask'[q].valid = ask[q].valid
      /\ ask'[q].excluded = ask[q].excluded /\ ask'[q].cites = ask[q].cites
      /\ ask'[q].status = ask[q].status
  BY <1>1, <1>3 DEF Asked
<1> QED
  BY <1>4, <1>5 DEF Expand

\* The items that are valid, as the judgement sees them.
ValidItems(q) == {Judged(i) : i \in {j \in ask[q].found : ReasonsOf(q, j) = {}}}

\* Resolving judges every hit: what it keeps as valid or excluded was found.
LEMMA Resolved ==
    ASSUME QueryTypeOK, NEW q \in Question, Resolve(q)
    PROVE  /\ ask[q].phase = "retrieved" /\ ask'[q].phase = "resolved"
           /\ ask'[q].found = {}
           /\ ask'[q].valid \in LatestOfEach(ValidItems(q))
           /\ ask'[q].excluded =
                (Ids(ValidItems(q) \ ask'[q].valid) \X {"SUPERSEDED"})
                  \cup UNION {{i.id} \X ReasonsOf(q, i) : i \in ask[q].found}
           /\ ask'[q].calm = ask[q].calm /\ ask'[q].cites = ask[q].cites
           /\ ask'[q].status = ask[q].status
<1>1. ask[q] \in Asked
  BY DEF QueryTypeOK
<1>2. PICK keep \in LatestOfEach(ValidItems(q)) :
        ask' = [ask EXCEPT ![q].phase = "resolved", ![q].found = {}, ![q].valid = keep,
                           ![q].excluded =
                              (Ids(ValidItems(q) \ keep) \X {"SUPERSEDED"})
                                \cup UNION {{i.id} \X ReasonsOf(q, i)
                                              : i \in ask[q].found}]
  BY DEF Resolve, ValidItems
<1> DEFINE out == (Ids(ValidItems(q) \ keep) \X {"SUPERSEDED"})
                    \cup UNION {{i.id} \X ReasonsOf(q, i) : i \in ask[q].found}
<1>3. ask'[q] = [ask[q] EXCEPT !.phase = "resolved", !.found = {}, !.valid = keep,
                               !.excluded = out]
  BY <1>2 DEF QueryTypeOK
<1> HIDE DEF out
<1>4. /\ ask'[q].phase = "resolved" /\ ask'[q].found = {} /\ ask'[q].valid = keep
      /\ ask'[q].excluded = out
      /\ ask'[q].calm = ask[q].calm /\ ask'[q].cites = ask[q].cites
      /\ ask'[q].status = ask[q].status
  BY <1>1, <1>3 DEF Asked
<1> QED
  BY <1>4 DEF Resolve, out

\* The second reading may exclude more versions, and changes nothing else.
LEMMA Explained ==
    ASSUME QueryTypeOK, NEW q \in Question, Explain(q)
    PROVE  /\ ask[q].phase = "resolved" /\ ask'[q].phase = "explained"
           /\ ask'[q].excluded = ask[q].excluded \cup
                UNION {{v} \X Reasons(version[v].status, version[v], DateOf[q])
                         : v \in NewSiblings(q)}
           /\ ask'[q].found = ask[q].found /\ ask'[q].valid = ask[q].valid
           /\ ask'[q].calm = ask[q].calm /\ ask'[q].cites = ask[q].cites
           /\ ask'[q].status = ask[q].status
<1>1. ask[q] \in Asked
  BY DEF QueryTypeOK
<1> DEFINE more == UNION {{v} \X Reasons(version[v].status, version[v], DateOf[q])
                            : v \in NewSiblings(q)}
<1>2. ask'[q] = [ask[q] EXCEPT !.phase = "explained",
                               !.excluded = ask[q].excluded \cup more]
  BY DEF Explain, QueryTypeOK
<1> HIDE DEF more
<1>3. /\ ask'[q].phase = "explained" /\ ask'[q].excluded = ask[q].excluded \cup more
      /\ ask'[q].found = ask[q].found /\ ask'[q].valid = ask[q].valid
      /\ ask'[q].calm = ask[q].calm /\ ask'[q].cites = ask[q].cites
      /\ ask'[q].status = ask[q].status
  BY <1>1, <1>2 DEF Asked
<1> QED
  BY <1>3 DEF Explain, more

\* Each of the three ends of a question leaves its evidence as it is.
LEMMA Concluded ==
    ASSUME QueryTypeOK, NEW q \in Question, Refuse(q) \/ Generate(q) \/ Abstain(q)
    PROVE  /\ ask[q].phase # "answered" /\ ask'[q].phase = "answered"
           /\ ask'[q].found = ask[q].found /\ ask'[q].valid = ask[q].valid
           /\ ask'[q].excluded = ask[q].excluded /\ ask'[q].calm = ask[q].calm
           /\ ask'[q].status = "DETERMINISTIC_CHECKS_PASSED" =>
                ask'[q].cites # {} /\ ask'[q].cites \subseteq Ids(ask[q].valid)
<1>1. ask[q] \in Asked
  BY DEF QueryTypeOK
<1>2. ASSUME NEW cites, NEW status, Conclude(q, cites, status)
      PROVE  /\ ask'[q].phase = "answered" /\ ask'[q].cites = cites
             /\ ask'[q].status = status
             /\ ask'[q].found = ask[q].found /\ ask'[q].valid = ask[q].valid
             /\ ask'[q].excluded = ask[q].excluded /\ ask'[q].calm = ask[q].calm
  BY <1>1, <1>2 DEF Conclude, QueryTypeOK, Asked
<1>3. ASSUME NEW cites, FailedChecks(q, cites) = {}
      PROVE  cites # {} /\ cites \subseteq Ids(ask[q].valid)
  BY <1>3 DEF FailedChecks
<1>4. CASE Refuse(q)
  BY <1>1, <1>4 DEF Refuse, QueryTypeOK, Asked
<1>5. CASE Abstain(q)
  BY <1>2, <1>5 DEF Abstain
<1>6. CASE Generate(q)
  BY <1>2, <1>3, <1>6 DEF Generate
<1> QED
  BY <1>4, <1>5, <1>6

\* Judging keeps the id; of a row and of a chunk there is one; a row fails for one
\* reason.
LEMMA Judgement ==
    /\ \A i : Judged(i).id = i.id
    /\ \A s, r, t : \A x, y \in Reasons(s, r, t) : x = y
    /\ \A q : \A i, j \in Hits(q) : i.id = j.id => i = j
    /\ \A q, p : \A i, j \in CurrentRows(q, p) : i.id = j.id => i = j
  BY DEF Judged, RowItem, Reasons, Hits, UndatedHits, ChunkItem, CurrentRows

\* One question's step.
LEMMA ShownStep ==
    ASSUME QueryTypeOK, QueryTypeOK', Shown, NEW q \in Question, Advance(q)
    PROVE  /\ \A i, j \in ask'[q].found : i.id = j.id => i = j
           /\ ask'[q].phase # "answered" => ask'[q].status = None
           /\ ask'[q].status = "DETERMINISTIC_CHECKS_PASSED" =>
                ask'[q].cites # {} /\ ask'[q].cites \subseteq Ids(ask'[q].valid)
           /\ \A i, j \in ask'[q].valid : i.prov = j.prov => i = j
           /\ \A x \in ask'[q].excluded : x[1] \notin Ids(ask'[q].valid)
           /\ \A x, y \in ask'[q].excluded : x[1] = y[1] => x = y
<1>0. /\ \A i, j \in ask[q].found : i.id = j.id => i = j
      /\ ask[q].phase # "answered" => ask[q].status = None
      /\ \A i, j \in ask[q].valid : i.prov = j.prov => i = j
      /\ \A x \in ask[q].excluded : x[1] \notin Ids(ask[q].valid)
      /\ \A x, y \in ask[q].excluded : x[1] = y[1] => x = y
      /\ ask[q] \in Asked /\ None # "DETERMINISTIC_CHECKS_PASSED"
  BY StatusAssumption
  DEF Shown, Answering, OnePerProvision, EvidenceOrExcluded, QueryTypeOK, AnswerStatus
<1>1. CASE Retrieve(q)
  BY <1>0, <1>1, Retrieved, Judgement
<1>2. ASSUME NEW p \in Provision, Expand(q, p)
      PROVE  \A i, j \in ask'[q].found : i.id = j.id => i = j
  <2>1. CASE ask'[q].found = ask[q].found
    BY <1>0, <2>1
  <2>2. ASSUME NEW k, k.id \notin Ids(ask[q].found), ask'[q].found = ask[q].found \cup {k}
        PROVE  \A i, j \in ask'[q].found : i.id = j.id => i = j
    BY <1>0, <2>2 DEF Ids
  <2> QED
    BY <1>2, <2>1, <2>2, Expanded
<1>3. CASE \E p \in Provision : Expand(q, p)
  <2>1. PICK p \in Provision : Expand(q, p)
    BY <1>3
  <2> QED
    BY <1>0, <1>2, <2>1, Expanded
<1>4. ASSUME Resolve(q)
      PROVE  /\ \A i, j \in ask'[q].valid : i.prov = j.prov => i = j
             /\ \A x \in ask'[q].excluded : x[1] \notin Ids(ask'[q].valid)
             /\ \A x, y \in ask'[q].excluded : x[1] = y[1] => x = y
  <2> DEFINE ok == ValidItems(q)
             keep == ask'[q].valid
  <2>1. /\ \A i, j \in keep : i.prov = j.prov => i = j
        /\ keep \subseteq ok
    BY <1>4, Resolved DEF LatestOfEach
  <2>2. ASSUME NEW i \in ok
        PROVE  \E k \in ask[q].found : /\ k.id = i.id /\ ReasonsOf(q, k) = {}
                                       /\ i = Judged(k)
    BY Judgement DEF ValidItems
  <2>3. \A i, j \in ok : i.id = j.id => i = j
    BY <1>0, <2>2
  <2>4. ASSUME NEW x \in ask'[q].excluded
        PROVE  \/ /\ x[2] = "SUPERSEDED" /\ x = <<x[1], x[2]>>
                  /\ \E i \in ok \ keep : x[1] = i.id
               \/ \E k \in ask[q].found : /\ x = <<k.id, x[2]>> /\ x[1] = k.id
                                          /\ x[2] \in ReasonsOf(q, k)
    <3>1. \/ x \in Ids(ok \ keep) \X {"SUPERSEDED"}
          \/ \E k \in ask[q].found : x \in {k.id} \X ReasonsOf(q, k)
      BY <1>4, <2>4, Resolved
    <3> QED
      BY <3>1 DEF Ids
  <2> HIDE DEF ok, keep
  <2>5. ASSUME NEW x \in ask'[q].excluded, NEW j \in keep, x[1] = j.id PROVE FALSE
    <3>1. PICK k \in ask[q].found : k.id = j.id /\ ReasonsOf(q, k) = {}
      BY <2>1, <2>2
    <3>2. CASE \E i \in ok \ keep : x[1] = i.id
      BY <2>1, <2>3, <2>5, <3>2
    <3>3. CASE \E l \in ask[q].found : x[1] = l.id /\ x[2] \in ReasonsOf(q, l)
      BY <1>0, <2>5, <3>1, <3>3
    <3> QED
      BY <2>4, <3>2, <3>3
  <2>6. ASSUME NEW x \in ask'[q].excluded, NEW y \in ask'[q].excluded, x[1] = y[1]
        PROVE  x = y
    <3>1. ASSUME NEW i \in ok, NEW l \in ask[q].found, i.id = l.id,
                 NEW r \in ReasonsOf(q, l)
          PROVE  FALSE
      BY <1>0, <2>2, <3>1
    <3>2. ASSUME NEW k \in ask[q].found, NEW r \in ReasonsOf(q, k), NEW s \in ReasonsOf(q, k)
          PROVE  r = s
      BY <3>2, Judgement DEF ReasonsOf
    <3> QED
      BY <1>0, <2>4, <2>6, <3>1, <3>2
  <2> QED
    BY <2>1, <2>5, <2>6 DEF Ids, keep
<1>5. CASE Resolve(q)
  BY <1>0, <1>4, <1>5, Resolved
<1>6. ASSUME Explain(q)
      PROVE  /\ \A x \in ask'[q].excluded : x[1] \notin Ids(ask'[q].valid)
             /\ \A x, y \in ask'[q].excluded : x[1] = y[1] => x = y
  <2>1. ask'[q].valid = ask[q].valid
    BY <1>6, Explained
  <2>2. ASSUME NEW x \in ask'[q].excluded, x \notin ask[q].excluded
        PROVE  /\ x[1] \in NewSiblings(q) /\ x = <<x[1], x[2]>>
               /\ x[2] \in Reasons(version[x[1]].status, version[x[1]], DateOf[q])
    BY <1>6, <2>2, Explained
  <2>3. \A v \in NewSiblings(q) :
          v \notin Ids(ask[q].valid) /\ \A x \in ask[q].excluded : x[1] # v
    BY DEF NewSiblings
  <2>4. \A x, y \in ask'[q].excluded : x[1] = y[1] => x = y
    BY <1>0, <2>2, <2>3, Judgement
  <2> QED
    BY <1>0, <2>1, <2>2, <2>3, <2>4
<1>7. CASE Explain(q)
  BY <1>0, <1>6, <1>7, Explained
<1>8. CASE Refuse(q) \/ Generate(q) \/ Abstain(q)
  BY <1>0, <1>8, Concluded
<1> QED
  BY <1>1, <1>3, <1>5, <1>7, <1>8 DEF Advance

\* What every question shows, in every reachable state.
LEMMA ShownInvariance == QuerySpec => []Shown
<1>1. QueryInit => Shown
  BY StatusAssumption
  DEF QueryInit, Shown, Answering, OnePerProvision, EvidenceOrExcluded, Passed, AnswerStatus
<1>2. QueryTypeOK /\ QueryTypeOK' /\ Shown /\ [QueryNext]_queryVars => Shown'
  <2> SUFFICES ASSUME QueryTypeOK, QueryTypeOK', Shown, [QueryNext]_queryVars PROVE Shown'
    OBVIOUS
  <2>1. ASSUME NEW q \in Question
        PROVE  /\ \A i, j \in ask[q].found : i.id = j.id => i = j
               /\ ask[q].phase # "answered" => ask[q].status = None
               /\ ask[q].status = "DETERMINISTIC_CHECKS_PASSED" =>
                    ask[q].cites # {} /\ ask[q].cites \subseteq Ids(ask[q].valid)
               /\ \A i, j \in ask[q].valid : i.prov = j.prov => i = j
               /\ \A x \in ask[q].excluded : x[1] \notin Ids(ask[q].valid)
               /\ \A x, y \in ask[q].excluded : x[1] = y[1] => x = y
    BY DEF Shown, Answering, OnePerProvision, EvidenceOrExcluded, Passed
  <2>2. ASSUME NEW q \in Question
        PROVE  /\ \A i, j \in ask'[q].found : i.id = j.id => i = j
               /\ ask'[q].phase # "answered" => ask'[q].status = None
               /\ ask'[q].status = "DETERMINISTIC_CHECKS_PASSED" =>
                    ask'[q].cites # {} /\ ask'[q].cites \subseteq Ids(ask'[q].valid)
               /\ \A i, j \in ask'[q].valid : i.prov = j.prov => i = j
               /\ \A x \in ask'[q].excluded : x[1] \notin Ids(ask'[q].valid)
               /\ \A x, y \in ask'[q].excluded : x[1] = y[1] => x = y
    <3>1. CASE KnowledgeStep
      BY <2>1, <3>1, KnowledgeFields
    <3>2. CASE Advance(q)
      BY <3>2, ShownStep
    <3>3. CASE ask'[q] = ask[q]
      BY <2>1, <3>3
    <3>4. ASSUME NEW r \in Question, r # q, Advance(r) PROVE ask'[q] = ask[q]
      BY <3>4, AdvanceOthers
    <3>5. UNCHANGED queryVars => ask'[q] = ask[q]
      BY DEF queryVars
    <3> QED
      BY <3>1, <3>2, <3>3, <3>4, <3>5 DEF QueryNext
  <2> QED
    BY <2>2 DEF Shown, Answering, OnePerProvision, EvidenceOrExcluded, Passed
<1> QED
  BY <1>1, <1>2, QueryTypeCorrect, PTL DEF QuerySpec

\* No version is both evidence and excluded, or excluded for two reasons, though its row
\* is read twice.
THEOREM ShownOnce == QuerySpec => []EvidenceOrExcluded
<1>1. Shown => EvidenceOrExcluded
  BY DEF Shown
<1> QED
  BY <1>1, ShownInvariance, PTL

-----------------------------------------------------------------------------
(* What the evidence says *)

\* What a question knows of a version is what its row says; without a row it is what the
\* chunk says that an approval in flight has written, and that approval will commit it.
Knows(q, i) ==
    /\ i.id \in VersionId /\ i.from <= DateOf[q]
    /\ version[i.id] # None => /\ i.from = version[i.id].from
                              /\ i.prov = version[i.id].prov
    /\ version[i.id] = None => /\ index[i.id] # None
                              /\ index[i.id].from = i.from
                              /\ index[i.id].prov = i.prov

\* If nothing was published since, what was found is approved, and what is valid is in
\* force.
Evidence ==
    \A q \in Question :
        /\ ask[q].phase \in {"new", "retrieved"} => ask[q].valid = {}
        /\ \A i \in ask[q].found : Knows(q, i) /\ (ask[q].calm => Approved(i.id))
        /\ \A i \in ask[q].valid :
             /\ Knows(q, i)
             /\ version[i.id] # None => Approved(i.id)
             /\ ask[q].calm => Approved(i.id) /\ DateOf[q] < version[i.id].to

\* A chunk without a row stays as it was written until the row comes, and then the row is
\* an approved one that says the same.
LEMMA KnowsStep ==
    ASSUME Sound, Sound', Indexed, Indexed', Next, NEW q \in Question, NEW i, Knows(q, i)
    PROVE  /\ Knows(q, i)'
           /\ version[i.id] # None => version'[i.id] # None
           /\ version[i.id] = None /\ version'[i.id] # None => Approved(i.id)'
<1> DEFINE v == i.id
<1>0. /\ TypeOK /\ TypeOK' /\ Chunks /\ Chunks' /\ v \in VersionId
      /\ i.from <= DateOf[q]
  BY DEF Sound, Indexed, Knows
<1>1. CASE version[v] # None
  <2>1. /\ version'[v] # None /\ version'[v].from = version[v].from
        /\ version'[v].prov = version[v].prov
    BY <1>0, <1>1, RowsStep
  <2> QED
    BY <1>0, <1>1, <2>1 DEF Knows
<1>2. CASE version[v] = None
  <2>1. index[v] # None /\ index[v].from = i.from /\ index[v].prov = i.prov
    BY <1>2 DEF Knows
  <2>2. v \notin Provision
    BY <1>0, <1>2, <2>1 DEF Chunks
  <2>3. index'[v] # None
    BY <1>0, <2>1, IndexStep
  <2>4. index'[v] = index[v]
    <3>1. \A w \in Worker : Approving(w) /\ txn[w].new = v => ~ApproveIndexNew(w)
      BY <1>0, <2>1 DEF Chunks, ApproveIndexNew
    <3> QED
      BY <1>0, <1>2, <3>1, ChunkStep DEF Approved
  <2>5. version'[v] # None => /\ index'[v].from = version'[v].from
                             /\ index'[v].prov = version'[v].prov
    BY <1>0, <2>3 DEF Chunks
  <2>6. version'[v] # None => Approved(v)'
    BY <1>0, <2>2 DEF Sound, Records, VersionId
  <2> QED
    BY <1>0, <1>2, <2>1, <2>3, <2>4, <2>5, <2>6 DEF Knows
<1> QED
  BY <1>1, <1>2

\* One question's step.
LEMMA EvidenceStep ==
    ASSUME Sound, Indexed, QueryTypeOK, Evidence, NEW q \in Question, Advance(q)
    PROVE  /\ ask'[q].phase \in {"new", "retrieved"} => ask'[q].valid = {}
           /\ \A i \in ask'[q].found : Knows(q, i) /\ (ask'[q].calm => Approved(i.id))
           /\ \A i \in ask'[q].valid :
                /\ Knows(q, i)
                /\ version[i.id] # None => Approved(i.id)
                /\ ask'[q].calm => Approved(i.id) /\ DateOf[q] < version[i.id].to
<1>0. /\ TypeOK /\ Chunks /\ IndexAccounted
      /\ ask[q].phase \in {"new", "retrieved"} => ask[q].valid = {}
      /\ \A i \in ask[q].found : Knows(q, i) /\ (ask[q].calm => Approved(i.id))
      /\ \A i \in ask[q].valid :
           /\ Knows(q, i)
           /\ version[i.id] # None => Approved(i.id)
           /\ ask[q].calm => Approved(i.id) /\ DateOf[q] < version[i.id].to
  BY DEF Sound, Indexed, Evidence
<1>1. ASSUME Retrieve(q), NEW i \in Hits(q)
      PROVE  Knows(q, i) /\ (ask'[q].calm => Approved(i.id))
  <2>1. PICK v \in VersionId : i = ChunkItem(v) /\ index[v] # None
    BY <1>1 DEF Hits, UndatedHits
  <2>2. i.id = v /\ i.from = index[v].from /\ i.prov = index[v].prov
    BY <2>1 DEF ChunkItem
  <2>3. i.from <= DateOf[q]
    BY <1>1 DEF Hits, Covers
  <2>4. version[v] # None => index[v].from = version[v].from /\ index[v].prov = version[v].prov
    BY <1>0, <2>1 DEF Chunks
  <2>5. ASSUME clean, \A w \in Worker : Idle(w) PROVE Approved(v)
    <3>1. \A w \in Worker : ~Writing(w, v)
      BY <2>5, Kinds DEF Idle, Writing, Activating, Approving
    <3> QED
      BY <1>0, <2>1, <2>5, <3>1 DEF IndexAccounted
  <2>6. ask'[q].calm => Approved(v)
    BY <1>1, <2>5, Retrieved
  <2> QED
    BY <2>1, <2>2, <2>3, <2>4, <2>6 DEF Knows
<1>2. CASE Retrieve(q)
  <2>1. ask'[q].found \subseteq Hits(q) /\ ask'[q].valid = ask[q].valid
    BY <1>2, Retrieved
  <2>2. ask[q].valid = {}
    BY <1>2, Retrieved DEF Evidence
  <2> QED
    BY <1>1, <1>2, <2>1, <2>2
<1>3. ASSUME NEW p \in Provision, Expand(q, p), NEW i \in CurrentRows(q, p)
      PROVE  Knows(q, i) /\ Approved(i.id)
  <2>1. PICK v \in VersionId : i = RowItem(v) /\ Approved(v)
    BY <1>3 DEF CurrentRows
  <2> QED
    BY <1>3, <2>1 DEF CurrentRows, RowItem, Covers, Knows, Approved
<1>4. CASE \E p \in Provision : Expand(q, p)
  <2>1. PICK p \in Provision : Expand(q, p)
    BY <1>4
  <2> QED
    BY <1>0, <1>3, <2>1, Expanded
<1>5. ASSUME Resolve(q), NEW i \in ValidItems(q)
      PROVE  /\ Knows(q, i)
             /\ version[i.id] # None => Approved(i.id)
             /\ ask[q].calm => Approved(i.id) /\ DateOf[q] < version[i.id].to
  <2>1. PICK k \in ask[q].found : i = Judged(k) /\ ReasonsOf(q, k) = {}
    BY DEF ValidItems
  <2>2. Knows(q, k) /\ (ask[q].calm => Approved(k.id))
    BY <1>0
  <2>3. CASE version[k.id] = None
    BY <2>1, <2>2, <2>3 DEF Judged, Approved
  <2>4. CASE version[k.id] # None
    <3>1. i = RowItem(k.id) /\ i.id = k.id
      BY <2>1, <2>4 DEF Judged, RowItem
    <3>2. version[k.id].status = "APPROVED" /\ Covers(RowItem(k.id), DateOf[q])
      BY <2>1, <2>4 DEF ReasonsOf, StatusOf, Judged, Reasons
    <3> QED
      BY <2>2, <2>4, <3>1, <3>2 DEF Covers, RowItem, Knows, Approved
  <2> QED
    BY <2>3, <2>4
<1>6. CASE Resolve(q)
  <2>1. /\ ask'[q].found = {} /\ ask'[q].valid \subseteq ValidItems(q)
        /\ ask'[q].calm = ask[q].calm /\ ask'[q].phase = "resolved"
    BY <1>6, Resolved DEF LatestOfEach
  <2> QED
    BY <1>5, <1>6, <2>1
<1>7. CASE Explain(q)
  BY <1>0, <1>7, Explained
<1>8. CASE Refuse(q) \/ Generate(q) \/ Abstain(q)
  BY <1>0, <1>8, Concluded
<1> QED
  BY <1>2, <1>4, <1>6, <1>7, <1>8 DEF Advance

\* What the evidence of every question says, in every reachable state.
LEMMA EvidenceInvariance == QuerySpec => []Evidence
<1>1. QueryInit => Evidence
  BY DEF QueryInit, Evidence
<1>2. /\ Sound /\ Sound' /\ Indexed /\ Indexed' /\ QueryTypeOK /\ Evidence
      /\ [QueryNext]_queryVars
      => Evidence'
  <2> SUFFICES ASSUME Sound, Sound', Indexed, Indexed', QueryTypeOK, Evidence,
                      [QueryNext]_queryVars
               PROVE  Evidence'
    OBVIOUS
  <2> SUFFICES ASSUME NEW q \in Question
               PROVE  /\ ask'[q].phase \in {"new", "retrieved"} => ask'[q].valid = {}
                      /\ \A i \in ask'[q].found :
                           Knows(q, i)' /\ (ask'[q].calm => Approved(i.id)')
                      /\ \A i \in ask'[q].valid :
                           /\ Knows(q, i)'
                           /\ version'[i.id] # None => Approved(i.id)'
                           /\ ask'[q].calm =>
                                Approved(i.id)' /\ DateOf[q] < version'[i.id].to
    BY DEF Evidence
  <2>1. /\ ask[q].phase \in {"new", "retrieved"} => ask[q].valid = {}
        /\ \A i \in ask[q].found : Knows(q, i) /\ (ask[q].calm => Approved(i.id))
        /\ \A i \in ask[q].valid :
             /\ Knows(q, i)
             /\ version[i.id] # None => Approved(i.id)
             /\ ask[q].calm => Approved(i.id) /\ DateOf[q] < version[i.id].to
    BY DEF Evidence
  <2>2. CASE KnowledgeStep
    <3>1. /\ ask'[q].found = ask[q].found /\ ask'[q].valid = ask[q].valid
          /\ ask'[q].phase = ask[q].phase
          /\ ask'[q].calm => ask[q].calm /\ version' = version
      BY <2>2, KnowledgeFields
    <3>2. ASSUME NEW i, Knows(q, i)
          PROVE  /\ Knows(q, i)'
                 /\ (version[i.id] # None => Approved(i.id))
                      => (version'[i.id] # None => Approved(i.id)')
      <4>1. /\ Knows(q, i)'
            /\ version[i.id] = None /\ version'[i.id] # None => Approved(i.id)'
        BY <2>2, <3>2, KnowsStep DEF KnowledgeStep
      <4>2. i.id \in VersionId /\ TypeOK'
        BY <3>2 DEF Knows, Sound
      <4>3. Approved(i.id) => Approved(i.id)'
        BY <2>2, <4>2, RowsStep DEF KnowledgeStep, Approved
      <4> QED
        BY <4>1, <4>3
    <3>3. \A i : version' = version /\ Approved(i.id) => Approved(i.id)'
      BY DEF Approved
    <3> QED
      BY <2>1, <3>1, <3>2, <3>3
  <2>3. ASSUME vars' = vars, NEW i
        PROVE  /\ Knows(q, i)' <=> Knows(q, i)
               /\ Approved(i.id)' <=> Approved(i.id)
               /\ version' = version
    BY <2>3 DEF vars, db, Knows, Approved
  <2>4. CASE Advance(q)
    <3>1. vars' = vars
      BY <2>4, AdvanceOthers
    <3> QED
      BY <2>3, <2>4, <3>1, EvidenceStep
  <2>5. CASE vars' = vars /\ ask'[q] = ask[q]
    BY <2>1, <2>3, <2>5
  <2>6. ASSUME NEW r \in Question, r # q, Advance(r) PROVE vars' = vars /\ ask'[q] = ask[q]
    BY <2>6, AdvanceOthers
  <2>7. UNCHANGED queryVars => vars' = vars /\ ask'[q] = ask[q]
    BY DEF queryVars
  <2> QED
    BY <2>2, <2>4, <2>5, <2>6, <2>7 DEF QueryNext
<1> QED
  BY <1>1, <1>2, KnowledgeInvariance, QueryTypeCorrect, PTL DEF QuerySpec

\* What passed the checks cites approved law that had begun by the day of the question;
\* law in force on that day, if nothing was published meanwhile.
THEOREM AnswersGrounded == QuerySpec => []Grounded
<1>1. Sound /\ Shown /\ Evidence => Grounded
  <2> SUFFICES ASSUME Sound, Shown, Evidence, NEW q \in Question, Passed(q)
               PROVE  /\ ask[q].cites # {}
                      /\ \A v \in ask[q].cites :
                           /\ v \in VersionId
                           /\ version[v] # None => /\ Approved(v)
                                                   /\ version[v].from <= DateOf[q]
                           /\ ask[q].calm => TL!InForce(v, DateOf[q])
    BY DEF Grounded
  <2>1. ask[q].cites # {} /\ ask[q].cites \subseteq Ids(ask[q].valid)
    BY DEF Shown, Answering
  <2>2. ASSUME NEW i \in ask[q].valid
        PROVE  /\ i.id \in VersionId
               /\ version[i.id] # None => /\ Approved(i.id)
                                         /\ version[i.id].from <= DateOf[q]
               /\ ask[q].calm => TL!InForce(i.id, DateOf[q])
    <3>1. /\ Knows(q, i) /\ i.id \in VersionId
          /\ version[i.id] # None => Approved(i.id)
          /\ ask[q].calm => Approved(i.id) /\ DateOf[q] < version[i.id].to
      BY DEF Evidence, Knows
    <3>2. version[i.id] # None => version[i.id].from <= DateOf[q]
      BY <3>1 DEF Knows
    <3>3. Approved(i.id) => /\ law[i.id] # None /\ law[i.id].from = version[i.id].from
                            /\ law[i.id].to = version[i.id].to
      BY <3>1, LawFields DEF Sound
    <3>4. ask[q].calm => TL!InForce(i.id, DateOf[q])
      BY <3>1, <3>2, <3>3 DEF TL!InForce, TL!Published, Approved
    <3> QED
      BY <3>1, <3>2, <3>4
  <2> QED
    BY <2>1, <2>2 DEF Ids
<1> QED
  BY <1>1, KnowledgeInvariance, ShownInvariance, EvidenceInvariance, PTL

\* While no transaction has failed, all evidence is approved law or is about to be, and
\* says what the database says or will say of it.
THEOREM EvidenceRestsOnLaw == QuerySpec => []RestsOnLaw
<1>1. Sound /\ Indexed /\ Evidence => RestsOnLaw
  <2> SUFFICES ASSUME Sound, Indexed, Evidence, clean, NEW q \in Question,
                      NEW i \in ask[q].valid
               PROVE  \/ /\ Approved(i.id)
                         /\ version[i.id].prov = i.prov
                         /\ version[i.id].from = i.from
                      \/ \E w \in Worker : /\ Approving(w)
                                           /\ txn[w].new = i.id
                                           /\ version[txn[w].old].prov = i.prov
                                           /\ txn[w].date = i.from
    BY DEF RestsOnLaw
  <2>1. /\ Knows(q, i) /\ i.id \in VersionId
        /\ version[i.id] # None => Approved(i.id)
    BY DEF Evidence, Knows
  <2>2. CASE version[i.id] # None
    BY <2>1, <2>2 DEF Knows
  <2>3. CASE version[i.id] = None
    <3>1. index[i.id] # None /\ index[i.id].from = i.from /\ index[i.id].prov = i.prov
      BY <2>1, <2>3 DEF Knows
    <3>2. PICK w \in Worker : Writing(w, i.id)
      BY <2>1, <2>3, <3>1 DEF Indexed, IndexAccounted, Approved
    <3>3. i.id \notin Provision
      BY <2>1, <2>3, <3>1 DEF Indexed, Chunks
    <3>4. ~(Activating(w) /\ i.id \in txn[w].marked)
      <4>1. Activating(w) => txn[w].marked \subseteq Provision
        BY DEF Activating, Activation
      <4> QED
        BY <3>3, <4>1
    <3>5. Approving(w) /\ txn[w].new = i.id
      BY <3>2, <3>4 DEF Writing
    <3>6. index[i.id].from = txn[w].date /\ index[i.id].prov = version[txn[w].old].prov
      BY <2>1, <3>1, <3>5 DEF Indexed, Chunks
    <3> QED
      BY <3>1, <3>5, <3>6
  <2> QED
    BY <2>2, <2>3
<1> QED
  BY <1>1, KnowledgeInvariance, EvidenceInvariance, PTL

-----------------------------------------------------------------------------
(* What is not missed *)

\* As long as nothing was published since the search, every version in force that shares
\* words with the question was found, unless it is flagged or was superseded twice.
InForceFound(q) ==
    \A p \in Matches[q] : \A v \in VersionId :
        /\ Approved(v) /\ version[v].prov = p
        /\ version[v].from <= DateOf[q] /\ DateOf[q] < version[v].to
        => \/ OutOfSync(v) \/ SupersededTwice(v)
           \/ \E i \in ask[q].found : i.id = v

\* The same of the evidence, where a version may give way to one that starts later.
InForceShown(q) ==
    \A p \in Matches[q] : \A v \in VersionId :
        /\ Approved(v) /\ version[v].prov = p
        /\ version[v].from <= DateOf[q] /\ DateOf[q] < version[v].to
        => \/ OutOfSync(v) \/ SupersededTwice(v)
           \/ \E i \in ask[q].valid : i.prov = p /\ version[v].from <= i.from

Searched ==
    \A q \in Question : ask[q].calm /\ Cardinality(UndatedHits(q)) <= TopK =>
        /\ ask[q].phase = "retrieved" => InForceFound(q)
        /\ ask[q].phase \in {"resolved", "explained"} => InForceShown(q)

\* What is in force by Timeline.
LEMMA InForceRows ==
    ASSUME TypeOK, NEW p, NEW t, NEW v
    PROVE  v \in TL!InForceAt(p, t) <=>
             /\ v \in VersionId /\ Approved(v) /\ version[v].prov = p
             /\ version[v].from <= t /\ t < version[v].to
<1>1. ASSUME v \in VersionId
      PROVE  /\ Approved(v) <=> law[v] # None
             /\ Approved(v) => /\ law[v].prov = version[v].prov
                               /\ law[v].from = version[v].from
                               /\ law[v].to = version[v].to
  BY <1>1, LawFields
<1> QED
  BY <1>1 DEF TL!InForceAt, TL!Versions, TL!InForce, TL!Published, TL!VersionId, VersionId

\* A flag of a document that is stored is not taken back by a step that publishes
\* nothing.
LEMMA FlagStays ==
    ASSUME Sound, TypeOK', Next, NEW v \in VersionId, Approved(v), OutOfSync(v)
    PROVE  OutOfSync(v)'
<1> DEFINE d == DocOf[version[v].prov]
<1>1. /\ TypeOK /\ version'[v].prov = version[v].prov /\ d \in Doc
      /\ doc[d] # None /\ doc[d] \in DocRow /\ doc[d].unsynced # {}
  <2>1. TypeOK /\ version'[v].prov = version[v].prov
    BY RowsStep DEF Sound, Approved
  <2>2. version[v].prov \in Provision
    BY <2>1 DEF TypeOK, Approved, VersionRow
  <2>3. doc[d] # None
    BY DEF Sound, GateHolds
  <2> QED
    BY <2>1, <2>2, <2>3, ConfigAssumption DEF OutOfSync, TypeOK
<1> SUFFICES doc'[d].unsynced # {}
  BY <1>1 DEF OutOfSync
<1> HIDE DEF d
<1>2. ASSUME NEW c \in Doc, Upload(c) PROVE doc'[d] = doc[d]
  BY <1>1, <1>2 DEF Upload, TypeOK
<1>3. ASSUME NEW w \in Worker, ActivateCommit(w) PROVE doc'[d].unsynced # {}
  <2>1. CASE d = txn[w].doc
    <3>1. doc'[d].unsynced = Unsynced(w)
      BY <1>1, <1>3, <2>1 DEF ActivateCommit, TypeOK
    <3> QED
      BY <1>1, <2>1, <3>1 DEF Unsynced
  <2>2. CASE d # txn[w].doc
    BY <1>1, <1>3, <2>2 DEF ActivateCommit, TypeOK
  <2> QED
    BY <2>1, <2>2
<1>4. ASSUME NEW w \in Worker, DeleteCommit(w) PROVE doc'[d].unsynced # {}
  <2>1. CASE d = txn[w].deleting
    <3>1. doc'[d] = [doc[d] EXCEPT !.approval = "ARCHIVED"]
      BY <1>1, <1>4, <2>1 DEF DeleteCommit, TypeOK
    <3> QED
      BY <1>1, <3>1 DEF DocRow
  <2>2. CASE d # txn[w].deleting
    BY <1>1, <1>4, <2>2 DEF DeleteCommit, TypeOK
  <2> QED
    BY <2>1, <2>2
<1>5. CASE /\ \A c \in Doc : ~Upload(c)
           /\ \A w \in Worker : ~ActivateCommit(w) /\ ~DeleteCommit(w)
  <2>1. doc' = doc
    BY <1>5
    DEF Next, Decide, ApproveUnpatchable, Request, Proceed, Abort, DeadlockVictim,
        RollBack, ActivateBegin, ActivateRead, ActivateIndex, ActivateIndexFails,
        ApproveRead, ApproveFlush, ApproveIndexOld, ApproveIndexNew, ApproveCommit,
        DeleteBegin, db
  <2> QED
    BY <1>1, <2>1
<1> QED
  BY <1>1, <1>2, <1>3, <1>4, <1>5

\* What a search may rank is finite, and no more than what it may rank of any day.
LEMMA FewHits ==
    ASSUME NEW q \in Question
    PROVE  /\ Hits(q) \subseteq UndatedHits(q)
           /\ Cardinality(UndatedHits(q)) <= TopK => Cardinality(Hits(q)) <= TopK
<1> DEFINE S == {u \in VersionId : index[u] # None /\ index[u].prov \in Matches[q]}
           f == [v \in S |-> ChunkItem(v)]
<1>1. IsFiniteSet(S)
  BY QueryAssumption, FS_Subset
<1>2. f \in Surjection(S, UndatedHits(q))
  BY DEF Surjection, UndatedHits
<1> HIDE DEF f, S
<1>3. IsFiniteSet(UndatedHits(q))
  BY <1>1, <1>2, FS_Surjection
<1>4. Hits(q) \subseteq UndatedHits(q)
  BY DEF Hits
<1>5. Cardinality(Hits(q)) <= Cardinality(UndatedHits(q)) /\ IsFiniteSet(Hits(q))
  BY <1>3, <1>4, FS_Subset
<1>6. Cardinality(Hits(q)) \in Nat /\ Cardinality(UndatedHits(q)) \in Nat
  BY <1>3, <1>5, FS_CardinalityType
<1> QED
  BY <1>4, <1>5, <1>6, QueryAssumption

\* A search in a calm moment finds all that is in force.
LEMMA RetrieveFinds ==
    ASSUME Sound, Indexed, QueryTypeOK, NEW q \in Question, Retrieve(q),
           ask'[q].calm, Cardinality(UndatedHits(q)) <= TopK,
           NEW p \in Matches[q], NEW v \in VersionId, Approved(v), version[v].prov = p,
           version[v].from <= DateOf[q], DateOf[q] < version[v].to
    PROVE  OutOfSync(v) \/ SupersededTwice(v) \/ \E i \in ask'[q].found : i.id = v
<1>1. clean /\ \A w \in Worker : Idle(w)
  BY Retrieved
<1>2. TL!InForce(v, DateOf[q])
  BY InForceRows DEF TL!InForceAt, Sound
<1>3. Searchable(v, DateOf[q]) \/ OutOfSync(v) \/ SupersededTwice(v)
  BY <1>1, <1>2, Found, QueryAssumption DEF NothingHidden
<1>4. ASSUME Searchable(v, DateOf[q]) PROVE \E i \in ask'[q].found : i.id = v
  <2>1. index[v] # None /\ index[v].prov = p
    BY <1>4 DEF Searchable, Indexed, Chunks, Approved
  <2>2. ChunkItem(v) \in Hits(q) /\ ChunkItem(v).id = v
    BY <1>4, <2>1 DEF Hits, UndatedHits, ChunkItem, Covers, Searchable
  <2>3. Best(Hits(q)) = {Hits(q)}
    BY FewHits DEF Best
  <2>4. ask'[q].found = Hits(q)
    BY <2>3, Retrieved
  <2> QED
    BY <2>2, <2>4
<1> QED
  BY <1>3, <1>4

\* One question's step.
LEMMA SearchedStep ==
    ASSUME Sound, Indexed, QueryTypeOK, Searched,
           NEW q \in Question, Advance(q), ask'[q].calm, Cardinality(UndatedHits(q)) <= TopK,
           NEW p \in Matches[q], NEW v \in VersionId, Approved(v), version[v].prov = p,
           version[v].from <= DateOf[q], DateOf[q] < version[v].to,
           ~OutOfSync(v), ~SupersededTwice(v)
    PROVE  /\ ask'[q].phase = "retrieved" => \E i \in ask'[q].found : i.id = v
           /\ ask'[q].phase \in {"resolved", "explained"} =>
                \E i \in ask'[q].valid : i.prov = p /\ version[v].from <= i.from
<1>1. CASE Retrieve(q)
  BY <1>1, RetrieveFinds, Retrieved
<1>2. ASSUME ask[q].calm, ask[q].phase = "retrieved"
      PROVE  \E i \in ask[q].found : i.id = v
  BY <1>2 DEF Searched, InForceFound
<1>3. ASSUME ask[q].calm, ask[q].phase \in {"resolved", "explained"}
      PROVE  \E i \in ask[q].valid : i.prov = p /\ version[v].from <= i.from
  BY <1>3 DEF Searched, InForceShown
<1>4. CASE \E r \in Provision : Expand(q, r)
  BY <1>2, <1>4, Expanded
<1>5. ASSUME Resolve(q)
      PROVE  \E i \in ask'[q].valid : i.prov = p /\ version[v].from <= i.from
  <2>1. PICK i \in ask[q].found : i.id = v
    BY <1>2, <1>5, Resolved
  <2>2. version[v] # None /\ version[v].status = "APPROVED"
    BY DEF Approved
  <2>3. Judged(i) = RowItem(v)
    BY <2>1, <2>2 DEF Judged
  <2>4. ReasonsOf(q, i) = {}
    BY <2>1, <2>2, <2>3 DEF ReasonsOf, StatusOf, Reasons, Covers, RowItem
  <2>5. RowItem(v) \in ValidItems(q)
    BY <2>1, <2>3, <2>4 DEF ValidItems
  <2>6. RowItem(v).prov = p /\ RowItem(v).from = version[v].from
    BY DEF RowItem
  <2>7. ask'[q].valid \in LatestOfEach(ValidItems(q))
    BY <1>5, Resolved
  <2> QED
    BY <2>5, <2>6, <2>7 DEF LatestOfEach
<1>6. CASE Resolve(q)
  BY <1>5, <1>6, Resolved
<1>7. CASE Explain(q)
  BY <1>3, <1>7, Explained
<1>8. CASE Refuse(q) \/ Generate(q) \/ Abstain(q)
  BY <1>8, Concluded
<1> QED
  BY <1>1, <1>4, <1>6, <1>7, <1>8 DEF Advance

\* A step of the knowledge base that publishes nothing hides nothing that was found.
LEMMA CalmStep ==
    ASSUME Sound, Sound', QueryTypeOK, Searched, KnowledgeStep, NEW q \in Question,
           ask'[q].calm, Cardinality(UndatedHits(q))' <= TopK
    PROVE  /\ ask'[q].phase = "retrieved" => InForceFound(q)'
           /\ ask'[q].phase \in {"resolved", "explained"} => InForceShown(q)'
<1>1. /\ version' = version /\ index' = index /\ ask[q].calm
      /\ ask'[q].phase = ask[q].phase /\ ask'[q].found = ask[q].found
      /\ ask'[q].valid = ask[q].valid
  BY KnowledgeFields
<1>2. UndatedHits(q)' = UndatedHits(q)
  BY <1>1 DEF UndatedHits, ChunkItem
<1>3. \A v \in VersionId : Approved(v)' <=> Approved(v)
  BY <1>1 DEF Approved
<1>4. \A v \in VersionId : SupersededTwice(v) => SupersededTwice(v)'
  BY <1>1, <1>3 DEF SupersededTwice
<1>5. \A v \in VersionId : Approved(v) /\ OutOfSync(v) => OutOfSync(v)'
  BY FlagStays DEF KnowledgeStep, Sound
<1>6. ask[q].phase = "retrieved" => InForceFound(q)
  BY <1>1, <1>2 DEF Searched
<1>7. ask[q].phase \in {"resolved", "explained"} => InForceShown(q)
  BY <1>1, <1>2 DEF Searched
<1> QED
  BY <1>1, <1>3, <1>4, <1>5, <1>6, <1>7 DEF InForceFound, InForceShown

\* What every search has found, in every reachable state.
LEMMA SearchedInvariance == QuerySpec => []Searched
<1>1. QueryInit => Searched
  BY DEF QueryInit, Searched
<1>2. /\ Sound /\ Sound' /\ Indexed /\ QueryTypeOK /\ Searched
      /\ [QueryNext]_queryVars
      => Searched'
  <2> SUFFICES ASSUME Sound, Sound', Indexed, QueryTypeOK, Searched,
                      [QueryNext]_queryVars
               PROVE  Searched'
    OBVIOUS
  <2> SUFFICES ASSUME NEW q \in Question, ask'[q].calm,
                      Cardinality(UndatedHits(q))' <= TopK
               PROVE  /\ ask'[q].phase = "retrieved" => InForceFound(q)'
                      /\ ask'[q].phase \in {"resolved", "explained"} => InForceShown(q)'
    BY DEF Searched
  <2>1. CASE KnowledgeStep
    BY <2>1, CalmStep
  <2>2. ASSUME vars' = vars
        PROVE  /\ UndatedHits(q)' = UndatedHits(q) /\ version' = version
               /\ \A v \in VersionId : /\ Approved(v)' <=> Approved(v)
                                       /\ SupersededTwice(v)' <=> SupersededTwice(v)
                                       /\ OutOfSync(v)' <=> OutOfSync(v)
    BY <2>2 DEF vars, db, UndatedHits, ChunkItem, Approved, SupersededTwice, OutOfSync
  <2>3. CASE Advance(q)
    <3>1. vars' = vars
      BY <2>3, AdvanceOthers
    <3>2. Cardinality(UndatedHits(q)) <= TopK
      BY <2>2, <3>1
    <3> QED
      BY <2>2, <2>3, <3>1, <3>2, SearchedStep DEF InForceFound, InForceShown
  <2>4. CASE vars' = vars /\ ask'[q] = ask[q]
    <3>1. /\ ask[q].phase = "retrieved" => InForceFound(q)
          /\ ask[q].phase \in {"resolved", "explained"} => InForceShown(q)
      BY <2>2, <2>4 DEF Searched
    <3> QED
      BY <2>2, <2>4, <3>1 DEF InForceFound, InForceShown
  <2>5. ASSUME NEW r \in Question, r # q, Advance(r) PROVE vars' = vars /\ ask'[q] = ask[q]
    BY <2>5, AdvanceOthers
  <2>6. UNCHANGED queryVars => vars' = vars /\ ask'[q] = ask[q]
    BY DEF queryVars
  <2> QED
    BY <2>1, <2>3, <2>4, <2>5, <2>6 DEF QueryNext
<1> QED
  BY <1>1, <1>2, KnowledgeInvariance, QueryTypeCorrect, PTL DEF QuerySpec

\* If nothing was published while a question was answered and TopK is no limit, what is in
\* force is among the evidence, or flagged, or was superseded twice.
THEOREM NothingIsMissed == QuerySpec => []NothingMissed
<1>1. Sound /\ Searched => NothingMissed
  <2> SUFFICES ASSUME Sound, Searched, NEW q \in Question,
                      ask[q].phase \in {"resolved", "explained"}, ask[q].calm,
                      Cardinality(UndatedHits(q)) <= TopK,
                      NEW p \in Matches[q], NEW v \in TL!InForceAt(p, DateOf[q])
               PROVE  \/ OutOfSync(v) \/ SupersededTwice(v)
                      \/ \E i \in ask[q].valid : i.prov = p /\ version[v].from <= i.from
    BY DEF NothingMissed
  <2>1. /\ v \in VersionId /\ Approved(v) /\ version[v].prov = p
        /\ version[v].from <= DateOf[q] /\ DateOf[q] < version[v].to
    BY InForceRows DEF Sound
  <2> QED
    BY <2>1 DEF Searched, InForceShown
<1> QED
  BY <1>1, KnowledgeInvariance, SearchedInvariance, PTL
=============================================================================
