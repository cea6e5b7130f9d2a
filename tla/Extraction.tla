----------------------------- MODULE Extraction ------------------------------
(***************************************************************************)
(* What an upload makes of a file (ingestion/service.py handle_upload,     *)
(* upload.py, legal_extract.py, entity_resolution.py, change_event.py):    *)
(* the provisions a language model lists, under the keys they are stored   *)
(* by, and the amending sentences, each taken to the provision its locator *)
(* names under some document number, or to a reviewer.                     *)
(*                                                                         *)
(* Lifecycle takes the provisions at the locator of an amendment as given  *)
(* (Candidates); here they are computed.  An upload runs to its commit in  *)
(* the event loop, one at a time.                                          *)
(***************************************************************************)
EXTENDS Naturals, Sequences

CONSTANTS
    Content,           \* contents, told apart by their SHA-256
    Number,         \* document numbers
    Article, Clause, Point,
    Piece,          \* pieces of 3500 characters a text is sent to the model in
    Missing,        \* no number, no clause, no point, no target
    NumberIn,       \* NumberIn[f]: the first document number in the text, or Missing
    Items,          \* Items[f]: the provisions in the text, by piece and address
    Sentences,      \* Sentences[f]: the amending sentences of the text
    MaxUploads      \* bound on the documents registered

Address == [article : Article, clause : Clause \cup {Missing},
            point : Point \cup {Missing}]

\* A locator as written: "Điểm a Khoản 2 Điều 7", "Khoản 2 Điều 7 Điểm a" or "Điều 7
\* Khoản 2 Điểm a"; Missing has no Điều.
Locator == [at : Address \cup {Missing},
            style : {"point first", "point last", "article first"}]

\* `dated': a date the pattern can read follows.
Sentence == [op : {"REPLACE_TEXT", "INSERT_TEXT", "DELETE_TEXT",
                   "REPEAL_PROVISION"},
             locator : Locator, dated : BOOLEAN]

\* `declared': uploaded as type AMENDMENT.
Row == [file : Content, number : Number \cup {Missing}, declared : BOOLEAN,
        approval : {"PENDING", "ARCHIVED"}]

\* A provision has an identity of its own, a piece and a place in it here; the key
\* it is looked up by is its document's number and its address.
ProvisionRow == [doc : 1..MaxUploads, piece : Piece, at : Address]

ASSUME ExtractionAssumption ==
    /\ NumberIn \in [Content -> Number \cup {Missing}]
    /\ Items \in [Content -> SUBSET (Piece \X Address)]
    /\ Sentences \in [Content -> SUBSET Sentence]
    /\ MaxUploads \in Nat
    /\ Missing \notin Number \cup Address \cup ProvisionRow

\* A change event and the task raised with it: CHANGE_EVENT_REVIEW if it has a
\* target, REFERENCE_REVIEW if not.  `under' is the number that was tried.
Event == [doc : 1..MaxUploads, sentence : Sentence,
          under : Number \cup {Missing}, target : ProvisionRow \cup {Missing}]

VARIABLES
    docs,           \* documents in the order of their registration
    provision,      \* provisions
    event           \* change_events

extractionVars == <<docs, provision, event>>

ExtractionInit ==
    /\ docs = <<>>
    /\ provision = {}
    /\ event = {}

-----------------------------------------------------------------------------
(* Locators *)

\* The clause is read only in front of Điều, the point only right behind it.
normalize_locator(l) ==
    IF l.at = Missing THEN Missing
    ELSE CASE l.style = "point first" -> [l.at EXCEPT !.point = Missing]
           [] l.style = "article first" /\ l.at.clause # Missing ->
                  [l.at EXCEPT !.clause = Missing, !.point = Missing]
           [] OTHER -> l.at

locator_to_text(at) == [at |-> at, style |-> "point first"]

\* _canon_locator
Canonical(l) ==
    IF normalize_locator(l) = Missing THEN l
                                   ELSE locator_to_text(normalize_locator(l))

\* The address that is looked up: the canonical text is parsed again.
Understood(s) == normalize_locator(Canonical(s.locator))

\* Levels, the article first.
LevelsUp(at) ==
    <<[at EXCEPT !.clause = Missing, !.point = Missing], [at EXCEPT !.point = Missing],
      at>>

\* The keys that are tried, the most specific first.
Levels(at) ==
    <<at, [at EXCEPT !.point = Missing],
      [at EXCEPT !.clause = Missing, !.point = Missing]>>

Stored(n, at, ds, ps) == {p \in ps : ds[p.doc].number = n /\ p.at = at}

\* resolve_locator_text: the rows at the first level that has any.
Resolved(n, s, ds, ps) ==
    IF Understood(s) = Missing THEN {}
    ELSE LET level == Levels(Understood(s))
             At(k) == Stored(n, level[k], ds, ps)
             hit == {k \in DOMAIN level : At(k) # {}}
         IN  UNION {At(k) : k \in {i \in hit : \A j \in hit : i <= j}}

-----------------------------------------------------------------------------
(* Amending sentences *)

\* Sentences that one of the four patterns of extract_amendments takes, with a
\* date: a repeal has Khoản or Điều right behind "Bãi bỏ".
Recognised(s) ==
    /\ s.dated
    /\ s.op = "REPEAL_PROVISION" =>
         /\ s.locator.at # Missing
         /\ ~(s.locator.style = "point first" /\ s.locator.at.point # Missing)

\* Only a text that is declared an amendment, or that has the word "thay", is
\* searched.
Searched(f, declared) ==
    declared \/ \E s \in Sentences[f] : s.op = "REPLACE_TEXT"

Amendments(f, declared) ==
    IF Searched(f, declared) THEN {s \in Sentences[f] : Recognised(s)} ELSE {}

\* _known_document_numbers, archived documents among them.
Numbers(ds) == {ds[d].number : d \in DOMAIN ds} \ {Missing}

\* Outcomes, going on after the target is found.
OutcomesAll(d, s, ds, ps) ==
    LET Found(n) == Resolved(n, s, ds, ps)
        Tried(n, p) == [doc |-> d, sentence |-> s, under |-> n, target |-> p]
    IN  {UNION {{Tried(n, p) : p \in IF Found(n) = {} THEN {Missing} ELSE Found(n)} :
                  n \in Numbers(ds) \cup {Missing}}}

\* Outcomes, without the attempt under no number.
OutcomesNumbered(d, s, ds, ps) ==
    LET Found(n) == Resolved(n, s, ds, ps)
        Tried(n, p) == [doc |-> d, sentence |-> s, under |-> n, target |-> p]
        hits == {h \in Numbers(ds) \X ps : h[2] \in Found(h[1])}
    IN  IF hits = {} THEN {{Tried(n, Missing) : n \in Numbers(ds)}}
                     ELSE {{Tried(h[1], h[2])} : h \in hits}

\* Events of one sentence: one for each number tried in vain, in any order, up to
\* the first under which its target is found.  No number is tried last.
Outcomes(d, s, ds, ps) ==
    LET Found(n) == Resolved(n, s, ds, ps)
        Tried(n, p) == [doc |-> d, sentence |-> s, under |-> n, target |-> p]
        vain == {n \in Numbers(ds) : Found(n) = {}}
        Missed(M) == {Tried(n, Missing) : n \in M}
        hits == {h \in Numbers(ds) \X ps : h[2] \in Found(h[1])}
    IN  {Missed(M) \cup {Tried(h[1], h[2])} : M \in SUBSET vain, h \in hits}
          \cup (IF vain = Numbers(ds)
                THEN {Missed(vain) \cup {Tried(Missing, p)} :
                        p \in IF Found(Missing) = {} THEN {Missing} ELSE Found(Missing)}
                ELSE {})

-----------------------------------------------------------------------------
(* Requests *)

\* find_by_hash
Registered(f) ==
    \E d \in DOMAIN docs : docs[d].file = f /\ docs[d].approval # "ARCHIVED"

\* The patterns first, the model for what they leave open.
NumbersFor(f) ==
    IF NumberIn[f] # Missing THEN {NumberIn[f]} ELSE Number \cup {Missing}

\* handle_upload of a file that is not registered.  The model lists what it finds,
\* nothing at all if it fails on one piece.
Upload(f, declared) ==
    /\ Len(docs) < MaxUploads
    /\ ~Registered(f)
    /\ \E number \in NumbersFor(f), found \in SUBSET Items[f] :
         LET d == Len(docs) + 1
             ds == Append(docs, [file |-> f, number |-> number,
                                 declared |-> declared, approval |-> "PENDING"])
             ps == provision \cup {[doc |-> d, piece |-> i[1], at |-> i[2]] :
                                     i \in found}
             todo == Amendments(f, declared)
             outcomes == [s \in todo |-> Outcomes(d, s, ds, ps)]
         IN  /\ docs' = ds
             /\ provision' = ps
             /\ \E o \in [todo -> UNION {outcomes[s] : s \in todo}] :
                  /\ \A s \in todo : o[s] \in outcomes[s]
                  /\ event' = event \cup UNION {o[s] : s \in todo}

\* delete_document; what the document brought stays.
Delete(d) ==
    /\ docs' = [docs EXCEPT ![d].approval = "ARCHIVED"]
    /\ UNCHANGED <<provision, event>>

ExtractionNext ==
    \/ \E f \in Content, declared \in BOOLEAN : Upload(f, declared)
    \/ \E d \in DOMAIN docs : Delete(d)

ExtractionSpec == ExtractionInit /\ [][ExtractionNext]_extractionVars

-----------------------------------------------------------------------------
(* Properties *)

EventsOf(d, s) == {e \in event : e.doc = d /\ e.sentence = s}

\* An amending sentence the patterns recognise is never dropped, and never applied
\* twice: it has an event, and at most one with a target, however many documents
\* of that address there are (_run_amendment_pipeline stops at the first).
QueuedOnce ==
    \A d \in DOMAIN docs : \A s \in Amendments(docs[d].file, docs[d].declared) :
        /\ EventsOf(d, s) # {}
        /\ \A e, x \in EventsOf(d, s) : e.target # Missing /\ x.target # Missing => e = x

\* Address a is b itself, or the clause or article that holds it.
Above(a, b) ==
    /\ a.article = b.article
    /\ a.clause \in {b.clause, Missing}
    /\ a.point \in {b.point, Missing}
    /\ a.point # Missing => a.clause = b.clause

\* What there was to find when event e was raised.
Findable(e) ==
    {p \in provision : /\ p.doc <= e.doc
                       /\ Understood(e.sentence) # Missing
                       /\ Above(p.at, Understood(e.sentence))}

\* What was known when event e was raised, at the address its sentence states or
\* above it.
Addressed(e) ==
    {p \in provision : /\ p.doc <= e.doc
                       /\ e.sentence.locator.at # Missing
                       /\ Above(p.at, e.sentence.locator.at)}

\* The two readings of the locator of s lose a part of the address of p: a point
\* always, as the canonical text has it in front; a clause that comes behind its
\* article.
OutOfReach(p, s) ==
    \/ p.at.point # Missing
    \/ p.at.clause # Missing /\ s.locator.style = "article first"

\* A sentence goes to a reviewer without a target only if every provision that was
\* known at the upload, of a document with a number or without one, and was at the
\* address stated or above it, is out of reach of the patterns: at a point, or at a
\* clause named behind the article.  (resolve_locator means to try the most specific
\* key first, and is not given these parts.)
NothingOverlooked ==
    \A e \in event :
        (\A x \in EventsOf(e.doc, e.sentence) : x.target = Missing)
            => \A p \in Addressed(e) : OutOfReach(p, e.sentence)

\* A target is at the address understood, or above it when the documents of that
\* number held nothing closer.
ResolvedClosest ==
    \A e \in event : e.target # Missing =>
        LET near == {p \in Findable(e) : docs[p.doc].number = e.under}
        IN  /\ e.target \in near
            /\ \A p \in near : Above(p.at, e.target.at)

\* The most specific key is tried first: an amendment that names a point is
\* attached to that point when the document it is resolved in has it
\* (resolve_locator).
PointsReached ==
    \A e \in event :
        /\ e.target # Missing
        /\ \E p \in provision : /\ p.doc <= e.doc
                                /\ docs[p.doc].number = e.under
                                /\ p.at = e.sentence.locator.at
        => e.target.at = e.sentence.locator.at
=============================================================================
