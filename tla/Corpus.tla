------------------------------- MODULE Corpus -------------------------------
(***************************************************************************)
(* What is made of the items that were crawled: the relations that a       *)
(* source reads out of an address or a title (crawl/sources), the graph of *)
(* documents (crawl/to_ingestion.py) and the audit that decides whether    *)
(* the corpus will do (crawl/audit.py).  Functions of their arguments.     *)
(*                                                                         *)
(* A slug or a title is a sequence of words that matter: document numbers  *)
(* and cues.  An item is a record [source, number, relations, text],       *)
(* where `text' tells whether its text reads like clauses.                 *)
(***************************************************************************)
EXTENDS Naturals, FiniteSets, Sequences

CONSTANTS
    Number,         \* document numbers, none of them a Cue
    Window,         \* how many words vbpl looks back for a cue, a natural number
    None

AmendingCue == {"sua-doi", "bo-sung", "dinh-chinh"}
ReplacingCue == {"thay-the", "bai-bo"}
Cue == AmendingCue \cup ReplacingCue \cup {"huong-dan", "het-hieu-luc", "boi", "hop-nhat"}

Word == Number \cup Cue

Relation(type, target) == [type |-> type, target |-> target]

-----------------------------------------------------------------------------
(* vbpl                                                                       *)

Positions(words) == {i \in 1..Len(words) : words[i] \in Number}

First(S) == CHOOSE i \in S : \A j \in S : i <= j

\* The cues before position i that vbpl sees: those of an earlier number too, when
\* they are near enough.
Before(words, i) ==
    {words[j] : j \in {k \in 1..(i - 1) : k + Window >= i}} \cap Cue

\* _classify_relation: the first of these kinds that is there, wherever its cue
\* stands.  "boi", by, turns the relation round.
Classified(cues) ==
    LET turned == "boi" \in cues
    IN  IF cues \cap ReplacingCue # {}
            THEN IF turned THEN "SUPERSEDED_BY" ELSE "SUPERSEDES"
        ELSE IF cues \cap AmendingCue # {} THEN IF turned THEN "AMENDED_BY" ELSE "AMENDS"
        ELSE IF "huong-dan" \in cues THEN IF turned THEN "GUIDED_BY" ELSE "GUIDES"
        ELSE IF "het-hieu-luc" \in cues THEN "EXPIRES" ELSE "RELATED"

\* Every number but the first is that of a related document, the own number included
\* when it comes again.
VbplRelations(words) ==
    {Relation(Classified(Before(words, i)), words[i]) :
        i \in {j \in Positions(words) : \E k \in Positions(words) : k < j}}

-----------------------------------------------------------------------------
(* thuvienphapluat                                                            *)

\* The cues in the order in which they are tried, and what each says.
Tried == <<"sua-doi", "bo-sung", "thay-the", "bai-bo", "huong-dan", "dinh-chinh">>

TypeOf(cue) == IF cue \in AmendingCue THEN "AMENDS"
               ELSE IF cue \in ReplacingCue THEN "SUPERSEDES" ELSE "GUIDES"

\* The first number after the first mark of a cue.
TargetOf(words, cue) ==
    LET at == First({i \in 1..Len(words) : words[i] = cue})
        after == {i \in Positions(words) : i > at}
    IN  IF after = {} THEN None ELSE words[First(after)]

\* One relation for each cue, and one for each target: the cue tried first has it.
TvplRelations(words) ==
    LET cues == {c \in DOMAIN Tried : \E i \in 1..Len(words) : words[i] = Tried[c]}
        target(c) == TargetOf(words, Tried[c])
    IN  {Relation(TypeOf(Tried[c]), target(c)) :
            c \in {d \in cues : target(d) = None
                               \/ \A e \in cues : e < d => target(e) # target(d)}}

-----------------------------------------------------------------------------
(* sbv                                                                        *)

\* The number an item goes by: the first that its title or slug has.
OwnNumber(words) == IF Positions(words) = {} THEN None
                    ELSE words[First(Positions(words))]

\* One type for a whole title, and no relation to the document itself.
SbvRelations(words) ==
    LET cues == {words[i] : i \in 1..Len(words)}
                \cap (AmendingCue \cup ReplacingCue \cup {"hop-nhat"})
        type == IF cues \cap ReplacingCue # {} THEN "SUPERSEDES" ELSE "AMENDS"
    IN  IF cues = {} THEN {}
        ELSE {Relation(type, words[i]) : i \in Positions(words)}
             \ {Relation(type, OwnNumber(words))}

-----------------------------------------------------------------------------
(* to_ingestion.build_graph                                                   *)

Known(items) == {i.number : i \in items} \ {None}

\* The label of an edge and whether it runs from the target.
EdgeFor(type) ==
    CASE type \in {"AMENDS", "SUPERSEDES", "EXPIRES"} -> <<"SUPERSEDES", FALSE>>
      [] type \in {"AMENDED_BY", "SUPERSEDED_BY"} -> <<"SUPERSEDES", TRUE>>
      [] OTHER -> <<"REFERENCES", FALSE>>

\* The relations that name a target, each with the item it is from.
Related(items) ==
    UNION {{[of |-> i, rel |-> r] : r \in {s \in i.relations : s.target # None}} :
              i \in items}

EdgeOf(from, r) ==
    LET label == EdgeFor(r.type)[1]
        reversed == EdgeFor(r.type)[2]
    IN  IF reversed THEN <<r.target, label, from>> ELSE <<from, label, r.target>>

\* Items without a number are left out; targets that were not crawled become stubs.
Edges(items) == 
    {EdgeOf(x.of.number, x.rel) : x \in {y \in Related(items) : y.of.number # None}}

Stubs(items) == 
    {x.rel.target : x \in {y \in Related(items) : y.of.number # None}} \ Known(items)

Documents(items) == Known(items) \cup Stubs(items)

-----------------------------------------------------------------------------
(* audit                                                                      *)

\* _classify: what a source delivers.
Classify(items) ==
    LET n == Cardinality(items)
        clauses == Cardinality({i \in items : i.text})
        half == IF n \div 2 > 2 THEN n \div 2 ELSE 2
    IN  CASE n = 0 -> "blocked"
          [] n > 0 /\ clauses >= half -> "text_ok"
          [] clauses > 0 /\ clauses < half -> "text_partial"
          [] n > 0 /\ clauses = 0 /\ (\E i \in items : i.relations # {}) ->
                "relations_only"
          [] OTHER -> "metadata_only"

\* amendment_pairs does not ask for the number of the item the relation is from.
CompletePairs(items) == {x \in Related(items) : x.rel.target \in Known(items)}
DanglingEdges(items) == Related(items) \ CompletePairs(items)

\* build_registry: one source with text and two complete pairs.
DemoReady(sources) ==
    /\ \E items \in sources : Classify(items) \in {"text_ok", "text_partial"}
    /\ Cardinality(CompletePairs(UNION sources)) >= 2
=============================================================================
