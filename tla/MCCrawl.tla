------------------------------ MODULE MCCrawl -------------------------------
(* An instance of Crawl: two listings, the first of them a page in its own    *)
(* right to shb, and two pages, one of them with a PDF file.  The functions   *)
(* of Corpus are compared with what they should give, on all short slugs and  *)
(* all small corpora.                                                         *)
EXTENDS Crawl, TLC

CONSTANTS home, list, a, b, file

MCPdfOf == (a :> file) @@ (b :> None) @@ (list :> None)
MCListings == <<home, list>>
MCLinksOf == (home :> <<b>>) @@ (list :> <<b, a>>)

-----------------------------------------------------------------------------
CP == INSTANCE Corpus WITH Number <- {"n1", "n2"}, Window <- 2

Slugs == UNION {[1..n -> CP!Word] : n \in 0..3}

\* sbv relates no document to itself, thuvienphapluat relates it to a target once.
ASSUME RelationsOnce ==
    \A w \in Slugs :
        /\ \A r \in CP!SbvRelations(w) : r.target # CP!OwnNumber(w)
        /\ \A r, s \in CP!TvplRelations(w) : r.target = s.target => r = s \/ r.target = None

\* A slug that says one thing is read alike by the three sources.
ASSUME SourcesAgree ==
    \A cue \in CP!AmendingCue \cup CP!ReplacingCue :
        LET w == <<"n1", cue, "n2">>
        IN  CP!VbplRelations(w) = CP!SbvRelations(w)
            /\ CP!SbvRelations(w) = CP!TvplRelations(w)

\* The graph has one edge for a change, whichever of the two documents tells of it.
ASSUME SidesAgree ==
    \A cue \in CP!AmendingCue \cup CP!ReplacingCue :
        LET told == CP!VbplRelations(<<"n1", cue, "n2">>)
            heard == CP!VbplRelations(<<"n2", cue, "boi", "n1">>)
        IN  \A r \in told, s \in heard : CP!EdgeOf("n1", r) = CP!EdgeOf("n2", s)

Crawled == [source : {"vbpl", "hybrid"}, number : {"n1", "n2", None},
            relations : {{}, {CP!Relation("AMENDS", "n2")}, {CP!Relation("AMENDS", None)},
                         {CP!Relation("AMENDED_BY", "n1")}},
            text : {TRUE}]
Corpora == {S \in SUBSET Crawled : Cardinality(S) <= 2}

\* Every edge joins two documents; what is no stub was crawled.
ASSUME EdgesJoinDocuments ==
    \A S \in Corpora : \A e \in CP!Edges(S) :
        {e[1], e[3]} \subseteq CP!Documents(S)
        /\ (e[1] \in CP!Stubs(S) \/ e[3] \in CP!Stubs(S)
            <=> \E x \in CP!DanglingEdges(S) :
                   x.of.number # None /\ CP!EdgeOf(x.of.number, x.rel) = e)

\* The audit's complete pairs are the edges between crawled documents, as long as
\* every item has a number.
ASSUME PairsAreEdges ==
    \A S \in Corpora : (\A i \in S : i.number # None) =>
        {CP!EdgeOf(x.of.number, x.rel) : x \in CP!CompletePairs(S)}
            = {e \in CP!Edges(S) : {e[1], e[3]} \subseteq CP!Known(S)}

\* A corpus that is ready for the demonstration has text and two relations.
ASSUME ReadyHasPairs ==
    \A S \in Corpora : CP!DemoReady({S, {}}) =>
        (\E i \in S : i.text) /\ Cardinality(CP!Related(S)) >= 2
=============================================================================
