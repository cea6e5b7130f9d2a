------------------------------- MODULE Stores -------------------------------
(***************************************************************************)
(* The two stores beside the database, each with two backends behind one   *)
(* interface: the search index (infra/opensearch_client.py) on OpenSearch  *)
(* or in memory, and the graph (infra/neo4j_client.py) on Neo4j or in      *)
(* memory.  Functions of their arguments.                                  *)
(*                                                                         *)
(* An index is a set of chunks [id, doc, approved, from, to], no two with  *)
(* one id; a graph is a record [label, edges], `label' of every node.      *)
(***************************************************************************)
EXTENDS Naturals, FiniteSets

CONSTANT None

-----------------------------------------------------------------------------
(* The search index                                                           *)

\* index_chunk: the chunk of that id is replaced.
IndexChunk(index, chunk) == {c \in index : c.id # chunk.id} \cup {chunk}

DeleteDocument(index, doc) == {c \in index : c.doc # doc}

\* The filter in memory; a filter that is None or empty lets everything through.
Passes(c, filters) ==
    /\ filters.approved => c.approved
    /\ filters.at # None =>
         /\ c.from # None => c.from <= filters.at
         /\ c.to # None => filters.at < c.to
    /\ filters.docs # {} => c.doc \in filters.docs

\* The clauses for OpenSearch: a range is not met by a field that is missing.
Clauses(c, filters) ==
    /\ filters.approved => c.approved
    /\ filters.at # None =>
         /\ c.from # None /\ c.from <= filters.at
         /\ c.to = None \/ c.to > filters.at
    /\ filters.docs # {} => c.doc \in filters.docs

\* The k best of S by score, ties broken as the backend likes.
Best(S, score, k) ==
    {T \in SUBSET S :
        /\ Cardinality(T) = (IF Cardinality(S) < k THEN Cardinality(S) ELSE k)
        /\ \A c \in T, d \in S \ T : score[c.id] >= score[d.id]}

\* Words in common make a match in memory.
Bm25Memory(index, score, filters, k) ==
    Best({c \in index : Passes(c, filters) /\ score[c.id] > 0}, score, k)
KnnMemory(index, score, filters, k) ==
    Best({c \in index : Passes(c, filters)}, score, k)

Bm25OpenSearch(index, score, filters, k) ==
    Best({c \in index : Clauses(c, filters) /\ score[c.id] > 0}, score, k)

-----------------------------------------------------------------------------
(* The graph                                                                  *)

Rel == {"CONTAINS", "HAS_VERSION", "DECLARES", "TARGETS", "BEFORE", "AFTER",
        "SUPERSEDES", "REFERENCES", "ALIGNED_TO", "POTENTIALLY_CONFLICTS_WITH"}

Nodes(g) == DOMAIN g.label

UpsertNode(g, n, label) ==
    [g EXCEPT !.label = [m \in Nodes(g) \cup {n} |-> IF m = n THEN label ELSE g.label[m]]]

\* In memory an edge makes the nodes it joins, in Neo4j it wants them.
UpsertEdgeMemory(g, src, dst, rel) ==
    [label |-> [m \in Nodes(g) \cup {src, dst} |->
                   IF m \in Nodes(g) THEN g.label[m] ELSE "Node"],
     edges |-> g.edges \cup {<<src, rel, dst>>}]
UpsertEdgeNeo4j(g, src, dst, rel) ==
    [g EXCEPT !.edges = IF {src, dst} \subseteq Nodes(g) THEN @ \cup {<<src, rel, dst>>}
                        ELSE @]

Out(g, S, rel) == {d \in Nodes(g) : \E s \in S : <<s, rel, d>> \in g.edges}
In(g, S, rel) == {s \in Nodes(g) : \E d \in S : <<s, rel, d>> \in g.edges}

\* expand in memory: so many hops along references.
Reached(g, S, hops) ==
    LET after[n \in 0..hops] ==
            IF n = 0 THEN S ELSE after[n - 1] \cup Out(g, after[n - 1], "REFERENCES")
    IN  after[hops]

ReferenceEdges(g, S) == {e \in g.edges : e[1] \in S /\ e[2] = "REFERENCES"}

Changes(g, S) == {<<ce, p>> \in Nodes(g) \X S : <<ce, "TARGETS", p>> \in g.edges}

Expansion(reached, references, changes) ==
    [reached |-> reached, references |-> references, changes |-> changes]

ExpandMemory(g, S, hops) ==
    Expansion(Reached(g, S, hops),
              IF hops = 0 THEN {} ELSE ReferenceEdges(g, Reached(g, S, hops - 1)),
              Changes(g, S))

\* One hop, whatever was asked for, and between provisions only.
ExpandNeo4j(g, S, hops) ==
    LET refs == {e \in ReferenceEdges(g, S) : g.label[e[1]] = "Provision"
                                          /\ g.label[e[3]] = "Provision"}
    IN  Expansion(S \cup {e[3] : e \in refs}, refs,
                  {c \in Changes(g, S) : g.label[c[1]] = "ChangeEvent"
                                         /\ g.label[c[2]] = "Provision"})

VersionChain(g, p) == Out(g, {p}, "HAS_VERSION")

Neighbours(g, S) ==
    UNION {{e[1], e[3]} : e \in {f \in g.edges : {f[1], f[3]} \cap S # {}}}

\* subgraph in memory: the nodes up to `depth' edges away, and every edge at one of
\* them.
Around(g, n, depth) ==
    LET within[d \in 0..depth] ==
            IF d = 0 THEN {n} \cap Nodes(g)
            ELSE within[d - 1] \cup Neighbours(g, within[d - 1])
    IN  within[depth]

SubgraphMemory(g, n, depth) ==
    LET nodes == Around(g, n, depth)
    IN  [nodes |-> nodes, edges |-> {e \in g.edges : {e[1], e[3]} \cap nodes # {}}]

\* In Neo4j an edge is on a path of at most `depth' edges from the node, and a node is
\* shown for an edge of such a path.
SubgraphNeo4j(g, n, depth) ==
    LET edges == IF depth = 0 THEN {}
                 ELSE {e \in g.edges : {e[1], e[3]} \cap Around(g, n, depth - 1) # {}}
    IN  [nodes |-> UNION {{e[1], e[3]} : e \in edges}, edges |-> edges]
=============================================================================
