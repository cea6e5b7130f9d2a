-------------------------------- MODULE Text --------------------------------
(***************************************************************************)
(* What is done to the text of a provision: an amendment edits it          *)
(* (ingestion/patch.py), a long one is cut into pieces for the index       *)
(* (ingestion/chunking.py), and a document is parsed into provisions by    *)
(* its headings (ingestion/structure_parser.py).  Functions of their       *)
(* arguments; a text is a sequence, Space one of its members.              *)
(***************************************************************************)
EXTENDS Integers, Sequences, SequencesExt, FiniteSets, FiniteSetsExt

CONSTANTS Space, None

-----------------------------------------------------------------------------
(* Sequences as Python's strings                                              *)

Black(s) == {i \in DOMAIN s : s[i] # Space}

Strip(s) == IF Black(s) = {} THEN << >> ELSE SubSeq(s, Min(Black(s)), Max(Black(s)))

\* " ".join(s.split())
Collapse(s) ==
    LET t == Strip(s)
        kept == {i \in DOMAIN t : t[i] = Space => t[i - 1] # Space}
    IN  [k \in 1..Cardinality(kept) |->
            t[CHOOSE i \in kept : Cardinality({j \in kept : j <= i}) = k]]

Starts(s, old) ==
    {i \in 1..(Len(s) - Len(old) + 1) : SubSeq(s, i, i + Len(old) - 1) = old}

\* str.count: matches are taken from the left and do not overlap.
Matches(s, old) ==
    LET taken[i \in 0..Len(s)] ==
            IF i = 0 THEN {}
            ELSE IF i \in Starts(s, old) /\ \A j \in taken[i - 1] : j + Len(old) <= i
                 THEN taken[i - 1] \cup {i} ELSE taken[i - 1]
    IN  taken[Len(s)]

-----------------------------------------------------------------------------
(* apply_patch                                                                *)

Operation == {"REPLACE_TEXT", "INSERT_TEXT", "DELETE_TEXT", "REPEAL_PROVISION"}

Patched(content) == [status |-> "OK", content |-> content]
NeedsReview == [status |-> "NEEDS_REVIEW", content |-> None]

Insert(content, new) ==
    LET gap == IF content = << >> \/ content[Len(content)] = Space THEN << >>
               ELSE <<Space>>
    IN  IF new = << >> THEN NeedsReview
        ELSE Patched(Strip(content \o gap \o Strip(new)))

\* The match in content, replaced.
Splice(content, old, new) ==
    LET i == Min(Matches(content, old))
    IN  SubSeq(content, 1, i - 1) \o new \o SubSeq(content, i + Len(old), Len(content))

Unique(content, old) == old # << >> /\ Cardinality(Matches(content, old)) = 1

ApplyPatch(content, op, old, new) ==
    CASE op = "REPEAL_PROVISION" -> Patched(<< >>)
      [] op = "INSERT_TEXT" -> Insert(content, new)
      [] op = "REPLACE_TEXT" ->
            IF Unique(content, old) THEN Patched(Splice(content, old, Strip(new)))
            ELSE NeedsReview
      [] op = "DELETE_TEXT" ->
            IF Unique(content, old) THEN Patched(Collapse(Splice(content, old, << >>)))
            ELSE NeedsReview

-----------------------------------------------------------------------------
(* _split_long                                                                *)

EndOf(s, n) == SubSeq(s, IF Len(s) > n THEN Len(s) - n + 1 ELSE 1, Len(s))

Joined(s, t) == Strip(s \o <<Space>> \o t)

\* One sentence more: it joins the piece being filled, or begins one that repeats the
\* end of the last.
Pack(state, sentence, max, overlap) ==
    IF state.buf # << >> /\ Len(state.buf) + 1 + Len(sentence) > max
    THEN [pieces |-> Append(state.pieces, Strip(state.buf)),
          buf |-> Joined(EndOf(state.buf, overlap), sentence)]
    ELSE [pieces |-> state.pieces, buf |-> Joined(state.buf, sentence)]

\* The hard wrap of a piece that is still too long.
Wrap(piece, max, overlap) ==
    IF Len(piece) <= max THEN <<piece>>
    ELSE LET step == max - overlap
             n == (Len(piece) + step - 1) \div step
         IN  [k \in 1..n |-> SubSeq(piece, (k - 1) * step + 1,
                                    IF (k - 1) * step + max < Len(piece)
                                    THEN (k - 1) * step + max ELSE Len(piece))]

Whole(sentences) ==
    FoldLeft(LAMBDA whole, s : IF whole = << >> THEN s ELSE whole \o <<Space>> \o s,
             << >>, sentences)

SplitLong(sentences, max, overlap) ==
    IF Len(Whole(sentences)) <= max THEN <<Whole(sentences)>>
    ELSE LET packed == FoldLeft(LAMBDA state, s : Pack(state, s, max, overlap),
                                [pieces |-> << >>, buf |-> << >>], sentences)
             pieces == IF packed.buf = << >> THEN packed.pieces
                       ELSE Append(packed.pieces, packed.buf)
         IN  FlattenSeq([k \in DOMAIN pieces |-> Wrap(pieces[k], max, overlap)])

\* build_chunks_for_version: all chunks of a version share what identifies it.
ChunksFor(version, sentences, max, overlap) ==
    LET texts == SplitLong(sentences, max, overlap)
    IN  [k \in DOMAIN texts |-> [chunk |-> k, version |-> version, content |-> texts[k]]]

-----------------------------------------------------------------------------
(* parse_structure                                                            *)

\* A line is a heading or not, with its number, and has text.
LineKind == {"chapter", "article", "clause", "point", "body"}

Start(state, where, text) ==
    [state EXCEPT !.where = where, !.open = [at |-> where, lines |-> text]]

\* A provision is kept if it has any text.
Flush(state) ==
    [state EXCEPT !.out = IF state.open = None \/ state.open.lines = << >> THEN @
                          ELSE Append(@, state.open),
                  !.open = None]

Nowhere == [chapter |-> None, article |-> None, clause |-> None, point |-> None]

\* One line: it opens a chapter, article, clause or point where it may, and otherwise
\* continues what is open.  A heading that has no place is body text.
Read(state, line) ==
    LET w == state.where
        opens(where) == Start(Flush(state), where, line.text)
    IN  CASE line.kind = "chapter" ->
                [Flush(state) EXCEPT !.where = [Nowhere EXCEPT !.chapter = line.no]]
          [] line.kind = "article" ->
                Start(Flush(state), [w EXCEPT !.article = line.no, !.clause = None,
                                              !.point = None], << >>)
          [] line.kind = "point" /\ w.clause # None ->
                opens([w EXCEPT !.point = line.no])
          [] line.kind = "clause" /\ w.article # None ->
                opens([w EXCEPT !.clause = line.no, !.point = None])
          [] OTHER ->
                IF state.open # None
                THEN [state EXCEPT !.open.lines = @ \o line.text]
                ELSE IF w.article # None THEN Start(state, w, line.text) ELSE state

ParseStructure(lines) ==
    Flush(FoldLeft(Read, [where |-> Nowhere, open |-> None, out |-> << >>], lines)).out
=============================================================================
