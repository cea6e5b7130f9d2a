---------------------------- MODULE MCExtraction -----------------------------
(* Instances of Extraction: a regulation with a number, one whose number only  *)
(* the model can find, and an amendment that quotes the number it amends.      *)
(* The functions of Text and Reading are compared with what they should give,  *)
(* on all short texts.                                                         *)
EXTENDS Extraction, FiniteSets, TLC

CONSTANTS base, other, first, second, None

At(clause, point) == [article |-> 7, clause |-> clause, point |-> point]
Says(op, at, style, dated) ==
    [op |-> op, dated |-> dated, locator |-> [at |-> at, style |-> style]]

MCNumberIn == (base :> "01") @@ (other :> Missing) @@ (first :> "01") @@ (second :> Missing)

MCItems == (base :> {<<1, At(Missing, Missing)>>, <<1, At(2, Missing)>>, <<2, At(2, "a")>>})
             @@ (other :> {<<1, At(2, Missing)>>, <<2, At(2, Missing)>>})
             @@ (first :> {<<1, At(Missing, Missing)>>})
             @@ (second :> {})

MCSentences ==
    (base :> {}) @@ (other :> {Says("DELETE_TEXT", At(3, Missing), "point last", TRUE)})
      @@ (first :> {Says("REPEAL_PROVISION", At(2, Missing), "point last", TRUE),
                    Says("REPLACE_TEXT", Missing, "point first", TRUE),
                    Says("REPEAL_PROVISION", At(2, "a"), "point first", TRUE)})
      @@ (second :> {Says("INSERT_TEXT", At(2, "a"), "point last", TRUE),
                     Says("DELETE_TEXT", At(2, Missing), "article first", TRUE),
                     Says("DELETE_TEXT", At(2, Missing), "point last", FALSE)})

-----------------------------------------------------------------------------
TX == INSTANCE Text WITH Space <- 0

Texts(n) == UNION {[1..k -> 0..2] : k \in 0..n}

\* A text that begins as it ends can be found where it overlaps itself.
OverlapsItself(t) ==
    \E k \in 1..(Len(t) - 1) : SubSeq(t, 1, k) = SubSeq(t, Len(t) - k + 1, Len(t))

\* An edit is made where the text is, with the rest as it was, and only if no other
\* place could have been meant.
ASSUME PatchEditsTheSpan ==
    \A c \in Texts(4), old \in Texts(2), new \in Texts(1) :
        LET p == TX!ApplyPatch(c, "REPLACE_TEXT", old, new)
        IN  /\ p.status = "OK" => \E i \in TX!Starts(c, old) :
                  p.content = SubSeq(c, 1, i - 1) \o TX!Strip(new)
                                \o SubSeq(c, i + Len(old), Len(c))
            /\ p.status = "OK" /\ ~OverlapsItself(old) =>
                  Cardinality(TX!Starts(c, old)) = 1
            /\ old # << >> /\ Cardinality(TX!Starts(c, old)) = 1 => p.status = "OK"

Words(t) == SelectSeq(t, LAMBDA w : w # 0)

\* A deletion takes nothing but the text and, anywhere in the provision, spaces.
ASSUME DeletionKeepsTheRest ==
    \A c \in Texts(4), old \in Texts(2) :
        LET p == TX!ApplyPatch(c, "DELETE_TEXT", old, None)
        IN  p.status = "OK" => \E i \in TX!Starts(c, old) :
                Words(p.content) = Words(SubSeq(c, 1, i - 1))
                                     \o Words(SubSeq(c, i + Len(old), Len(c)))

\* Sentences of the given lengths, no two words alike.
Phrases(lengths) ==
    [k \in DOMAIN lengths |-> [i \in 1..lengths[k] |-> 10 * k + i]]

\* No piece is longer than the limit, every word is in a piece, and the pieces are in
\* the order of the text.
ASSUME SplitLosesNothing ==
    \A lengths \in UNION {[1..n -> 1..7] : n \in 1..3} :
        LET sentences == Phrases(lengths)
            whole == Words(TX!Whole(sentences))
            pieces == [k \in DOMAIN TX!SplitLong(sentences, 5, 2) |->
                          Words(TX!SplitLong(sentences, 5, 2)[k])]
        IN  /\ \A k \in DOMAIN pieces : Len(TX!SplitLong(sentences, 5, 2)[k]) <= 5
            /\ \A i \in DOMAIN whole : \E k \in DOMAIN pieces, j \in 1..5 :
                  j \in DOMAIN pieces[k] /\ pieces[k][j] = whole[i]
            /\ \A k \in DOMAIN pieces : pieces[k] # << >> =>
                  \E i \in DOMAIN whole :
                     pieces[k] = SubSeq(whole, i, i + Len(pieces[k]) - 1)

Lines(kinds) == [k \in DOMAIN kinds |-> [kind |-> kinds[k], no |-> k, text |-> <<k>>]]

\* What stands below an article, up to the next chapter, is in one provision, in
\* order; what stands elsewhere is dropped.
ASSUME ParseKeepsArticles ==
    \A kinds \in [1..5 -> TX!LineKind] :
        LET out == TX!ParseStructure(Lines(kinds))
            below(i) == \E a \in 1..(i - 1) :
                            kinds[a] = "article" /\ \A j \in a..i : kinds[j] # "chapter"
            kept == {i \in 1..5 : kinds[i] # "article" /\ below(i)}
        IN  TX!FlattenSeq([k \in DOMAIN out |-> out[k].lines])
              = TX!SetToSortSeq(kept, LAMBDA i, j : i < j)
-----------------------------------------------------------------------------
RD == INSTANCE Reading

Spoken(words, n) == UNION {[1..k -> words] : k \in 0..n}

\* "khong" put in front of every "duoc" and "phai".
Negated(text) ==
    TX!FlattenSeq([k \in DOMAIN text |-> IF text[k] \in {"duoc", "phai"}
                                         THEN <<"khong", text[k]>> ELSE <<text[k]>>])

\* What is forbidden is never read as allowed or as a duty, whatever words of those it
\* holds; but what is "not obligatory" is read as a duty.
ASSUME NegationsAreRead ==
    /\ \A text \in Spoken({"khong", "duoc", "phep", "phai", "chi"}, 4) :
          RD!DetectModality(text) # None =>
              RD!DetectModality(Negated(text)) = "PROHIBITION"
    /\ RD!DetectModality(<<"khong", "bat", "buoc">>) = "OBLIGATION"

Values(n) == UNION {[1..k -> {RD!Money(5), RD!Money(7), RD!Term(12)}] : k \in 0..n}

\* An amount is compared with others only if it is one of money, and never one that
\* stands behind a period or a percentage.
ASSUME OnlyMoneyIsCompared ==
    \A values \in Values(3) :
        LET o == RD!ExtractObligation(<<"phai">>, values)
        IN  /\ o.normalized # None <=> values # << >> /\ values[1].money
            /\ (o.value = None) <=> (values = << >>)

Word(says, at) == [says |-> says, at |-> at]
Sayings == {Word("trigger", None), Word("other", None)}
             \cup {Word("address", [article |-> a, clause |-> c]) :
                     a \in {"7", "8"}, c \in {None, "2"}}

\* An address that is announced is reported once, unless it is where the text itself
\* stands; without an announcement nothing is.
ASSUME ReferencesAreElsewhere ==
    \A text \in Spoken(Sayings, 4), clause \in {None, "2"} :
        LET self == [article |-> "7", clause |-> clause]
            refs == RD!CrossReferences(text, self, 2)
            announced == {text[i].at : i \in {j \in 2..Len(text) :
                            /\ text[j].says = "address"
                            /\ Word("trigger", None) \in
                                 {text[k] : k \in {j - 1} \cup ({j - 2} \ {0})}}}
        IN  /\ {refs[k] : k \in DOMAIN refs}
                 = announced \ {self, [article |-> "7", clause |-> None]}
            /\ \A i, j \in DOMAIN refs : refs[i] = refs[j] => i = j

Row1(kind, page) == [kind |-> kind, page |-> page, bold |-> FALSE]
Rows == UNION {[1..n -> {Row1("text", 1), Row1("blank", 1), Row1("marker", 2),
                         Row1("marker", None)}] : n \in 0..3}
Pages(blocks, default) ==
    [k \in DOMAIN blocks |-> IF blocks[k].page = 1 THEN default ELSE blocks[k].page]
PagesOf(rows) == Pages(RD!BlocksFromText(rows), 1)

\* A marker begins its page and nothing else: what follows is read as if the text began
\* there.
ASSUME PagesFollowMarkers ==
    \A above, below \in Rows :
        PagesOf(above \o <<Row1("marker", 3)>> \o below)
            = PagesOf(above) \o Pages(RD!BlocksFromText(below), 3)

Known == [number : {None, "01"}, issued : {None, 1}, from : {None, 1}]

\* The model never changes what the patterns found, and a document takes effect on a day
\* that its text or the model names or on the default.  A date that does not stand
\* behind the first word that announces one is not the text's.
ASSUME ModelFillsGaps ==
    /\ \A found \in Known, data \in Known \cup {None} :
          LET e == RD!Enhanced(found, data)
          IN  /\ \A f \in RD!Field : found[f] # None => e[f] = found[f]
              /\ RD!DocValidFrom(e) \in
                   IF found.from # None THEN {found.from}
                   ELSE {RD!DefaultFrom} \cup (IF data = None THEN {} ELSE {data.from})
    /\ RD!DocValidFrom(RD!Metadata([numbers |-> << >>, issued |-> << >>,
                                    from |-> <<None, 1>>])) = RD!DefaultFrom

\* One piece that fails takes the provisions of all others with it.
ASSUME OnePieceLosesAll ==
    \A answers \in UNION {[1..n -> {<< >>, <<"p">>, <<"p", "q">>}] : n \in 0..2},
       i \in 0..2 : i <= Len(answers) =>
        /\ RD!LlmProvisions(SubSeq(answers, 1, i) \o <<None>>
                              \o SubSeq(answers, i + 1, Len(answers))) = << >>
        /\ Len(RD!LlmProvisions(answers))
             = Cardinality({<<k, j>> \in (1..2) \X (1..2) :
                   k \in DOMAIN answers /\ j \in DOMAIN answers[k]})

Dated == [op : {"REPLACE_TEXT", "INSERT_TEXT", "REPEAL_PROVISION"}, from : {None, 1},
          no : 1..2]

\* Every dated sentence is an amendment, once; those of one kind keep their order, but
\* replacements go before insertions and these before repeals wherever they stand.
ASSUME AmendmentsByKind ==
    \A text \in UNION {[1..n -> Dated] : n \in 0..3} :
        LET found == RD!ExtractAmendments(text)
            place(s) == CHOOSE k \in DOMAIN RD!Kinds : RD!Kinds[k] = s.op
        IN  /\ Len(found) = Cardinality({i \in DOMAIN text : text[i].from # None})
            /\ \A i, j \in DOMAIN found : i < j => place(found[i]) <= place(found[j])
            /\ \A op \in {s.op : s \in Dated} :
                  RD!AmendmentsOfKind(found, op) = RD!AmendmentsOfKind(text, op)

\* Every file that is accepted is read somehow, one that its library cannot open as
\* text.
ASSUME AcceptedIsRead ==
    \A file \in [ext : {".pdf", ".docx", ".txt", ".md"}, size : 0..2, opens : BOOLEAN] :
        /\ RD!Refusal(file, 1) = None <=> file.ext # ".md" /\ file.size = 1
        /\ RD!Extractor(file) # "text" => file.opens
        /\ LET rows == <<Row1("text", 1), Row1("marker", 2), Row1("blank", 1)>>
           IN  Len(RD!BlocksFromFile(".pdf", rows)) = Len(RD!BlocksFromText(rows)) + 1

-----------------------------------------------------------------------------
CP == INSTANCE Corpus WITH Window <- 1
TS == INSTANCE Text WITH Space <- " "

Pair(n, dieu, khoan) ==
    [amender |-> <<"amender", n>>, target |-> <<"target", n>>, amenderDate |-> 2,
     targetDate |-> 1, dieu |-> dieu, khoan |-> khoan, topic |-> "topic",
     old |-> "old", new |-> "new"]

\* The documents made up for the demonstration do what they are for: the sentence in the
\* second meets one provision of the first, has one place in it to change, and takes
\* effect later; two such pairs make a corpus ready.
ASSUME PairsAmend ==
    /\ \A dieu, khoan \in 1..3 :
          LET p == Pair(1, dieu, khoan)
              found == RD!ExtractAmendments(RD!AmenderSentences(p))
              rows == TS!ParseStructure(RD!TargetLines(p))
              at == {k \in DOMAIN rows : rows[k].at.article = found[1].at.article
                                         /\ rows[k].at.clause = found[1].at.clause}
          IN  /\ Len(found) = 1 /\ Cardinality(at) = 1
              /\ \A k \in at :
                    LET patch == TS!ApplyPatch(rows[k].lines, found[1].op,
                                               <<found[1].old>>, <<found[1].new>>)
                    IN  patch.status = "OK"
                        /\ \E i \in DOMAIN patch.content : patch.content[i] = p.new
              /\ RD!Metadata(RD!TargetText(p)).from < found[1].from
              /\ RD!Metadata(RD!AmenderText(p)).number = p.amender
    /\ \A n \in 1..3 :
          LET items == RD!Build({Pair(i, i, 1) : i \in 1..n})
          IN  /\ CP!DemoReady({items}) <=> n >= 2
              /\ CP!DanglingEdges(items) = {}
=============================================================================
