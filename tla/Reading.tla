------------------------------ MODULE Reading -------------------------------
(***************************************************************************)
(* What is read off a file before a reviewer sees it: whether it is        *)
(* accepted (ingestion/upload.py), its lines (ingestion/pdf_extract.py,    *)
(* service.py _blocks_from_bytes), its number and its dates, and what a    *)
(* provision says (ingestion/legal_extract.py); and the texts of           *)
(* crawl/hybrid_pairs.py, made to be read by it.  Functions of their       *)
(* arguments.  Addresses and the order of lookup are in Extraction.        *)
(*                                                                         *)
(* A text is a sequence of words, given without their accents.             *)
(***************************************************************************)
EXTENDS Integers, Sequences, FiniteSets, FiniteSetsExt

CONSTANT None

-----------------------------------------------------------------------------
(* Files                                                                      *)

Allowed == {".pdf", ".docx", ".txt"}
DocumentType == {"REGULATION", "AMENDMENT", "INTERNAL_POLICY"}

\* validate_file: why a file is refused, None if it is not.
Refusal(file, max) ==
    CASE file.ext \notin Allowed -> "type"
      [] file.ext \in Allowed /\ file.size > max -> "too large"
      [] file.ext \in Allowed /\ file.size = 0 -> "empty"
      [] OTHER -> None

CoerceType(type) == IF type \in DocumentType THEN type ELSE "REGULATION"

\* Which of its extractors reads a stored file, `opens': whether the library can.  A
\* file it cannot is read as the text of its bytes.
Extractor(file) ==
    IF file.ext \in {".pdf", ".docx"} /\ file.opens THEN file.ext ELSE "text"

\* A line is [kind, page, bold]: blank, a marker of a page (None: without a number) or
\* other text.  In plain text a marker holds for what follows.
PageAt(lines, i) ==
    LET S == {j \in 1..(i - 1) : lines[j].kind = "marker" /\ lines[j].page # None}
    IN  IF S = {} THEN 1 ELSE lines[Max(S)].page

Nth(S, k) == CHOOSE i \in S : Cardinality({j \in S : j <= i}) = k

Kept(lines, kinds) ==
    LET S == {i \in DOMAIN lines : lines[i].kind \in kinds}
    IN  [k \in 1..Cardinality(S) |-> Nth(S, k)]

Block(line, page, bold) == [line |-> line, page |-> page, bold |-> bold]

BlocksFromText(lines) ==
    LET kept == Kept(lines, {"text"})
    IN  [k \in DOMAIN kept |-> Block(kept[k], PageAt(lines, kept[k]), FALSE)]

\* In a file a marker is a line like any other; a .docx has no pages.
BlocksFromFile(ext, lines) ==
    LET kept == Kept(lines, {"text", "marker"})
    IN  [k \in DOMAIN kept |->
            Block(kept[k], IF ext = ".pdf" THEN lines[kept[k]].page ELSE None,
                  lines[kept[k]].bold)]

\* scan_text: the phrases found, in the order of the patterns, each once.
Scanned(hits) ==
    LET S == {i \in DOMAIN hits : hits[i] # None /\ \A j \in 1..(i - 1) : hits[j] # hits[i]}
    IN  [k \in 1..Cardinality(S) |-> hits[Nth(S, k)]]

-----------------------------------------------------------------------------
(* The document                                                               *)

\* What follows the first place where a word stands: the date there, None if there is
\* none within reach.  `places': what follows each place, from the start.
AtFirst(places) == IF places = << >> THEN None ELSE places[1]

Metadata(text) ==
    [number |-> AtFirst(text.numbers), issued |-> AtFirst(text.issued),
     from |-> AtFirst(text.from)]

Field == {"number", "issued", "from"}

\* The model is asked if anything is missing, and fills in only what is; `data' is what
\* it answers, None if it fails.
Enhanced(base, data) ==
    IF data = None \/ \A f \in Field : base[f] # None THEN base
    ELSE [f \in Field |-> IF base[f] # None THEN base[f] ELSE data[f]]

\* A day is a number, yyyymmdd.
DefaultFrom == 20260101

DocValidFrom(metadata) == IF metadata.from # None THEN metadata.from ELSE DefaultFrom

\* llm_extract_provisions: what the model lists in each piece, nothing if it answers with
\* something else, None where it raises.
LlmProvisions(answers) ==
    LET from[i \in 0..Len(answers)] ==
            IF i = 0 THEN << >> ELSE from[i - 1] \o answers[i]
    IN  IF \E i \in DOMAIN answers : answers[i] = None THEN << >> ELSE from[Len(answers)]

-----------------------------------------------------------------------------
(* A provision                                                                *)

Says(text, phrase) ==
    \E i \in 0..(Len(text) - Len(phrase)) : SubSeq(text, i + 1, i + Len(phrase)) = phrase

SaysAny(text, phrases) == \E p \in phrases : Says(text, p)

Prohibition == {<<"khong", "duoc">>, <<"cam">>, <<"khong", "phai">>}
Permission == {<<"duoc", "phep">>, <<"co", "the">>, <<"duoc", "quyen">>}
Duty == {<<"phai">>, <<"bat", "buoc">>, <<"co", "nghia", "vu">>, <<"yeu", "cau">>,
         <<"ap", "dung">>}

DetectModality(text) ==
    CASE SaysAny(text, Prohibition) -> "PROHIBITION"
      [] ~SaysAny(text, Prohibition) /\ SaysAny(text, Permission) -> "PERMISSION"
      [] ~SaysAny(text, Prohibition \cup Permission) /\ SaysAny(text, Duty) ->
            "OBLIGATION"
      [] OTHER -> None

\* A value is [amount, money]; money has a unit of its own, the rest is time or share.
Money(amount) == [amount |-> amount, money |-> TRUE]
Term(amount) == [amount |-> amount, money |-> FALSE]

\* `values': the values in the text, from the start.
ExtractObligation(text, values) ==
    LET modality == DetectModality(text)
        value == IF values = << >> THEN None ELSE values[1]
    IN  IF modality = None /\ value = None THEN None
        ELSE [modality |-> modality, value |-> value,
              normalized |-> IF value # None /\ value.money THEN value.amount ELSE None,
              confidence |-> IF modality # None THEN 60 ELSE 50]

\* The first of the list that the text has.
Customers == <<"sme", "doanh nghiep nho", "ca nhan", "doanh nghiep lon", "khach hang">>

ExtractScope(names) ==
    LET S == {k \in DOMAIN Customers : Customers[k] \in names}
    IN  IF S = {} THEN None ELSE Customers[Min(S)]

\* Here a word is [says, at]: an address [article, clause], a word that announces one
\* ("theo", "tai"...) or another; such a word must stand within `reach' before an
\* address.
Referred(text, i, reach) ==
    /\ text[i].says = "address"
    /\ \E j \in (i - reach)..(i - 1) : j \in DOMAIN text /\ text[j].says = "trigger"

\* The article itself or its own clause is no reference.
Own(at, self) == self.article = at.article /\ at.clause \in {None, self.clause}

CrossReferences(text, self, reach) ==
    LET S == {i \in DOMAIN text : /\ Referred(text, i, reach)
                                  /\ ~Own(text[i].at, self)
                                  /\ \A j \in 1..(i - 1) :
                                        Referred(text, j, reach) => text[j] # text[i]}
    IN  [k \in 1..Cardinality(S) |-> text[Nth(S, k)].at]

\* extract_amendments: kind by kind, not as they stand in the text; those without a
\* date that can be read are dropped.
Kinds == <<"REPLACE_TEXT", "INSERT_TEXT", "DELETE_TEXT", "REPEAL_PROVISION">>

AmendmentsOfKind(sentences, op) ==
    SelectSeq(sentences, LAMBDA s : s.op = op /\ s.from # None)

ExtractAmendments(sentences) ==
    LET upto[k \in 0..Len(Kinds)] ==
            IF k = 0 THEN << >>
            ELSE upto[k - 1] \o AmendmentsOfKind(sentences, Kinds[k])
    IN  upto[Len(Kinds)]

-----------------------------------------------------------------------------
(* hybrid_pairs: a document and one that amends it                            *)

\* A pair is [amender, target, amenderDate, targetDate, dieu, khoan, topic, old, new].
Heading(kind, no, text) == [kind |-> kind, no |-> no, text |-> text]

TargetLines(p) ==
    <<Heading("body", None, <<"banner">>), Heading("body", None, <<p.target>>),
      Heading("body", None, <<p.targetDate>>),
      Heading("article", p.dieu, <<p.topic>>),
      Heading("clause", p.khoan, <<p.topic, " ", p.old>>),
      Heading("article", p.dieu + 1, <<"final">>),
      Heading("clause", 1, <<"filler">>)>>

TargetText(p) ==
    [numbers |-> <<p.target>>, issued |-> << >>, from |-> <<p.targetDate>>]
AmenderText(p) ==
    [numbers |-> <<p.amender, p.target>>, issued |-> << >>,
     from |-> <<p.amenderDate, p.amenderDate, p.amenderDate>>]

AmenderSentences(p) ==
    <<[op |-> "REPLACE_TEXT", old |-> p.old, new |-> p.new,
       at |-> [article |-> p.dieu, clause |-> p.khoan], from |-> p.amenderDate]>>

\* The items that build() writes, two for each pair.
Item(number, from, relations) ==
    [source |-> "hybrid", number |-> number, from |-> from, relations |-> relations,
     text |-> TRUE]

Build(pairs) ==
    UNION {{Item(p.target, p.targetDate, {}),
            Item(p.amender, p.amenderDate,
                 {[type |-> "AMENDS", target |-> p.target]})} : p \in pairs}
=============================================================================
