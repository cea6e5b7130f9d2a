------------------------------- MODULE Values -------------------------------
(***************************************************************************)
(* Amounts and dates in a text (packages/common/vn_normalize.py), on which *)
(* comparing a document with the law and checking an answer rest.          *)
(* Functions of their arguments.                                           *)
(*                                                                         *)
(* A text is a sequence of digits 0..9 and of the characters below; the    *)
(* name of a unit is one character, and so is any other letter.            *)
(***************************************************************************)
EXTENDS Integers, Sequences, FiniteSets, FiniteSetsExt

CONSTANTS
    Dot, Comma, Space, Letter,
    Unit,           \* names of units
    Mult,           \* Mult[u]: what one u is worth
    None

Digit == 0..9

InNumber(c) == c \in Digit \cup {Dot, Comma}
InWord(c) == c \in Digit \cup Unit \cup {Letter}

\* The regular expression's \b after the i-th character.
Boundary(t, i) ==
    (i \in DOMAIN t /\ InWord(t[i])) # (i + 1 \in DOMAIN t /\ InWord(t[i + 1]))

-----------------------------------------------------------------------------
(* Numerals                                                                   *)

Without(s, c) == SelectSeq(s, LAMBDA x : x # c)
CommaAsDot(s) == [i \in DOMAIN s |-> IF s[i] = Comma THEN Dot ELSE s[i]]
Has(s, c) == \E i \in DOMAIN s : s[i] = c
Places(s, c) == {i \in DOMAIN s : s[i] = c}

\* One to three digits, then groups of a point and three digits.
Grouped(s) ==
    LET head == ((Len(s) - 1) % 4) + 1
    IN  /\ Len(s) > 4 /\ head <= 3
        /\ Places(s, Dot) = {i \in (head + 1)..Len(s) : (i - head) % 4 = 1}
        /\ ~Has(s, Comma)

NumberOf(s) ==
    LET value[i \in 0..Len(s)] == IF i = 0 THEN 0 ELSE 10 * value[i - 1] + s[i]
    IN  value[Len(s)]

\* float(): a number with at most one point, as [num, places] = num / 10^places.
Float(s) ==
    IF Cardinality(Places(s, Dot)) > 1 \/ Len(Without(s, Dot)) = 0 THEN None
    ELSE [num |-> NumberOf(Without(s, Dot)),
          places |-> IF Has(s, Dot) THEN Len(s) - Max(Places(s, Dot)) ELSE 0]

ParseNumber(s) ==
    CASE Has(s, Dot) /\ Has(s, Comma) -> Float(CommaAsDot(Without(s, Dot)))
      [] Has(s, Comma) /\ ~Has(s, Dot) -> Float(CommaAsDot(s))
      [] Grouped(s) -> Float(Without(s, Dot))
      [] OTHER -> Float(s)

-----------------------------------------------------------------------------
(* Amounts                                                                    *)

\* What _MONEY_RE may take at i: a numeral, spaces and perhaps a unit, up to the end
\* of a word.
Candidates(t, i) ==
    {c \in [to : i..Len(t), spaces : 0..Len(t), unit : 0..1] :
        LET end == c.to + c.spaces + c.unit
        IN  /\ t[i] \in Digit
            /\ \A j \in i..c.to : InNumber(t[j])
            /\ end <= Len(t)
            /\ \A j \in (c.to + 1)..(c.to + c.spaces) : t[j] = Space
            /\ c.unit = 1 => t[end] \in Unit
            /\ Boundary(t, end)}

\* The one it takes: as much of the numeral as it can, then as many spaces, then the
\* unit.
Taken(t, i) ==
    LET S1 == Candidates(t, i)
        S2 == {c \in S1 : \A d \in S1 : c.to >= d.to}
        S3 == {c \in S2 : \A d \in S2 : c.spaces >= d.spaces}
    IN  CHOOSE c \in S3 : \A d \in S3 : c.unit >= d.unit

Amount(t, i, c) ==
    [number |-> ParseNumber(SubSeq(t, i, c.to)),
     unit |-> IF c.unit = 1 THEN t[c.to + c.spaces + 1] ELSE None]

\* _MONEY_RE.finditer: from the left, each after the end of the one before.
Found(t) ==
    LET from[i \in 1..(Len(t) + 1)] ==
            IF i > Len(t) THEN << >>
            ELSE IF Candidates(t, i) = {} THEN from[i + 1]
            ELSE LET c == Taken(t, i)
                 IN  <<Amount(t, i, c)>> \o from[c.to + c.spaces + c.unit + 1]
    IN  from[1]

\* int(round(num * mult)): a half goes to the even neighbour.
Rounded(num, places) ==
    LET d == 10 ^ places
        q == num \div d
        r == num % d
    IN  IF 2 * r > d \/ (2 * r = d /\ q % 2 = 1) THEN q + 1 ELSE q

Vnd(a) ==
    Rounded(a.number.num * (IF a.unit = None THEN 1 ELSE Mult[a.unit]), a.number.places)

\* A number without a unit that is small, or could be a year, is no amount.
Bare(a) ==
    /\ a.unit = None
    /\ LET d == 10 ^ a.number.places
       IN  a.number.num < 1000 * d \/ a.number.num \in (1900 * d)..(2100 * d)

MoneyToVnd(t) ==
    LET found == Found(t)
    IN  IF found = << >> \/ found[1].number = None THEN None ELSE Vnd(found[1])

ExtractAllMoney(t) ==
    LET amounts == SelectSeq(Found(t), LAMBDA a : a.number # None /\ ~Bare(a))
    IN  [k \in DOMAIN amounts |-> Vnd(amounts[k])]

MoneyEqual(a, b) == MoneyToVnd(a) # None /\ MoneyToVnd(a) = MoneyToVnd(b)

-----------------------------------------------------------------------------
(* Dates                                                                      *)

\* _DATE_PATTERNS, in the order they are tried.
Form == <<"long", "iso", "slashes", "dashes">>

\* The text as the dates it mentions, [form, day], None for a day that does not exist.
\* Of each form only the first is looked at.
FirstOf(mentions, form) ==
    LET S == {i \in DOMAIN mentions : mentions[i].form = form}
    IN  IF S = {} THEN None ELSE mentions[Min(S)].day

NormalizeDate(mentions) ==
    LET S == {k \in DOMAIN Form : FirstOf(mentions, Form[k]) # None}
    IN  IF S = {} THEN None ELSE FirstOf(mentions, Form[Min(S)])
=============================================================================
