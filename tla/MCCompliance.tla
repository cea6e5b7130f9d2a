---------------------------- MODULE MCCompliance ----------------------------
(* Instances of Compliance: two legal provisions that disagree on an amount,   *)
(* an internal policy, and a claim with a value of two classes.                *)
EXTENDS Compliance, Sequences, TLC

CONSTANTS p1, p2, p3, n1, c1, c2

MCFirstDate == (p1 :> 1) @@ (p2 :> 1) @@ (p3 :> 2)

Text(money, percent) == [money |-> money, percent |-> percent]
MCFacts == (c1 :> Text({500}, {7})) @@ (c2 :> Text({800}, {}))
             @@ (p1 :> Text({500}, {})) @@ (p2 :> Text({800}, {8}))
             @@ (p3 :> Text({900}, {7})) @@ (n1 :> Text({800}, {7}))

Ob(modality, amount) ==
    [modality |-> modality, amount |-> amount, scope |-> [product |-> None],
     exception |-> FALSE]
MCObligation == (p1 :> Ob("OBLIGATION", 500)) @@ (p2 :> Ob("PROHIBITION", 800))
                  @@ (p3 :> Ob(None, 900)) @@ (n1 :> Ob("OBLIGATION", 800))

MCRelevant == (c1 :> {p1, p2, p3, n1}) @@ (c2 :> {p1, p2, n1})
-----------------------------------------------------------------------------
(* The amounts and dates of a text against what a reader sees in it.          *)

CONSTANTS Dot, Comma, Space, Letter, thousand, dong

VA == INSTANCE Values WITH Unit <- {thousand, dong},
                           Mult <- (thousand :> 1000) @@ (dong :> 1)

\* n with a point after every third digit from the right.
Written(n) ==
    LET plain[m \in Nat] == IF m < 10 THEN <<m>> ELSE Append(plain[m \div 10], m % 10)
        pointed[m \in Nat] ==
            IF m < 1000 THEN plain[m]
            ELSE pointed[m \div 1000] \o <<Dot, (m % 1000) \div 100,
                                           (m % 100) \div 10, m % 10>>
    IN  pointed[n]

Numbers == (0..20) \cup {99, 100, 999, 1000, 1001, 1899, 1900, 2024,
                        2101, 12345, 500000, 1000000, 99999999}

\* A number is read as it was written; with a unit behind it, as so many of the unit;
\* and without one unless it is small or could be a year.
ASSUME AmountsReadBack ==
    \A n \in Numbers :
        /\ VA!MoneyToVnd(Written(n)) = n
        /\ n <= 500000 =>
              VA!ExtractAllMoney(Written(n) \o <<Space, thousand>>) = <<1000 * n>>
        /\ VA!ExtractAllMoney(Written(n) \o <<Space, Letter>>)
             = IF n < 1000 \/ n \in 1900..2100 THEN << >> ELSE <<n>>

\* Thousands and decimals come to the same amount, however they are written.
ASSUME SameAmount ==
    \A n \in (1..20) \cup {99, 100, 250, 999} :
        /\ VA!MoneyEqual(Written(n) \o <<thousand>>, Written(1000 * n))
        /\ VA!MoneyEqual(<<n \div 100, Comma, (n \div 10) % 10, n % 10, Space, thousand>>,
                         Written(10 * n))

\* Not read: an amount with no unit at the end of a sentence that another follows, and
\* one with letters written onto it.
ASSUME AmountsLost ==
    \A n \in {12345, 500000, 1000000} :
        /\ VA!ExtractAllMoney(Written(n) \o <<Dot, Space, Letter>>) = << >>
        /\ VA!ExtractAllMoney(Written(n) \o <<Letter>>) = << >>
        /\ VA!ExtractAllMoney(Written(n) \o <<Space, dong, Dot, Space, Letter>>) = <<n>>
        /\ VA!ExtractAllMoney(Written(n) \o <<Dot>>) = <<n>>

\* Dates of one form: the first, if that day exists.  A long form goes before all
\* others, wherever it stands.
ASSUME DatesInOrder ==
    \A mentions \in UNION {[1..k -> [form : {"long", "iso"}, day : {1, 2, None}]]
                              : k \in 1..3} :
        LET long == {i \in DOMAIN mentions : mentions[i].form = "long"}
            day == VA!NormalizeDate(mentions)
        IN  /\ long \in {{}, DOMAIN mentions} => day = mentions[1].day
            /\ long # {} /\ mentions[VA!Min(long)].day # None =>
                  day = mentions[VA!Min(long)].day
=============================================================================
