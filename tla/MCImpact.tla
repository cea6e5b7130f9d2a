------------------------------ MODULE MCImpact ------------------------------
(* A bounded instance of Impact and of Timeline below it: two provisions of    *)
(* different documents, three amendments over four days, one of which may      *)
(* take effect before the version it amends, and a policy that cites both      *)
(* documents but can mean only one provision of each.                          *)
EXTENDS Impact, TLC

CONSTANTS p1, p2, n1, n2, n3, x1, x2, dA, dB, dC, e1, e2

MCFirstDate == (p1 :> 2) @@ (p2 :> 1)
MCDocOf == (p1 :> dA) @@ (p2 :> dB)

\* x1 cites both documents, x2 only the second and names no article.
MCCites == (x1 :> {dA, dB}) @@ (x2 :> {dB})
MCNamed == (x1 :> {p1}) @@ (x2 :> {p1, p2})
MCAmount == (p1 :> 500) @@ (p2 :> 500) @@ (n1 :> 800) @@ (n2 :> 500)
              @@ (n3 :> 800) @@ (x1 :> 500) @@ (x2 :> 800)

\* Two events amend the same provision; each may be approved more than once.
MCTarget == (e1 :> p1) @@ (e2 :> p1)
MCSource == (e1 :> dB) @@ (e2 :> dC)
=============================================================================
