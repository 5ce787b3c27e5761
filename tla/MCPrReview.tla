----------------------------- MODULE MCPrReview -----------------------------
(***************************************************************************)
(* Finite instances of PrReview for TLC.                                   *)
(***************************************************************************)
EXTENDS PrReview

CONSTANTS g1, g2, near, far, outside

On(gap, line) == [gap |-> gap, line |-> line]

\* Two gaps on lines of their own, in either order, one of them refused by GitHub
\* at times.
TwoGaps ==
    {<<On(g1, near), On(g2, far)>>, <<On(g2, far), On(g1, near)>>,
     <<On(g1, outside), On(g2, far)>>}
=============================================================================
