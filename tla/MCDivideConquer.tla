--------------------------- MODULE MCDivideConquer ---------------------------
(* Finite instances of DivideConquer: two to eight ranks.                  *)
EXTENDS DivideConquer

\* All vectors of four values out of two, orders of six and twelve for sizes
\* that are no powers of two, and one of eight for the three levels of eight ranks.
Vetores ==
    [1 .. 4 -> {0, 4}] \cup
    { <<4, 3, 2, 1>>, <<2, 4, 3, 1>>, <<1, 2, 3, 4>>,
      <<5, 0, 3, 3, 1, 4>>,
      <<12, 11, 10, 9, 8, 7, 6, 5, 4, 3, 2, 1>>,
      <<2, 7, 1, 8, 2, 8, 1, 5>> }
=============================================================================
