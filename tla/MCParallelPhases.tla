--------------------------- MODULE MCParallelPhases ---------------------------
(* Finite instances of ParallelPhases: four slices of two values.          *)
EXTENDS ParallelPhases

\* All vectors of eight values out of two, orders of different ones, and a
\* length that four does not divide.
Vetores ==
    [1 .. 8 -> {0, 1}] \cup
    { <<8, 7, 6, 5, 4, 3, 2, 1>>, <<3, 1, 2, 6, 4, 5, 7, 0>>, <<2, 7, 1, 8, 2, 8, 1, 0, 5>> }
=============================================================================
