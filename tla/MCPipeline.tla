----------------------------- MODULE MCPipeline -----------------------------
(* Finite instances of Pipeline: three stages of two values.               *)
EXTENDS Pipeline

\* All vectors of three values, the value of the token among them, and two
\* orders of six different ones.
SeisValores ==
    [1 .. 6 -> {-1, 0, 4}] \cup { <<6, 5, 4, 3, 2, 1>>, <<3, 1, 2, 6, 4, 5>> }
=============================================================================
