------------------------------- MODULE Sorter -------------------------------
(***************************************************************************)
(* What each of the MPI programs of PPD/MPI promises, whatever its shape:  *)
(* it prints the input in ascending order, some values at a time, and      *)
(* comes to the end of it (master-slave.c:5, pipeline.c:5: "a lista        *)
(* ordenada (crescente) dos valores de entrada").  All four are shown to   *)
(* implement it.                                                           *)
(***************************************************************************)
EXTENDS Integers, Sequences, FiniteSets

VARIABLES
    entrada,    \* the values of the file, which nobody changes
    saida       \* what has been printed so far

\* The value in place k has fewer than k smaller ones and, itself included, at
\* least k that are not greater.
Ordenada(v) ==
    [k \in DOMAIN v |->
        CHOOSE x \in {v[i] : i \in DOMAIN v} :
            /\ Cardinality({i \in DOMAIN v : v[i] < x}) < k
            /\ k <= Cardinality({i \in DOMAIN v : v[i] <= x})]

Init == entrada \in Seq(Int) /\ saida = <<>>

\* Some values more of the sorted input are printed.
Escrever ==
    /\ Len(saida) < Len(saida') /\ Len(saida') <= Len(entrada)
    /\ saida' = SubSeq(Ordenada(entrada), 1, Len(saida'))
    /\ UNCHANGED entrada

Spec == Init /\ [][Escrever]_<<entrada, saida>>

\* The whole list is printed.
Termina == <>(Len(saida) = Len(entrada) /\ saida = Ordenada(entrada))
=============================================================================
