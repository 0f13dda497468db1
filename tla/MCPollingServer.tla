--------------------------- MODULE MCPollingServer ---------------------------
(* Finite instances of PollingServer: small sets of tasks, and the cases    *)
(* of STR/input.in.                                                         *)
EXTENDS PollingServer

Per(c, p) == [c |-> c, p |-> p]
Ap(a, c) == [a |-> a, c |-> c]
Caso(tempo, servidor, periodicas, aperiodicas) ==
    [tempo |-> tempo, servidor |-> servidor,
     periodicas |-> periodicas, aperiodicas |-> aperiodicas]

\* Two periodic tasks, under and over the capacity, and two aperiodic ones, one
\* there from the start or not, in either order, over a common period.
Pequenos ==
    { <<Caso(12, s, P, A)>> :
        s \in {2, 3, 4},
        P \in [1 .. 2 -> {Per(1, 2), Per(1, 3), Per(2, 4), Per(1, 4), Per(2, 6), Per(4, 6)}],
        A \in { <<Ap(0, 2), Ap(3, 1)>>, <<Ap(5, 1), Ap(2, 3)>>, <<Ap(1, 6), Ap(4, 1)>> } }

\* Cases of input.in, some of them one after the other as in the file.
Arquivo ==
    << Caso(20, 5, <<Per(4, 10), Per(8, 20)>>, <<Ap(5, 1), Ap(12, 1)>>),
       Caso(20, 4, <<Per(3, 5), Per(2, 10)>>, <<Ap(2, 2), Ap(8, 1), Ap(15, 1)>>),
       Caso(12, 3, <<Per(2, 4)>>, <<Ap(1, 5)>>),
       Caso(20, 4, <<Per(2, 5), Per(2, 10)>>, <<Ap(2, 2), Ap(8, 1), Ap(15, 1)>>),
       Caso(12, 2, <<Per(1, 3), Per(1, 4)>>, <<Ap(1, 3), Ap(2, 2)>>),
       Caso(12, 3, <<Per(1, 2), Per(1, 4)>>, <<Ap(3, 1), Ap(7, 2)>>),
       Caso(12, 3, <<Per(1, 4), Per(1, 2)>>, <<Ap(1, 1), Ap(7, 2)>>),
       Caso(12, 3, <<Per(1, 4), Per(3, 6)>>, <<Ap(3, 2)>>),
       Caso(12, 4, <<Per(1, 3), Per(3, 6)>>, <<Ap(3, 2)>>),
       Caso(12, 6, <<Per(1, 4), Per(1, 3)>>, <<Ap(3, 4)>>) >>

\* Three periodic tasks.
Trios ==
    { <<Caso(12, s, P, A)>> :
        s \in {2, 3, 4},
        P \in [1 .. 3 -> {Per(1, 3), Per(1, 4), Per(2, 6), Per(2, 12)}],
        A \in { <<Ap(2, 2)>>, <<Ap(4, 1), Ap(0, 3)>> } }

Files == Pequenos \cup Trios \cup { Arquivo }

\* STR/answer.ans, which compile.sh compares the output with.
Resposta(carta, preempcoes, trocas) ==
    [carta |-> carta, preempcoes |-> preempcoes, trocas |-> trocas]
answer_ans ==
    << Resposta(<<1, 1, 1, 1, 2, 3, 2, 2, 2, 2, 1, 1, 1, 1, 2, 4, 2, 2, 0, 0>>, 4, 9),
       Resposta(<<1, 1, 1, 2, 3, 1, 1, 1, 3, 2, 1, 1, 4, 1, 2, 1, 5, 1, 1, 2>>, 5, 14),
       Resposta(<<1, 1, 2, 2, 1, 1, 2, 2, 1, 2, 1, 0>>, 4, 8),
       Resposta(<<1, 1, 2, 2, 3, 1, 1, 3, 4, 0, 1, 1, 2, 2, 0, 1, 5, 1, 0, 0>>, 5, 14),
       Resposta(<<1, 2, 3, 1, 3, 2, 3, 1, 4, 1, 4, 2>>, 3, 12),
       Resposta(<<1, 2, 1, 3, 1, 2, 1, 4, 1, 4, 1, 2>>, 1, 12),
       Resposta(<<2, 3, 2, 1, 2, 1, 2, 4, 2, 4, 2, 1>>, 1, 12),
       Resposta(<<1, 2, 2, 3, 1, 2, 3, 2, 1, 2, 2, 0>>, 4, 10),
       Resposta(<<1, 2, 2, 1, 3, 2, 1, 2, 3, 1, 2, 2>>, 3, 10),
       Resposta(<<2, 1, 0, 2, 1, 3, 2, 3, 1, 2, 3, 3>>, 3, 11) >>

Files_Arquivo == { Arquivo }

\* The charts and counters printed for input.in are those of answer.ans
\* (compile.sh runs diff on the two).
Gabarito == \A m \in DOMAIN saida : saida[m] = answer_ans[m]
=============================================================================
