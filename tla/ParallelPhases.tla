--------------------------- MODULE ParallelPhases ---------------------------
(***************************************************************************)
(* PPD/MPI/T4/maiki.c: a bubble sort in np slices.  Each process has its   *)
(* slice and, but for the last, a copy of the first connected_integers     *)
(* values of the next one.  In a round the even ranks sort what they have  *)
(* and send both borders to their neighbours; then the odd ranks, having   *)
(* received them, do the same.  A reduction in the middle of the round     *)
(* counts who had nothing to change; when nobody had, all leave the loop   *)
(* and print their slices in turn, a token going from each to the next.    *)
(*                                                                         *)
(* A round is a list of steps, Roteiro, one for even and one for odd       *)
(* ranks, with ponto[p] the step process p is at.  A barrier and a         *)
(* reduction are one step of all processes: what each does after it is     *)
(* its own.  Borders, token and time travel with the same tag.  The branch *)
(* for one process, an odd-even sort without messages, is left out.        *)
(***************************************************************************)
EXTENDS MPI, FiniteSets

CONSTANTS
    Conexoes,   \* the numbers of connected integers that may be asked for
    Entradas    \* the vectors the file may hold

\* With an odd np the last rank would be even, and send to a rank that is not.
ASSUME NpParAssumption == np % 2 = 0
ASSUME ConexoesAssumption == Conexoes \subseteq Nat \ {0}
ASSUME EntradasAssumption == Entradas \subseteq Seq(Int)

FIRST_PHASE == 0
REMAINING_PHASE == np - 1
FIM == <<1>>        \* the token
TEMPO == <<0>>      \* the time spent, whatever it is

VARIABLES
    connected_integers,
    entrada,        \* vector_start as fillVector left it
    fase,           \* fase[p]: "distribuir", "laco", "imprimir", "tempo" or "fim"
    ponto,          \* ponto[p]: the step of p in its phase
    buffer,         \* buffer[p]: its slice and its copy of the next one's border
    sorted,         \* sorted[p]: its last sort had nothing to change
    saida           \* what has been printed, in that order

vars == <<canal, folga, connected_integers, entrada, fase, ponto, buffer, sorted, saida>>

c == connected_integers
task_size == Len(entrada) \div np

\* The values process p works on: the last one has no border at its right.
Largura(p) == IF p = REMAINING_PHASE THEN task_size ELSE task_size + c

-----------------------------------------------------------------------------
\* What is dealt out: nothing checks that np divides the length, and what is
\* left over stays where it is.
Repartidos == SubSeq(entrada, 1, np * task_size)

\* What n rounds make of v, round i being F(_, i).  The set holds one value, what
\* the round before has left.
Iterar(v, n, F(_, _)) ==
    LET Ate[i \in 0 .. n] ==
            IF i = 0 THEN v ELSE CHOOSE w \in {F(u, i) : u \in {Ate[i - 1]}} : TRUE
    IN  Ate[n]

Troca(v, i) == IF v[i] > v[i + 1] THEN [v EXCEPT ![i] = v[i + 1], ![i + 1] = v[i]] ELSE v

\* One pass over the vector, swapping neighbours that are out of order.
Passada(v) == Iterar(v, Len(v) - 1, Troca)

\* Passes until one changes nothing; as many as there are values are enough.
bubbleSort(v) == Iterar(v, Len(v), LAMBDA w, i : Passada(w))

-----------------------------------------------------------------------------
\* The loop of an even and of an odd rank; the ends have one neighbour only, the
\* first being even and the last odd.
Roteiro(p) ==
    CASE p = FIRST_PHASE ->
            <<"ordenar", "enviarProximo", "barreira", "reduzir", "receberProximo", "barreira">>
      [] p = REMAINING_PHASE ->
            <<"receberAnterior", "barreira", "ordenar", "reduzir", "enviarAnterior", "barreira">>
      [] p \notin {FIRST_PHASE, REMAINING_PHASE} /\ p % 2 = 0 ->
            <<"ordenar", "enviarAnterior", "enviarProximo", "barreira", "reduzir",
              "receberAnterior", "receberProximo", "barreira">>
      [] p \notin {FIRST_PHASE, REMAINING_PHASE} /\ p % 2 = 1 ->
            <<"receberProximo", "receberAnterior", "barreira", "ordenar", "reduzir",
              "enviarProximo", "enviarAnterior", "barreira">>

Em(p, passo) == Livre(p) /\ fase[p] = "laco" /\ Roteiro(p)[ponto[p]] = passo

\* The step after this one, the first after the last.
Seguinte(p) == (ponto[p] % Len(Roteiro(p))) + 1
Avancar(p) == ponto' = [ponto EXCEPT ![p] = Seguinte(p)]

Init ==
    /\ InitMPI
    /\ entrada \in Entradas
    \* Wider borders than slices would be read from behind the vector.
    /\ connected_integers \in Conexoes /\ c <= task_size
    /\ fase = [p \in Processo |-> "distribuir"]
    /\ ponto = [p \in Processo |-> 1]
    /\ buffer = [p \in Processo |-> IF p = FIRST_PHASE THEN SubSeq(entrada, 1, Largura(p)) ELSE <<>>]
    /\ sorted = [p \in Processo |-> FALSE]
    /\ saida = <<>>

-----------------------------------------------------------------------------
(***************************************************************************)
(* Before the loop: the first process deals out the slices, to rank        *)
(* ponto[FIRST_PHASE] next.                                                *)
(***************************************************************************)
Distribuir ==
    LET i == ponto[FIRST_PHASE] IN
    /\ Livre(FIRST_PHASE) /\ fase[FIRST_PHASE] = "distribuir" /\ i < np
    /\ canal' = MPI_Send(canal, FIRST_PHASE, i,
                         SubSeq(entrada, task_size * i + 1, task_size * i + Largura(i)))
    /\ ponto' = [ponto EXCEPT ![FIRST_PHASE] = i + 1]
    /\ UNCHANGED <<folga, connected_integers, entrada, fase, buffer, sorted, saida>>

ReceberFatia(p) ==
    /\ p # FIRST_PHASE /\ fase[p] = "distribuir" /\ buffer[p] = <<>>
    /\ Chegou(FIRST_PHASE, p)
    /\ buffer' = [buffer EXCEPT ![p] = Head(canal[FIRST_PHASE][p])]
    /\ canal' = MPI_Recv(canal, FIRST_PHASE, p)
    /\ UNCHANGED <<folga, connected_integers, entrada, fase, ponto, sorted, saida>>

\* The barrier after it.
Largada ==
    /\ ponto[FIRST_PHASE] = np
    /\ \A p \in Processo : Livre(p) /\ fase[p] = "distribuir" /\ buffer[p] # <<>>
    /\ fase' = [p \in Processo |-> "laco"]
    /\ ponto' = [p \in Processo |-> 1]
    /\ UNCHANGED <<canal, folga, connected_integers, entrada, buffer, sorted, saida>>

-----------------------------------------------------------------------------
(***************************************************************************)
(* The loop.                                                               *)
(***************************************************************************)
\* Mutant: the flag, once off, stays off.
Ordenar_SemRecomecar(p) ==
    /\ Em(p, "ordenar")
    /\ buffer' = [buffer EXCEPT ![p] = bubbleSort(@)]
    /\ sorted' = [sorted EXCEPT ![p] = @ /\ Passada(buffer[p]) = buffer[p]]
    /\ Avancar(p)
    /\ UNCHANGED <<canal, folga, connected_integers, entrada, fase, saida>>

Ordenar(p) ==
    /\ Em(p, "ordenar")
    /\ buffer' = [buffer EXCEPT ![p] = bubbleSort(@)]
    /\ sorted' = [sorted EXCEPT ![p] = Passada(buffer[p]) = buffer[p]]
    /\ Avancar(p)
    /\ UNCHANGED <<canal, folga, connected_integers, entrada, fase, saida>>

\* The left border is the first connected_integers values, the right one the
\* copy of the next slice's.
Esquerda(p) == SubSeq(buffer[p], 1, c)
Direita(p) == SubSeq(buffer[p], task_size + 1, task_size + c)

EnviarAnterior(p) ==
    /\ Em(p, "enviarAnterior")
    /\ canal' = MPI_Send(canal, p, p - 1, Esquerda(p))
    /\ Avancar(p)
    /\ UNCHANGED <<folga, connected_integers, entrada, fase, buffer, sorted, saida>>

EnviarProximo(p) ==
    /\ Em(p, "enviarProximo")
    /\ canal' = MPI_Send(canal, p, p + 1, Direita(p))
    /\ Avancar(p)
    /\ UNCHANGED <<folga, connected_integers, entrada, fase, buffer, sorted, saida>>

\* Mutant: the border is put behind the buffer.
ReceberBorda_Atras(p, q, lugar) ==
    /\ Chegou(q, p)
    /\ buffer' = [buffer EXCEPT ![p] = @ \o Head(canal[q][p])]
    /\ canal' = MPI_Recv(canal, q, p)
    /\ Avancar(p)
    /\ UNCHANGED <<folga, connected_integers, entrada, fase, sorted, saida>>

\* The neighbour q's border, written over the values from place `lugar' on.
ReceberBorda(p, q, lugar) ==
    /\ Chegou(q, p)
    /\ LET borda == Head(canal[q][p]) IN
       buffer' = [buffer EXCEPT ![p] =
                    [k \in DOMAIN @ |->
                        IF k - lugar \in DOMAIN borda THEN borda[k - lugar] ELSE @[k]]]
    /\ canal' = MPI_Recv(canal, q, p)
    /\ Avancar(p)
    /\ UNCHANGED <<folga, connected_integers, entrada, fase, sorted, saida>>

\* Mutant: the next one's border is written over the own one.
ReceberProximo_NoInicio(p) == Em(p, "receberProximo") /\ ReceberBorda(p, p + 1, 0)

ReceberAnterior(p) == Em(p, "receberAnterior") /\ ReceberBorda(p, p - 1, 0)
ReceberProximo(p) == Em(p, "receberProximo") /\ ReceberBorda(p, p + 1, task_size)

Barreira ==
    /\ \A p \in Processo : Em(p, "barreira")
    /\ ponto' = [p \in Processo |-> Seguinte(p)]
    /\ UNCHANGED <<canal, folga, connected_integers, entrada, fase, buffer, sorted, saida>>

\* Mutant: one process that had nothing to change is enough.
Prontos_Algum == \E p \in Processo : sorted[p]

\* result == np
Prontos == \A p \in Processo : sorted[p]

Reduzir ==
    /\ \A p \in Processo : Em(p, "reduzir")
    /\ fase' = IF Prontos THEN [p \in Processo |-> "imprimir"] ELSE fase
    /\ ponto' = [p \in Processo |-> Seguinte(p)]
    /\ UNCHANGED <<canal, folga, connected_integers, entrada, buffer, sorted, saida>>

-----------------------------------------------------------------------------
(***************************************************************************)
(* After the loop.                                                         *)
(***************************************************************************)
\* Mutant: the token is sent on without waiting for it.
Imprimir_SemEsperar(p) ==
    /\ Livre(p) /\ fase[p] = "imprimir"
    /\ saida' = saida \o SubSeq(buffer[p], 1, task_size)
    /\ canal' = IF p # REMAINING_PHASE THEN MPI_Send(canal, p, p + 1, FIM) ELSE canal
    /\ fase' = [fase EXCEPT ![p] = IF p \in {FIRST_PHASE, REMAINING_PHASE} THEN "tempo" ELSE "fim"]
    /\ UNCHANGED <<folga, connected_integers, entrada, ponto, buffer, sorted>>

\* The token arrives, but for the first process: print, and pass it on.
Imprimir(p) ==
    LET sinal == IF p = FIRST_PHASE THEN FIM ELSE Head(canal[p - 1][p])
        m == IF p = FIRST_PHASE THEN canal ELSE MPI_Recv(canal, p - 1, p)
        finished == sinal[1] # 0
    IN  /\ Livre(p) /\ fase[p] = "imprimir"
        /\ p # FIRST_PHASE => Chegou(p - 1, p)
        /\ saida' = IF finished THEN saida \o SubSeq(buffer[p], 1, task_size) ELSE saida
        /\ canal' = IF finished /\ p # REMAINING_PHASE THEN MPI_Send(m, p, p + 1, FIM) ELSE m
        /\ fase' = [fase EXCEPT ![p] =
                        IF p = FIRST_PHASE \/ (finished /\ p = REMAINING_PHASE)
                        THEN "tempo" ELSE "fim"]
        /\ UNCHANGED <<folga, connected_integers, entrada, ponto, buffer, sorted>>

EnviarTempo ==
    /\ Livre(FIRST_PHASE) /\ fase[FIRST_PHASE] = "tempo"
    /\ canal' = MPI_Send(canal, FIRST_PHASE, REMAINING_PHASE, TEMPO)
    /\ fase' = [fase EXCEPT ![FIRST_PHASE] = "fim"]
    /\ UNCHANGED <<folga, connected_integers, entrada, ponto, buffer, sorted, saida>>

ReceberTempo ==
    /\ fase[REMAINING_PHASE] = "tempo" /\ Chegou(FIRST_PHASE, REMAINING_PHASE)
    /\ canal' = MPI_Recv(canal, FIRST_PHASE, REMAINING_PHASE)
    /\ fase' = [fase EXCEPT ![REMAINING_PHASE] = "fim"]
    /\ UNCHANGED <<folga, connected_integers, entrada, ponto, buffer, sorted, saida>>

Passo(p) ==
    \/ ReceberFatia(p)
    \/ Ordenar(p) \/ EnviarAnterior(p) \/ EnviarProximo(p)
    \/ ReceberAnterior(p) \/ ReceberProximo(p)
    \/ Imprimir(p)

Next ==
    \/ Distribuir \/ Largada \/ Barreira \/ Reduzir \/ EnviarTempo \/ ReceberTempo
    \/ \E p \in Processo : Passo(p)

Spec == Init /\ [][Next]_vars

\* Some process that can run does: mpirun runs them all, and this much is enough
\* because a barrier keeps each from running ahead of the others.
FairSpec == Spec /\ WF_vars(Next)

-----------------------------------------------------------------------------
(***************************************************************************)
(* Properties.                                                             *)
(***************************************************************************)
\* The type invariant: a buffer is as long as what was dealt out (maiki.c:102).
TypeOK ==
    /\ canal \in [Processo -> [Processo -> Seq(Seq(Int))]]
    /\ folga \in Folgas
    /\ connected_integers \in Conexoes /\ entrada \in Entradas
    /\ fase \in [Processo -> {"distribuir", "laco", "imprimir", "tempo", "fim"}]
    /\ \A p \in Processo :
          /\ fase[p] = "distribuir" => ponto[p] \in 1 .. np
          /\ fase[p] = "laco" => ponto[p] \in DOMAIN Roteiro(p)
          /\ buffer[p] \in Seq(Int) /\ Len(buffer[p]) \in {0, Largura(p)}
    /\ sorted \in [Processo -> BOOLEAN]
    /\ saida \in Seq(Int)

Juntos(passo) == \A p \in Processo : fase[p] = "laco" /\ Roteiro(p)[ponto[p]] = passo

\* The slices, one after the other.
Fatias == [k \in 1 .. np * task_size |->
              buffer[(k - 1) \div task_size][((k - 1) % task_size) + 1]]

Programa == INSTANCE Sorter WITH entrada <- Repartidos, saida <- saida

\* When all meet, at a barrier or out of the loop, no message is under way, the
\* two copies of every border agree and the slices hold the values dealt out,
\* each once (maiki.c:170-193, 229-257): neither copy of a border is lost, nor
\* one of another round taken for it.
Sobreposicao ==
    Juntos("barreira") =>
        /\ \A p, q \in Processo : ~ Chegou(p, q)
        /\ \A p \in Processo \ {REMAINING_PHASE} : Direita(p) = Esquerda(p + 1)
        /\ Programa!Ordenada(Fatias) = Programa!Ordenada(Repartidos)

\* Who leaves the loop leaves it with the whole vector in order, and with all
\* the others: the flags are set at different times, those of the even ranks
\* before the odd ones sort, and yet say it together (maiki.c:168, 180, 239-244).
\* Token and time meet no border in the channels.
SaidaEmOrdem ==
    (\E p \in Processo : fase[p] \notin {"distribuir", "laco"}) =>
        /\ Fatias = Programa!Ordenada(Repartidos)
        /\ \A p, q \in Processo :
              /\ fase[p] \notin {"distribuir", "laco"}
              /\ \A k \in DOMAIN canal[p][q] : canal[p][q][k] \in {FIM, TEMPO}

\* The program is a sorter of what it deals out: it prints that in ascending
\* order.
SorterSpec == Programa!Spec

\* It prints all of it, and every process comes to its end.
Termina == Programa!Termina /\ <>(\A p \in Processo : fase[p] = "fim")
=============================================================================
