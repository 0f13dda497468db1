------------------------------ MODULE Pipeline ------------------------------
(***************************************************************************)
(* PPD/MPI/T2/pipeline.c: an insertion sort cut into np stages.  A stage   *)
(* keeps the smallest task_size values it has seen, sorted, and passes the *)
(* others on.  When the last stage has its share it sends a token to the   *)
(* first one; the token then goes down the pipe, each stage printing when  *)
(* it comes by, and the first stage sends the time spent straight to the   *)
(* last.  With two stages, values, token and time share one channel.       *)
(*                                                                         *)
(* All stages run the same loop, rodada[p] times so far; the first takes    *)
(* its values from the file instead of a channel.  The branch for one      *)
(* process, the same insertion sort on the whole vector, is left out.      *)
(***************************************************************************)
EXTENDS MPI, FiniteSets, SequencesExt

CONSTANTS
    Entradas    \* the vectors the file may hold

\* A length that np does not divide is refused at the start.
ASSUME EntradasAssumption ==
    Entradas \subseteq Seq(Int) /\ \A e \in Entradas : Len(e) > 0 /\ Len(e) % np = 0

FIRST_STAGE == 0
LAST_STAGE == np - 1
FIM == -1           \* the token
TEMPO == 0          \* the time spent, whatever it is

VARIABLES
    entrada,        \* vector_start
    pc,             \* pc[p]: where stage p is
    rodada,         \* rodada[p]: loop index
    vector_aux,     \* vector_aux[p]: what stage p keeps
    saida           \* what the stages have printed, in the order they did

vars == <<canal, folga, entrada, pc, rodada, vector_aux, saida>>

task_size == Len(entrada) \div np

\* Mutant: the loops end one round early.
Rodadas_UmaAMenos(p) == Len(entrada) - task_size * p - 1

\* The rounds of the loop of stage p.
Rodadas(p) == Len(entrada) - task_size * p

-----------------------------------------------------------------------------
\* Mutant: the value is put at the end of the vector, unsorted.
Inserir_NoFim(v, value) ==
    IF Len(v) < task_size
    THEN [vetor |-> Append(v, value), sobra |-> <<>>]
    ELSE [vetor |-> v, sobra |-> <<value>>]

\* Mutant: a full vector takes one value more.
Inserir_UmAMais(v, value) ==
    IF Len(v) <= task_size
    THEN [vetor |-> Append(v, value), sobra |-> <<>>]
    ELSE [vetor |-> v, sobra |-> <<value>>]

\* The value meets the one in place j, and is swapped with it if that is greater.
Troca(s, j) ==
    IF s.value < s.vetor[j]
    THEN [vetor |-> [s.vetor EXCEPT ![j] = s.value], value |-> s.vetor[j]]
    ELSE s

\* The vector and the value after it has met all of v.
Passagem(v, value) ==
    LET Ate[j \in 0 .. Len(v)] ==
            IF j = 0 THEN [vetor |-> v, value |-> value] ELSE Troca(Ate[j - 1], j)
    IN  Ate[Len(v)]

\* One round: what the value has turned into is kept in a free place or left over.
Inserir(v, value) ==
    LET fim == Passagem(v, value) IN
    IF Len(v) < task_size
    THEN [vetor |-> Append(fim.vetor, fim.value), sobra |-> <<>>]
    ELSE [vetor |-> fim.vetor, sobra |-> <<fim.value>>]

-----------------------------------------------------------------------------
Init ==
    /\ InitMPI
    /\ entrada \in Entradas
    /\ pc = [p \in Processo |-> "ordenar"]
    /\ rodada = [p \in Processo |-> 0]
    /\ vector_aux = [p \in Processo |-> <<>>]
    /\ saida = <<>>

Em(p, passo) == Livre(p) /\ pc[p] = passo

\* A round of the loop of stage p, which took value, and found c in the channels.
Rodada(p, value, c) ==
    LET r == Inserir(vector_aux[p], value) IN
    /\ Em(p, "ordenar")
    /\ vector_aux' = [vector_aux EXCEPT ![p] = r.vetor]
    /\ canal' = IF r.sobra = <<>> THEN c ELSE MPI_Send(c, p, p + 1, r.sobra[1])
    /\ rodada' = [rodada EXCEPT ![p] = @ + 1]
    /\ pc' = IF rodada[p] + 1 < Rodadas(p) THEN pc
             ELSE [pc EXCEPT ![p] = IF p = LAST_STAGE THEN "avisar" ELSE "esperar"]
    /\ UNCHANGED <<folga, entrada, saida>>

\* The first stage takes its values from the vector, the others from the stage
\* before them.
OrdenarPrimeiro == Rodada(FIRST_STAGE, entrada[rodada[FIRST_STAGE] + 1], canal)

Ordenar(p) ==
    /\ p # FIRST_STAGE /\ Chegou(p - 1, p)
    /\ Rodada(p, Head(canal[p - 1][p]), MPI_Recv(canal, p - 1, p))

\* The last stage tells the first one that everything is in place.
Avisar ==
    /\ Em(LAST_STAGE, "avisar")
    /\ canal' = MPI_Send(canal, LAST_STAGE, FIRST_STAGE, FIM)
    /\ pc' = [pc EXCEPT ![LAST_STAGE] = "esperar"]
    /\ UNCHANGED <<folga, entrada, rodada, vector_aux, saida>>

Origem(p) == IF p = FIRST_STAGE THEN LAST_STAGE ELSE p - 1

\* Mutant: the token is not passed on.
Imprimir_SemPassar(p) ==
    /\ Em(p, "esperar")
    /\ Chegou(Origem(p), p)
    /\ canal' = MPI_Recv(canal, Origem(p), p)
    /\ saida' = saida \o vector_aux[p]
    /\ pc' = [pc EXCEPT ![p] = IF p = FIRST_STAGE \/ p = LAST_STAGE THEN "tempo" ELSE "fim"]
    /\ UNCHANGED <<folga, entrada, rodada, vector_aux>>

\* The token arrives: print, and pass it on.
Imprimir(p) ==
    LET sinal == Head(canal[Origem(p)][p])
        c == MPI_Recv(canal, Origem(p), p)
    IN  /\ Em(p, "esperar")
        /\ Chegou(Origem(p), p)
        /\ saida' = IF sinal = FIM THEN saida \o vector_aux[p] ELSE saida
        /\ canal' = IF sinal = FIM /\ p # LAST_STAGE THEN MPI_Send(c, p, p + 1, FIM) ELSE c
        /\ pc' = [pc EXCEPT ![p] = IF p \in {FIRST_STAGE, LAST_STAGE} THEN "tempo" ELSE "fim"]
        /\ UNCHANGED <<folga, entrada, rodada, vector_aux>>

EnviarTempo ==
    /\ Em(FIRST_STAGE, "tempo")
    /\ canal' = MPI_Send(canal, FIRST_STAGE, LAST_STAGE, TEMPO)
    /\ pc' = [pc EXCEPT ![FIRST_STAGE] = "fim"]
    /\ UNCHANGED <<folga, entrada, rodada, vector_aux, saida>>

ReceberTempo ==
    /\ Em(LAST_STAGE, "tempo") /\ Chegou(FIRST_STAGE, LAST_STAGE)
    /\ canal' = MPI_Recv(canal, FIRST_STAGE, LAST_STAGE)
    /\ pc' = [pc EXCEPT ![LAST_STAGE] = "fim"]
    /\ UNCHANGED <<folga, entrada, rodada, vector_aux, saida>>

Estagio(p) ==
    \/ p = FIRST_STAGE /\ (OrdenarPrimeiro \/ EnviarTempo)
    \/ Ordenar(p)
    \/ Imprimir(p)
    \/ p = LAST_STAGE /\ (Avisar \/ ReceberTempo)

Next == \E p \in Processo : Estagio(p)

Spec == Init /\ [][Next]_vars

\* mpirun runs every process.
FairSpec == Spec /\ \A p \in Processo : WF_vars(Estagio(p))

-----------------------------------------------------------------------------
(***************************************************************************)
(* Properties.                                                             *)
(***************************************************************************)
\* The type invariant (pipeline.c:48, 63).
TypeOK ==
    /\ canal \in [Processo -> [Processo -> Seq(Int)]]
    /\ folga \in Folgas
    /\ entrada \in Entradas
    /\ pc \in [Processo -> {"ordenar", "avisar", "esperar", "tempo", "fim"}]
    /\ rodada \in [Processo -> 0 .. Len(entrada)]
    /\ vector_aux \in [Processo -> Seq(Int)]
    /\ \A p \in Processo : Len(vector_aux[p]) <= task_size
    /\ saida \in Seq(Int)

\* What stage p keeps is sorted, and nothing that lies further down the pipe,
\* on its way or kept, is smaller (pipeline.c:120-141, 168-191): a value never
\* overtakes a greater one that belongs to an earlier stage.
Adiante(p) ==
    (UNION {ToSet(vector_aux[q]) : q \in p + 1 .. LAST_STAGE})
    \cup (UNION {ToSet(canal[q][q + 1]) :
                    q \in {r \in p .. LAST_STAGE - 1 : pc[r] \in {"ordenar", "esperar"}}})

Particao ==
    \A p \in Processo : \A k \in DOMAIN vector_aux[p] :
        LET x == vector_aux[p][k] IN
        /\ k > 1 => vector_aux[p][k - 1] <= x
        /\ \A y \in Adiante(p) : x <= y

\* When the last stage announces the end, every stage has its whole share and
\* no value is on its way (pipeline.c:227-229): the token never meets a value.
TudoNoLugar ==
    pc[LAST_STAGE] # "ordenar" =>
        \A p \in Processo :
            /\ Len(vector_aux[p]) = task_size
            /\ rodada[p] = Rodadas(p)
            /\ p < LAST_STAGE => \A k \in DOMAIN canal[p][p + 1] :
                                    canal[p][p + 1][k] \in {FIM, TEMPO}

\* The program is a sorter: it prints the input in ascending order.
Programa == INSTANCE Sorter
SorterSpec == Programa!Spec

\* It prints all of it, and every stage comes to its end.
Termina == Programa!Termina /\ <>(\A p \in Processo : pc[p] = "fim")
=============================================================================
