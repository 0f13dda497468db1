---------------------------- MODULE MasterSlave ----------------------------
(***************************************************************************)
(* PPD/MPI/T1/master-slave.c: the master cuts the vector into tasks, gives *)
(* one to every slave, and as results come back, from whoever is first,    *)
(* merges them into the sorted part of the vector and sends the next task  *)
(* to the same slave.  A task whose first value is STOP ends a slave.      *)
(*                                                                         *)
(* vector_sort is kept up to actual_index, behind which nothing is read.   *)
(* A slave's slave_to_master is never cleared: rankSort writes every value *)
(* at its rank, so with equal values some places keep what was there.      *)
(* The branch for one process, a single rankSort, is left out.             *)
(***************************************************************************)
EXTENDS MPI, FiniteSets

CONSTANTS
    Fator,      \* tasks per process (4 in the code)
    Entradas,   \* the vectors the file may hold
    Lixo        \* what uninitialised memory may hold

MASTER == 0
STOP == -1
Escravo == 1 .. np - 1
tasks == Fator * np

ASSUME FatorAssumption == Fator \in Nat \ {0}
ASSUME LixoAssumption == Lixo \subseteq Int /\ Lixo # {}
\* Any other length is refused at the start.
ASSUME EntradasAssumption ==
    Entradas \subseteq Seq(Int) /\ \A e \in Entradas : Len(e) > 0 /\ Len(e) % tasks = 0

VARIABLES
    entrada,            \* vector_start as fillVector left it
    pc,                 \* pc[p]: where process p is
    slave,              \* loop index of the master
    tasks_sent, tasks_to_receive, tasks_received,
    vector_sort,        \* the first actual_index values of it
    slave_to_master,    \* the vector of results of each slave
    saida               \* what the master has printed

vars == <<canal, folga, entrada, pc, slave, tasks_sent, tasks_to_receive,
          tasks_received, vector_sort, slave_to_master, saida>>

tasks_size == Len(entrada) \div tasks

\* Mutant: every task is the beginning of the vector.
Tarefa_SemDeslocamento(k) == SubSeq(entrada, 1, tasks_size)

Tarefa(k) == SubSeq(entrada, k * tasks_size + 1, (k + 1) * tasks_size)

-----------------------------------------------------------------------------
(***************************************************************************)
(* The algorithms.                                                         *)
(***************************************************************************)
Rank(v, i) == 1 + Cardinality({j \in DOMAIN v : v[i] > v[j]})

\* A place that is the rank of no value keeps what v_sort had there.
rankSort(v, v_sort) ==
    [r \in DOMAIN v |->
        IF \E i \in DOMAIN v : Rank(v, i) = r
        THEN v[CHOOSE i \in DOMAIN v : Rank(v, i) = r]
        ELSE v_sort[r]]

\* The merge of array[1..mid] and the rest of it.  Mesclar[k] is where round k
\* ends; the set there holds one state, the one round k starts from.
mergeSort(array, mid) ==
    LET end == Len(array)
        Rodada(s) ==
            IF s.ib <= mid /\ (s.im > end \/ array[s.ib] <= array[s.im])
            THEN [ib |-> s.ib + 1, im |-> s.im, b |-> Append(s.b, array[s.ib])]
            ELSE [ib |-> s.ib, im |-> s.im + 1, b |-> Append(s.b, array[s.im])]
        Mesclar[k \in 0 .. end] ==
            IF k = 0 THEN [ib |-> 1, im |-> mid + 1, b |-> <<>>]
            ELSE CHOOSE t \in {Rodada(s) : s \in {Mesclar[k - 1]}} : TRUE
    IN  Mesclar[end].b

-----------------------------------------------------------------------------
Init ==
    /\ InitMPI
    /\ entrada \in Entradas
    /\ pc = [p \in Processo |-> IF p = MASTER THEN "distribuir" ELSE "receber"]
    /\ slave = 1
    /\ tasks_sent = 0 /\ tasks_to_receive = 0 /\ tasks_received = 0
    /\ vector_sort = <<>>
    /\ slave_to_master \in [Escravo -> [1 .. tasks_size -> Lixo]]
    /\ saida = <<>>

Ir(p, de, para) == Livre(p) /\ pc[p] = de /\ pc' = [pc EXCEPT ![p] = para]

\* for(slave = 1; slave < np; slave++): on to `para' after the last slave.
Laco(de, para) ==
    IF slave + 1 < np
    THEN slave' = slave + 1 /\ Ir(MASTER, de, de)
    ELSE slave' = 1 /\ Ir(MASTER, de, para)

Distribuir ==
    /\ Laco("distribuir", "coletar")
    /\ canal' = MPI_Send(canal, MASTER, slave, Tarefa(tasks_sent))
    /\ tasks_sent' = tasks_sent + 1
    /\ tasks_to_receive' = tasks_to_receive + 1
    /\ UNCHANGED <<folga, entrada, tasks_received, vector_sort,
                   slave_to_master, saida>>

\* Mutant: the middle of the merge is taken after the count of results.
Juntar_MeioErrado(resultado) ==
    LET junto == vector_sort \o resultado IN
    IF tasks_received = 0 THEN junto
    ELSE mergeSort(junto, (tasks_received + 1) * tasks_size)

\* The sorted part with one more result.
Juntar(resultado) ==
    LET junto == vector_sort \o resultado IN
    IF tasks_received = 0 THEN junto ELSE mergeSort(junto, tasks_received * tasks_size)

\* Mutant: the result just received stays pending.
Pendentes_SemBaixa(resta) == IF resta THEN tasks_to_receive + 1 ELSE tasks_to_receive

\* The pending results after one is received and, while tasks are left, one
\* task is sent.
Pendentes(resta) == IF resta THEN tasks_to_receive ELSE tasks_to_receive - 1

\* One round of the master's loop: the result of slave s, and its next task.
Coletar(s) ==
    LET resta == tasks_sent < tasks
        recebido == MPI_Recv(canal, s, MASTER)
    IN  /\ Chegou(s, MASTER)
        /\ vector_sort' = Juntar(Head(canal[s][MASTER]))
        /\ canal' = IF resta THEN MPI_Send(recebido, MASTER, s, Tarefa(tasks_sent))
                    ELSE recebido
        /\ tasks_sent' = IF resta THEN tasks_sent + 1 ELSE tasks_sent
        /\ tasks_to_receive' = Pendentes(resta)
        /\ tasks_received' = tasks_received + 1
        /\ Ir(MASTER, "coletar", IF Pendentes(resta) > 0 THEN "coletar" ELSE "parar")
        /\ UNCHANGED <<folga, entrada, slave, slave_to_master, saida>>

\* Mutant: the last slave is not told to stop.
Parar_SemUltimo ==
    /\ Laco("parar", "imprimir")
    /\ canal' = IF slave = np - 1 THEN canal
                ELSE MPI_Send(canal, MASTER, slave, [Tarefa(0) EXCEPT ![1] = STOP])
    /\ UNCHANGED <<folga, entrada, tasks_sent, tasks_to_receive, tasks_received,
                   vector_sort, slave_to_master, saida>>

\* The first task once more, with STOP in front.
Parar ==
    /\ Laco("parar", "imprimir")
    /\ canal' = MPI_Send(canal, MASTER, slave, [Tarefa(0) EXCEPT ![1] = STOP])
    /\ UNCHANGED <<folga, entrada, tasks_sent, tasks_to_receive, tasks_received,
                   vector_sort, slave_to_master, saida>>

Imprimir ==
    /\ Ir(MASTER, "imprimir", "fim")
    /\ saida' = vector_sort
    /\ UNCHANGED <<canal, folga, entrada, slave, tasks_sent, tasks_to_receive,
                   tasks_received, vector_sort, slave_to_master>>

Mestre == Distribuir \/ (\E s \in Escravo : Coletar(s)) \/ Parar \/ Imprimir

Trabalhar(s) ==
    /\ Ir(s, "receber", "receber")
    /\ Chegou(MASTER, s)
    /\ LET tarefa == Head(canal[MASTER][s])
           resultado == rankSort(tarefa, slave_to_master[s])
       IN  /\ tarefa[1] > STOP
           /\ slave_to_master' = [slave_to_master EXCEPT ![s] = resultado]
           /\ canal' = MPI_Send(MPI_Recv(canal, MASTER, s), s, MASTER, resultado)
    /\ UNCHANGED <<folga, entrada, slave, tasks_sent, tasks_to_receive,
                   tasks_received, vector_sort, saida>>

Encerrar(s) ==
    /\ Ir(s, "receber", "fim")
    /\ Chegou(MASTER, s)
    /\ Head(canal[MASTER][s])[1] <= STOP
    /\ canal' = MPI_Recv(canal, MASTER, s)
    /\ UNCHANGED <<folga, entrada, slave, tasks_sent, tasks_to_receive,
                   tasks_received, vector_sort, slave_to_master, saida>>

Next == Mestre \/ \E s \in Escravo : Trabalhar(s) \/ Encerrar(s)

Spec == Init /\ [][Next]_vars

\* mpirun runs every process.
FairSpec ==
    /\ Spec /\ WF_vars(Mestre)
    /\ \A s \in Escravo : WF_vars(Trabalhar(s) \/ Encerrar(s))

-----------------------------------------------------------------------------
(***************************************************************************)
(* Properties.                                                             *)
(***************************************************************************)
\* What random_ints writes: no value can be taken for STOP.
Naturais == \A k \in DOMAIN entrada : entrada[k] > STOP

Ocupado == {s \in Escravo : Chegou(MASTER, s) \/ Chegou(s, MASTER)}

\* A slave has one message at most on its way, task, result or STOP, and the
\* results the master still waits for are those of the busy slaves
\* (master-slave.c:141-167): no result is waited for in vain, and none is left
\* behind when the slaves are told to stop.
UmaTarefa ==
    Naturais =>
        /\ \A s \in Escravo : Len(canal[MASTER][s]) + Len(canal[s][MASTER]) <= 1
        /\ pc[MASTER] \in {"distribuir", "coletar"} =>
              tasks_to_receive = Cardinality(Ocupado)
        /\ pc[MASTER] \in {"parar", "imprimir", "fim"} =>
              \A s \in Escravo : ~ Chegou(s, MASTER)

\* What rankSort can sort: no task holds a value twice (master-slave.c:51).
Distintos ==
    \A k, l \in DOMAIN entrada :
        k # l /\ (k - 1) \div tasks_size = (l - 1) \div tasks_size => entrada[k] # entrada[l]

Vezes(x, v) == Cardinality({k \in DOMAIN v : v[k] = x})

\* The messages under way, and how often x occurs in them.
Mensagens == UNION {{<<p, q, k>> : k \in DOMAIN canal[p][q]} : p, q \in Processo}
EmTransito(x) ==
    Cardinality({l \in Mensagens \X (1 .. tasks_size) :
                    canal[l[1][1]][l[1][2]][l[1][3]][l[2]] = x})

\* While tasks are out, every value of the input is in exactly one place: a
\* task not sent, a message, or the merged part (master-slave.c:141-167).
NadaSePerde ==
    Naturais /\ Distintos /\ pc[MASTER] \in {"distribuir", "coletar"} =>
        \A k \in DOMAIN entrada :
            LET x == entrada[k] IN
            Vezes(x, entrada) =
                Vezes(x, SubSeq(entrada, tasks_sent * tasks_size + 1, Len(entrada)))
                + EmTransito(x) + Vezes(x, vector_sort)

\* The program is a sorter: it prints the input in ascending order.
Programa == INSTANCE Sorter
SorterSpec == Programa!Spec

\* It does print it, and every process comes to its end.
Termina ==
    Naturais => Programa!Termina /\ <>(\A p \in Processo : pc[p] = "fim")
=============================================================================
