---------------------------- MODULE DivideConquer ----------------------------
(***************************************************************************)
(* PPD/MPI/T3/dc.c: merge sort on a tree of ranks.  While its vector is     *)
(* longer than task_size, a process halves it, sends the second half to    *)
(* rank + 2^level and then the next level; what is left it sorts, merges   *)
(* with the parts that come back, from whoever is first, and returns the   *)
(* whole to where its task came from.  A level is a message like any       *)
(* other: one integer.                                                     *)
(*                                                                         *)
(* Of vector_start, vector_process and vector_sort the first actual_size   *)
(* values are kept, so actual_size is a length.  An execution has size     *)
(* processes (np in the code), np at most; the header of the file names    *)
(* powers of two, nothing checks it, and with other sizes a rank may be    *)
(* called that does not exist, which makes MPI_Send end all processes      *)
(* (MPI_ERRORS_ARE_FATAL).  The branch for one process, a call of sort, is *)
(* left out.                                                               *)
(***************************************************************************)
EXTENDS MPI, FiniteSets, SequencesExt

CONSTANTS
    Tamanhos,   \* the numbers of processes an execution may have
    Entradas    \* the vectors the file may hold

ASSUME TamanhosAssumption == Tamanhos \subseteq 2 .. np
ASSUME EntradasAssumption == Entradas \subseteq Seq(Int) \ {<<>>}

ROOT == 0

VARIABLES
    size,           \* the number of processes of this execution
    entrada,        \* vector_start as fillVector left it
    pc,             \* pc[p]: where process p is
    vetor,          \* vetor[p]: the actual_size values process p works on
    actual_level,   \* the level of p in the tree
    source,         \* where the task of p came from
    process,        \* the parts p waits for (the root goes by the size)
    saida           \* what the root has printed

vars ==
    <<canal, folga, size, entrada, pc, vetor, actual_level, source, process, saida>>

Ranks == 0 .. size - 1

task_size == Len(entrada) \div size

-----------------------------------------------------------------------------
\* Mutant: the second part is taken first whatever it holds.
merge_SemComparar(array, mid) ==
    SubSeq(array, mid + 1, Len(array)) \o SubSeq(array, 1, mid)

\* array[1..mid] and the rest of it merged.
merge(array, mid) ==
    LET end == Len(array)
        Resto[ib \in 1 .. mid + 1, im \in mid + 1 .. end + 1] ==
            IF ib <= mid /\ (im > end \/ array[ib] <= array[im])
            THEN <<array[ib]>> \o Resto[ib + 1, im]
            ELSE IF im <= end THEN <<array[im]>> \o Resto[ib, im + 1] ELSE <<>>
    IN  Resto[1, mid + 1]

\* Both halves sorted and merged; the set holds one vector, the two of them.
sort(array) ==
    LET Trecho[begin \in 0 .. Len(array), end \in 0 .. Len(array)] ==
            LET mid == (begin + end) \div 2 IN
            IF end - begin <= 1 THEN SubSeq(array, begin + 1, end)
            ELSE CHOOSE v \in {merge(u, mid - begin) :
                                  u \in {Trecho[begin, mid] \o Trecho[mid, end]}} : TRUE
    IN  Trecho[0, Len(array)]

-----------------------------------------------------------------------------
Init ==
    /\ InitMPI
    /\ size \in Tamanhos /\ entrada \in Entradas
    /\ Len(entrada) % size = 0     \* any other length is refused at the start
    /\ pc = [p \in Processo |->
                IF p = ROOT THEN "dividir" ELSE IF p \in Ranks THEN "receber" ELSE "fim"]
    /\ vetor = [p \in Processo |-> IF p = ROOT THEN entrada ELSE <<>>]
    /\ actual_level = [p \in Processo |-> 0]
    /\ source = [p \in Processo |-> ROOT]
    /\ process = [p \in Processo |-> 0]
    /\ saida = <<>>

Ir(p, de, para) == Livre(p) /\ pc[p] = de /\ pc' = [pc EXCEPT ![p] = para]

\* The task, from anyone.
ReceberTarefa(p, q) ==
    /\ Ir(p, "receber", "receberNivel")
    /\ Chegou(q, p)
    /\ vetor' = [vetor EXCEPT ![p] = Head(canal[q][p])]
    /\ source' = [source EXCEPT ![p] = q]
    /\ canal' = MPI_Recv(canal, q, p)
    /\ UNCHANGED <<folga, size, entrada, actual_level, process, saida>>

\* Its level, from the same process.
ReceberNivel(p) ==
    /\ Ir(p, "receberNivel", "dividir")
    /\ Chegou(source[p], p)
    /\ actual_level' = [actual_level EXCEPT ![p] = Head(canal[source[p]][p])[1]]
    /\ canal' = MPI_Recv(canal, source[p], p)
    /\ UNCHANGED <<folga, size, entrada, vetor, source, process, saida>>

Dividindo(p) == Livre(p) /\ pc[p] = "dividir" /\ Len(vetor[p]) > task_size

\* Mutant: the distance to the next rank does not grow with the level.
destination_SemNivel(p) == p + 1

destination(p) == p + 2 ^ actual_level[p]

\* Mutant: both parts are the beginning of the vector.
Divisao_SemDeslocamento(v) ==
    [fica |-> SubSeq(v, 1, Len(v) \div 2), vai |-> SubSeq(v, 1, Len(v) \div 2)]

\* The half that stays and the one that goes.
Divisao(v) ==
    LET send_size == Len(v) \div 2 IN
    [fica |-> SubSeq(v, 1, send_size), vai |-> SubSeq(v, send_size + 1, 2 * send_size)]

processD(p) ==
    /\ Dividindo(p) /\ destination(p) \in Ranks
    /\ canal' = MPI_Send(canal, p, destination(p), Divisao(vetor[p]).vai)
    /\ vetor' = [vetor EXCEPT ![p] = Divisao(vetor[p]).fica]
    /\ process' = [process EXCEPT ![p] = @ + 1]
    /\ pc' = [pc EXCEPT ![p] = "enviarNivel"]
    /\ UNCHANGED <<folga, size, entrada, actual_level, source, saida>>

EnviarNivel(p) ==
    /\ Ir(p, "enviarNivel", "dividir")
    /\ canal' = MPI_Send(canal, p, destination(p), <<actual_level[p] + 1>>)
    /\ actual_level' = [actual_level EXCEPT ![p] = @ + 1]
    /\ UNCHANGED <<folga, size, entrada, vetor, source, process, saida>>

\* No such rank: the library ends every process.
Abortar(p) ==
    /\ Dividindo(p) /\ destination(p) \notin Ranks
    /\ pc' = [q \in Processo |-> "abortado"]
    /\ UNCHANGED <<canal, folga, size, entrada, vetor, actual_level, source, process, saida>>

Ordenar(p) ==
    /\ Ir(p, "dividir", "conquistar")
    /\ Len(vetor[p]) <= task_size
    /\ vetor' = [vetor EXCEPT ![p] = sort(@)]
    /\ UNCHANGED <<canal, folga, size, entrada, actual_level, source, process, saida>>

\* The root waits until it has as many values as the file, the others for one
\* part of each process they sent a task to.
Faltam(p) == IF p = ROOT THEN Len(vetor[p]) < Len(entrada) ELSE process[p] > 0

\* Mutant: actual_size grows before the copy and after it.
processC_EmDobro(p, q) ==
    /\ Ir(p, "conquistar", "conquistar") /\ Faltam(p)
    /\ Chegou(q, p)
    /\ LET parte == Head(canal[q][p]) IN
       vetor' = [vetor EXCEPT ![p] = merge(@ \o parte \o parte, Len(@))]
    /\ process' = [process EXCEPT ![p] = @ - 1]
    /\ canal' = MPI_Recv(canal, q, p)
    /\ UNCHANGED <<folga, size, entrada, actual_level, source, saida>>

\* Mutant: the part received is not counted.
processC_SemBaixa(p, q) ==
    /\ Ir(p, "conquistar", "conquistar") /\ Faltam(p)
    /\ Chegou(q, p)
    /\ vetor' = [vetor EXCEPT ![p] = merge(@ \o Head(canal[q][p]), Len(@))]
    /\ canal' = MPI_Recv(canal, q, p)
    /\ UNCHANGED <<folga, size, entrada, actual_level, source, process, saida>>

processC(p, q) ==
    /\ Ir(p, "conquistar", "conquistar") /\ Faltam(p)
    /\ Chegou(q, p)
    /\ \E junto \in {vetor[p] \o Head(canal[q][p])} :
          vetor' = [vetor EXCEPT ![p] = merge(junto, Len(@))]
    /\ process' = [process EXCEPT ![p] = @ - 1]
    /\ canal' = MPI_Recv(canal, q, p)
    /\ UNCHANGED <<folga, size, entrada, actual_level, source, saida>>

Devolver(p) ==
    /\ p # ROOT
    /\ Ir(p, "conquistar", "fim") /\ ~ Faltam(p)
    /\ canal' = MPI_Send(canal, p, source[p], vetor[p])
    /\ UNCHANGED <<folga, size, entrada, vetor, actual_level, source, process, saida>>

Imprimir ==
    /\ Ir(ROOT, "conquistar", "fim") /\ ~ Faltam(ROOT)
    /\ saida' = vetor[ROOT]
    /\ UNCHANGED <<canal, folga, size, entrada, vetor, actual_level, source, process>>

Passo(p) ==
    \/ \E q \in Processo : ReceberTarefa(p, q) \/ processC(p, q)
    \/ ReceberNivel(p) \/ processD(p) \/ EnviarNivel(p) \/ Abortar(p)
    \/ Ordenar(p) \/ Devolver(p)
    \/ p = ROOT /\ Imprimir

Next == \E p \in Processo : Passo(p)

Spec == Init /\ [][Next]_vars

\* Some process that can run does: mpirun runs them all, and this much is enough
\* because no process can take steps for ever.
FairSpec == Spec /\ WF_vars(Next)

-----------------------------------------------------------------------------
(***************************************************************************)
(* Properties.                                                             *)
(***************************************************************************)
Vetor == Seq(Int)

\* The type invariant: every vector fits the sort_size values its array has
\* room for (dc.c:99, 159, 210).
TypeOK ==
    /\ canal \in [Processo -> [Processo -> Seq(Vetor)]]
    /\ folga \in Folgas
    /\ size \in Tamanhos /\ entrada \in Entradas
    /\ pc \in [Processo -> {"receber", "receberNivel", "dividir", "enviarNivel",
                            "conquistar", "fim", "abortado"}]
    /\ vetor \in [Processo -> Vetor]
    /\ \A p \in Processo : Len(vetor[p]) <= Len(entrada)
    /\ actual_level \in [Processo -> Nat] /\ source \in [Processo -> Processo]
    /\ process \in [Processo -> Nat]
    /\ saida \in Vetor

\* The reference: q without its highest bit.
Pai(q) == q - CHOOSE b \in {2 ^ i : i \in 0 .. q} : b <= q /\ q < 2 * b

\* Every rank gets one task, from its parent in the binomial tree, and nothing
\* else ever reaches it but the level and, from its children, one sorted part
\* each; so a receive from any source (dc.c:82, 219) never takes one message
\* for another, and its sender is always the one whose turn it is.
Arvore ==
    \A p, q \in Processo :
        Chegou(p, q) /\ pc[q] # "abortado" =>
            IF q # ROOT /\ pc[q] \in {"receber", "receberNivel"}
            THEN p = Pai(q) /\ Len(canal[p][q]) <= IF pc[q] = "receber" THEN 2 ELSE 1
            ELSE /\ p # ROOT /\ q = Pai(p) /\ source[p] = q /\ pc[p] = "fim"
                 /\ Len(canal[p][q]) = 1

\* The sizes the header names (dc.c:9).
PotenciaDeDois == \E i \in 0 .. size : size = 2 ^ i

\* What process p has.  After a process has returned its part, it is not its own.
Com(p) == IF p # ROOT /\ pc[p] = "fim" THEN <<>> ELSE vetor[p]

\* What is on its way from p to q: the first message to a process without a
\* task is the task, what comes from a process at its end is its sorted part.
EmTransito(p, q) ==
    IF Chegou(p, q) /\ (pc[q] = "receber" \/ pc[p] = "fim") THEN canal[p][q][1] ELSE <<>>

\* Every value of the input is always in exactly one place, with one process or
\* on its way to one: halving loses none and appending at actual_size
\* overwrites none (dc.c:71-75, 82-86).
NadaSePerde ==
    PotenciaDeDois =>
        LET Lugares(p) == Com(p) \o FlattenSeq([k \in 1 .. size |-> EmTransito(p, k - 1)])
        IN  SortSeq(FlattenSeq([k \in 1 .. size |-> Lugares(k - 1)]), <) = SortSeq(entrada, <)

\* The program is a sorter: it prints the input in ascending order.
Programa == INSTANCE Sorter WITH entrada <- entrada, saida <- saida
SorterSpec == Programa!Spec

\* With the sizes the header names it prints all of it, and every process comes
\* to its end.
Termina ==
    PotenciaDeDois => Programa!Termina /\ <>(\A p \in Processo : pc[p] = "fim")
=============================================================================
