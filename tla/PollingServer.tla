---------------------------- MODULE PollingServer ----------------------------
(***************************************************************************)
(* STR/ps.c: the chart of a set of periodic and aperiodic tasks under a    *)
(* polling server.  One action is one tick of the loop in main.  Aperiodic *)
(* tasks are put into the vector of tasks with the server's period, and    *)
(* the vector is sorted once.  The server's own c and all d are read and   *)
(* never used.                                                             *)
(*                                                                         *)
(* Tasks are numbered in the order of the file ('A' is 1); cases follow    *)
(* each other until one has a zero, and each starts anew.  The chart is    *)
(* printed by calculateMetrics.                                            *)
(***************************************************************************)
EXTENDS Integers, Sequences, FiniteSets, SequencesExt

CONSTANTS
    Entradas    \* the files of cases

NUM_MAX_TAREFAS == 26

\* Numbers are unsigned.  A case with a zero ends the program, a period of zero
\* divides by it, and the vectors have room for 729 ticks and 26 tasks.
Casos ==
    [tempo : 1 .. (NUM_MAX_TAREFAS + 1) * (NUM_MAX_TAREFAS + 1), servidor : Nat \ {0},
     periodicas : Seq([c : Nat, p : Nat \ {0}]) \ {<<>>},
     aperiodicas : Seq([a : Nat, c : Nat]) \ {<<>>}]

ASSUME EntradasAssumption ==
    \A e \in Entradas :
        /\ e \in Seq(Casos) \ {<<>>}
        /\ \A n \in DOMAIN e :
              Len(e[n].periodicas) + Len(e[n].aperiodicas) <= NUM_MAX_TAREFAS

VARIABLES
    entrada,            \* the cases of the file
    n,                  \* the number of the case under way
    tasks,              \* the vector, sorted
    scheduler_result,   \* the chart so far; its length is the present time
    preemption,         \* preemptions counted so far
    saida               \* what calculateMetrics has printed

vars == <<entrada, n, tasks, scheduler_result, preemption, saida>>

caso == entrada[n]

IDLE == 0

-----------------------------------------------------------------------------
(***************************************************************************)
(* The functions of ps.c.                                                  *)
(***************************************************************************)
\* The vector as main fills it.
Lidas(s) ==
    [x \in 1 .. Len(s.periodicas) |->
        [id |-> x, c |-> s.periodicas[x].c, p |-> s.periodicas[x].p, a |-> 0,
         to_process |-> s.periodicas[x].c, want |-> FALSE, aperiodic |-> FALSE]]
    \o [j \in 1 .. Len(s.aperiodicas) |->
        [id |-> Len(s.periodicas) + j, c |-> s.aperiodicas[j].c, p |-> s.servidor,
         a |-> s.aperiodicas[j].a, to_process |-> 0, want |-> FALSE, aperiodic |-> TRUE]]

\* Task x goes before task y: by the period, and by the place in the file.
Antes(x, y) == x.p < y.p \/ (x.p = y.p /\ x.id < y.id)

\* Mutant: the periods are not looked at.
sortPeriod_PorId(ts) == ts

\* In place k is the task that k - 1 others go before.
sortPeriod(ts) ==
    [k \in DOMAIN ts |->
        CHOOSE x \in ToSet(ts) : Cardinality({y \in ToSet(ts) : Antes(y, x)}) = k - 1]

verifyPeriod(ts, t) ==
    [k \in DOMAIN ts |->
        IF (~ ts[k].aperiodic /\ t % ts[k].p = 0 /\ t # 0) \/ ts[k].a = t
        THEN [ts[k] EXCEPT !.to_process = ts[k].c] ELSE ts[k]]

\* Mutant: aperiodic tasks take part in every tick.
wantProcess_Sempre(ts, t) ==
    [k \in DOMAIN ts |-> [ts[k] EXCEPT !.want =
        ts[k].to_process > 0 /\ (ts[k].aperiodic => ts[k].a <= t)]]

wantProcess(ts, t) ==
    [k \in DOMAIN ts |-> [ts[k] EXCEPT !.want =
        ts[k].to_process > 0 /\ (ts[k].aperiodic => ts[k].a <= t /\ t % ts[k].p = 0)]]

\* The place of the task to run: an aperiodic one first, when it is the server's
\* tick, and the first that wants to otherwise.
chooseTask(ts, t) ==
    LET servida == SelectInSeq(ts, LAMBDA x : x.aperiodic /\ t % x.p = 0 /\ x.want)
    IN  IF servida # 0 THEN servida ELSE SelectInSeq(ts, LAMBDA x : x.want)

\* Mutant: a task that is done goes on.
getIdleProcess_SemResto(ts, t) == SelectInSeq(ts, LAMBDA x : x.aperiodic /\ x.a <= t)

\* Nobody wants the tick: an aperiodic task with work left, or 0 for IDLE.
getIdleProcess(ts, t) ==
    SelectInSeq(ts, LAMBDA x : x.aperiodic /\ x.to_process > 0 /\ x.a <= t)

\* The task that ran before, x, has not finished (and has not begun anew).
previousWantProcess(ts, x) ==
    \E k \in DOMAIN ts :
        /\ ts[k].id = x
        /\ \/ ts[k].aperiodic /\ ts[k].to_process > 0
           \/ ts[k].to_process # ts[k].c /\ ts[k].want

\* Mutant: a task that runs on is counted too.
doPreemptions_SemTroca(ts, antes, agora) ==
    IF previousWantProcess(ts, antes) \/ antes = IDLE THEN 1 ELSE 0

\* Task agora gets the tick after antes.
doPreemptions(ts, antes, agora) ==
    IF (agora # antes /\ previousWantProcess(ts, antes)) \/ antes = IDLE THEN 1 ELSE 0

getContextSwitch(carta) ==
    Cardinality({i \in 1 .. Len(carta) - 1 : carta[i] # carta[i + 1]}) + 1

-----------------------------------------------------------------------------
Init ==
    /\ entrada \in Entradas /\ n = 1
    /\ tasks = sortPeriod(Lidas(caso))
    /\ scheduler_result = <<>> /\ preemption = 0
    /\ saida = <<>>

\* One tick.
Escalonar ==
    LET t == Len(scheduler_result)
        prontas == wantProcess(verifyPeriod(tasks, t), t)
        arrival == \E k \in DOMAIN prontas : prontas[k].want
        k == IF arrival THEN chooseTask(prontas, t) ELSE getIdleProcess(prontas, t)
        depois == IF k = 0 THEN prontas ELSE [prontas EXCEPT ![k].to_process = @ - 1]
        agora == IF k = 0 THEN IDLE ELSE prontas[k].id
    IN  /\ t < caso.tempo
        /\ tasks' = depois
        /\ scheduler_result' = Append(scheduler_result, agora)
        /\ preemption' = IF arrival /\ t > 0
                         THEN preemption + doPreemptions(depois, scheduler_result[t], agora)
                         ELSE preemption
        /\ UNCHANGED <<entrada, n, saida>>

\* The last tick was IDLE: one preemption more.
Final == IF Last(scheduler_result) = IDLE THEN preemption + 1 ELSE preemption

\* The chart is printed, and the next case, if there is one, read.
calculateMetrics ==
    /\ Len(scheduler_result) = caso.tempo /\ Len(saida) < n
    /\ saida' = Append(saida, [carta |-> scheduler_result, preempcoes |-> Final,
                               trocas |-> getContextSwitch(scheduler_result)])
    /\ IF n = Len(entrada) THEN UNCHANGED <<n, tasks, scheduler_result, preemption>>
       ELSE /\ n' = n + 1
            /\ tasks' = sortPeriod(Lidas(entrada[n + 1]))
            /\ scheduler_result' = <<>> /\ preemption' = 0
    /\ UNCHANGED entrada

Next == Escalonar \/ calculateMetrics

Spec == Init /\ [][Next]_vars

-----------------------------------------------------------------------------
(***************************************************************************)
(* Properties.                                                             *)
(***************************************************************************)
t_atual == Len(scheduler_result)

\* The type invariant: to_process is unsigned and never passes c (ps.c:19, 54, 107, 140).
TypeOK ==
    /\ entrada \in Entradas /\ n \in DOMAIN entrada
    /\ DOMAIN tasks = 1 .. Len(caso.periodicas) + Len(caso.aperiodicas)
    /\ \A k \in DOMAIN tasks : tasks[k].to_process \in 0 .. tasks[k].c
    /\ t_atual <= caso.tempo /\ \A i \in 1 .. t_atual : scheduler_result[i] \in 0 .. Len(tasks)
    /\ preemption \in 0 .. t_atual
    /\ Len(saida) \in {n - 1, n}

\* The response time test of rate monotonic scheduling, with the server as a task
\* of one unit that goes before all others: s.periodicas[k] ends r ticks after its
\* release at the latest.  Of r ticks in a row, those of Multiplos begin a period
\* y if the first does, and the tasks before k ask for the units of work Pedidos.
Multiplos(y, r) == {m \in 0 .. r - 1 : m % y = 0}

Maiores(s, k) ==
    {j \in DOMAIN s.periodicas :
        \/ s.periodicas[j].p < s.periodicas[k].p
        \/ s.periodicas[j].p = s.periodicas[k].p /\ j < k}

Pedidos(s, k, r) ==
    UNION {{j} \X (Multiplos(s.periodicas[j].p, r) \X (1 .. s.periodicas[j].c)) :
              j \in Maiores(s, k)}

TempoDeResposta(s, k, r) ==
    s.periodicas[k].c + Cardinality(Multiplos(s.servidor, r))
        + Cardinality(Pedidos(s, k, r)) <= r

Escalonavel ==
    \A k \in DOMAIN caso.periodicas :
        \E r \in 1 .. caso.periodicas[k].p : TempoDeResposta(caso, k, r)

\* When the test accepts a set, no periodic task has work left when its next
\* period begins, whatever aperiodic tasks arrive: verifyPeriod (ps.c:54)
\* overwrites nothing.
PrazosCumpridos ==
    Escalonavel =>
        \A k \in DOMAIN tasks :
            ~ tasks[k].aperiodic /\ t_atual > 0 /\ t_atual % tasks[k].p = 0
                => tasks[k].to_process = 0

\* The first tick of the work of task x that was under way in tick i.
Liberacao(x, i) == IF x.aperiodic THEN x.a ELSE i - (i % x.p)

Feito(x, de, ate) == Cardinality({i \in de .. ate : scheduler_result[i + 1] = x.id})

\* In tick i, the first being 0, the task of the tick before had work left that
\* was not released just now, and another got the tick: not as aperiodic work
\* in idle time, which ps.c:236 leaves to getIdleProcess.
DeFundo(i) ==
    LET x == scheduler_result[i + 1] IN
    \/ x = IDLE
    \/ x > Len(caso.periodicas) /\ i % caso.servidor # 0

Interrompida(i) ==
    \E k \in DOMAIN tasks :
        LET x == tasks[k] IN
        /\ scheduler_result[i] = x.id /\ scheduler_result[i + 1] # x.id
        /\ ~ x.aperiodic => i % x.p # 0
        /\ Feito(x, Liberacao(x, i - 1), i - 1) < x.c

\* Preemptions, counted tick by tick from the state of the previous task
\* (ps.c:75-96), are those that can be read off the chart: work cut off, and
\* idle time that somebody with a right to the tick ends.
Preempcoes ==
    preemption =
        Cardinality({i \in 1 .. t_atual - 1 :
                        ~ DeFundo(i) /\ (Interrompida(i) \/ scheduler_result[i] = IDLE)})

\* The charts of fixed priorities under a server.
Quadro ==
    INSTANCE FixedPriority WITH
        caso <- caso,
        falta <- [x \in 1 .. Len(tasks) |->
                    tasks[SelectInSeq(tasks, LAMBDA y : y.id = x)].to_process],
        carta <- scheduler_result

QuadroSpec == Quadro!Spec
=============================================================================
