---------------------------- MODULE Philosophers ----------------------------
(***************************************************************************)
(* SYSOP/src/threads/main.c: a dinner for N philosophers.  Every           *)
(* philosopher is a thread and owns one fork, a pthread mutex.  A thread   *)
(* tries its own fork, then the fork of its right neighbour; if the second *)
(* attempt fails it puts the first fork back and tries again later, so it  *)
(* never blocks while it holds a fork.  The main thread creates the        *)
(* threads, lets them go through a semaphore, sleeps, clears `fim', prints *)
(* the report, joins the threads and destroys the forks.                   *)
(*                                                                         *)
(* pc[p] names the statement of Testar/Verificar that thread p runs next   *)
(* and mpc the statement of main.  A pthread mutex of the default kind     *)
(* knows no owner, so a fork is only "free" or "held" here: who holds it   *)
(* follows from the program counters.                                      *)
(***************************************************************************)
EXTENDS Integers

CONSTANTS
    N,          \* numeroFilosofos
    MaxTurns    \* bound: rounds of the loop of Testar a thread may start

ASSUME NAssumption == N \in Nat \ {0}

VARIABLES
    fim,        \* 1 while the dinner lasts
    liberador,  \* value of the semaphore
    mpc, i,     \* main: next statement and loop index
    garfo,      \* garfo[f]: the mutex of philosopher f
    pronto,     \* pronto[p]: criarFilosofo has filled filosofo[p]
    pc,         \* pc[p]: next statement of thread p
    relatorio,  \* relatorio[p]: the counters of philosopher p
    impresso    \* impresso[p]: the counters as Imprimir printed them

vars == <<fim, liberador, mpc, i, garfo, pronto, pc, relatorio, impresso>>

Filosofo == 0 .. N - 1
DIREITA(p) == (p + 1) % N
Campo == {"comeu", "pensou", "tentou"}
Zerado == [campo \in Campo |-> 0]

-----------------------------------------------------------------------------
Init ==
    /\ fim = 1
    /\ liberador = 0
    /\ mpc = "create" /\ i = 0
    /\ garfo = [f \in Filosofo |-> "absent"]
    /\ pronto = [p \in Filosofo |-> FALSE]
    /\ pc = [p \in Filosofo |-> "absent"]
    /\ relatorio = [p \in Filosofo |-> Zerado]
    /\ impresso = [p \in Filosofo |-> Zerado]

(***************************************************************************)
(* The main thread.                                                        *)
(***************************************************************************)

\* Mutant: the loop runs once too often.
Laco_UmAMais(next) ==
    IF i < N
    THEN i' = i + 1 /\ mpc' = mpc
    ELSE i' = 0 /\ mpc' = next

\* for(...) over the philosophers: after the last one, on to statement `next'.
Laco(next) ==
    IF i + 1 < N
    THEN i' = i + 1 /\ mpc' = mpc
    ELSE i' = 0 /\ mpc' = next

\* The mutex is initialised and the thread started before criarFilosofo runs.
CriarThread ==
    /\ mpc = "create"
    /\ garfo' = [garfo EXCEPT ![i] = "free"]
    /\ pc' = [pc EXCEPT ![i] = "wait"]
    /\ mpc' = "criarFilosofo"
    /\ UNCHANGED <<fim, liberador, i, pronto, relatorio, impresso>>

\* pthread_create fails: main returns, which ends the process.
CriarThreadFalha ==
    /\ mpc = "create"
    /\ garfo' = [garfo EXCEPT ![i] = "free"]
    /\ mpc' = "returned"
    /\ UNCHANGED <<fim, liberador, i, pronto, pc, relatorio, impresso>>

criarFilosofo ==
    /\ mpc = "criarFilosofo"
    /\ pronto' = [pronto EXCEPT ![i] = TRUE]
    /\ relatorio' = [relatorio EXCEPT ![i] = Zerado]
    /\ IF i + 1 < N
       THEN i' = i + 1 /\ mpc' = "create"
       ELSE i' = 0 /\ mpc' = "post"
    /\ UNCHANGED <<fim, liberador, garfo, pc, impresso>>

\* Mutant: nobody is let in.
Liberar_SemPost ==
    /\ mpc = "post"
    /\ Laco("sleep")
    /\ UNCHANGED <<fim, liberador, garfo, pronto, pc, relatorio, impresso>>

Liberar ==
    /\ mpc = "post"
    /\ liberador' = liberador + 1
    /\ Laco("sleep")
    /\ UNCHANGED <<fim, garfo, pronto, pc, relatorio, impresso>>

\* Mutant: the end of the dinner is not announced to the threads.
Terminar_SemFim ==
    /\ mpc = "sleep"
    /\ mpc' = "comeu"
    /\ UNCHANGED <<fim, liberador, i, garfo, pronto, pc, relatorio, impresso>>

\* sleep(tempoExecucao) returns, whatever the threads have done meanwhile.
Terminar ==
    /\ mpc = "sleep"
    /\ fim' = 0
    /\ mpc' = "comeu"
    /\ UNCHANGED <<liberador, i, garfo, pronto, pc, relatorio, impresso>>

\* One printf of Imprimir: each counter is read when its own line is printed.
Imprimir(campo) ==
    /\ mpc = campo
    /\ impresso' = [impresso EXCEPT ![i][campo] = relatorio[i][campo]]
    /\ \/ campo = "comeu" /\ mpc' = "pensou" /\ i' = i
       \/ campo = "pensou" /\ mpc' = "tentou" /\ i' = i
       \/ campo = "tentou" /\ i + 1 < N /\ mpc' = "comeu" /\ i' = i + 1
       \/ campo = "tentou" /\ i + 1 = N /\ mpc' = "join" /\ i' = 0
    /\ UNCHANGED <<fim, liberador, garfo, pronto, pc, relatorio>>

\* Mutant: the threads are not waited for.
Juntar_SemEspera ==
    /\ mpc = "join"
    /\ Laco("destroy")
    /\ UNCHANGED <<fim, liberador, garfo, pronto, pc, relatorio, impresso>>

Juntar ==
    /\ mpc = "join"
    /\ pc[i] = "done"
    /\ Laco("destroy")
    /\ UNCHANGED <<fim, liberador, garfo, pronto, pc, relatorio, impresso>>

Destruir ==
    /\ mpc = "destroy"
    /\ garfo' = [garfo EXCEPT ![i] = "destroyed"]
    /\ pronto' = [pronto EXCEPT ![i] = FALSE]
    /\ Laco("returned")
    /\ UNCHANGED <<fim, liberador, pc, relatorio, impresso>>

Main ==
    \/ CriarThread \/ CriarThreadFalha \/ criarFilosofo \/ Liberar
    \/ Terminar \/ (\E campo \in Campo : Imprimir(campo))
    \/ Juntar \/ Destruir

(***************************************************************************)
(* The philosopher threads: Testar, with Verificar inlined.                *)
(***************************************************************************)
Ir(p, de, para) == pc[p] = de /\ pc' = [pc EXCEPT ![p] = para]

Contar(p, campo) == relatorio' = [relatorio EXCEPT ![p][campo] = @ + 1]

EsperarLiberador(p) ==
    /\ liberador > 0
    /\ liberador' = liberador - 1
    /\ Ir(p, "wait", "loop")
    /\ UNCHANGED <<fim, mpc, i, garfo, pronto, relatorio, impresso>>

\* while(fim == 1): another round, unless the bound on rounds is reached.
Continuar(p) ==
    /\ fim = 1
    /\ relatorio[p].comeu + relatorio[p].tentou < MaxTurns
    /\ Ir(p, "loop", "own")
    /\ UNCHANGED <<fim, liberador, mpc, i, garfo, pronto, relatorio, impresso>>

Sair(p) ==
    /\ fim # 1
    /\ Ir(p, "loop", "done")
    /\ UNCHANGED <<fim, liberador, mpc, i, garfo, pronto, relatorio, impresso>>

TentarProprio(p) ==
    /\ IF garfo[p] = "free"
       THEN Ir(p, "own", "right") /\ garfo' = [garfo EXCEPT ![p] = "held"]
       ELSE Ir(p, "own", "retry") /\ garfo' = garfo
    /\ UNCHANGED <<fim, liberador, mpc, i, pronto, relatorio, impresso>>

\* Mutant: the result of the second trylock is ignored.
TentarDireita_SemTeste(p) ==
    /\ Ir(p, "right", "eat")
    /\ garfo' = [garfo EXCEPT ![DIREITA(p)] = "held"]
    /\ UNCHANGED <<fim, liberador, mpc, i, pronto, relatorio, impresso>>

TentarDireita(p) ==
    /\ IF garfo[DIREITA(p)] = "free"
       THEN /\ Ir(p, "right", "eat")
            /\ garfo' = [garfo EXCEPT ![DIREITA(p)] = "held"]
       ELSE Ir(p, "right", "release") /\ garfo' = garfo
    /\ UNCHANGED <<fim, liberador, mpc, i, pronto, relatorio, impresso>>

\* Mutant: the retry keeps the own fork.
Devolver_SemLargar(p) ==
    /\ Ir(p, "release", "retry")
    /\ UNCHANGED <<fim, liberador, mpc, i, garfo, pronto, relatorio, impresso>>

\* The right fork is taken: put the own one back.
Devolver(p) ==
    /\ Ir(p, "release", "retry")
    /\ garfo' = [garfo EXCEPT ![p] = "free"]
    /\ UNCHANGED <<fim, liberador, mpc, i, pronto, relatorio, impresso>>

pensarAleatorio(p) ==
    /\ Ir(p, "retry", "loop")
    /\ Contar(p, "tentou")
    /\ UNCHANGED <<fim, liberador, mpc, i, garfo, pronto, impresso>>

Comer(p) ==
    /\ Ir(p, "eat", "dropOwn")
    /\ Contar(p, "comeu")
    /\ UNCHANGED <<fim, liberador, mpc, i, garfo, pronto, impresso>>

LargarProprio(p) ==
    /\ Ir(p, "dropOwn", "dropRight")
    /\ garfo' = [garfo EXCEPT ![p] = "free"]
    /\ UNCHANGED <<fim, liberador, mpc, i, pronto, relatorio, impresso>>

LargarDireita(p) ==
    /\ Ir(p, "dropRight", "think")
    /\ garfo' = [garfo EXCEPT ![DIREITA(p)] = "free"]
    /\ UNCHANGED <<fim, liberador, mpc, i, pronto, relatorio, impresso>>

Pensar(p) ==
    /\ Ir(p, "think", "loop")
    /\ Contar(p, "pensou")
    /\ UNCHANGED <<fim, liberador, mpc, i, garfo, pronto, impresso>>

Testar(p) ==
    \/ EsperarLiberador(p) \/ Continuar(p) \/ Sair(p)
    \/ TentarProprio(p) \/ TentarDireita(p) \/ Devolver(p)
    \/ pensarAleatorio(p) \/ Comer(p)
    \/ LargarProprio(p) \/ LargarDireita(p) \/ Pensar(p)

\* The process is over: main has returned, or has left with pthread_exit.
Encerrado == mpc = "returned" /\ UNCHANGED vars

Next == Main \/ (\E p \in Filosofo : Testar(p)) \/ Encerrado

Spec == Init /\ [][Next]_vars

\* The operating system runs every thread that can run, main among them.
FairSpec ==
    Spec /\ WF_vars(Main) /\ \A p \in Filosofo : WF_vars(Testar(p))
-----------------------------------------------------------------------------
(***************************************************************************)
(* Properties.                                                             *)
(***************************************************************************)
Parada == {"create", "criarFilosofo", "post", "sleep", "comeu", "pensou",
           "tentou", "join", "destroy", "returned"}
Passo == {"absent", "wait", "loop", "own", "right", "release", "retry",
          "eat", "dropOwn", "dropRight", "think", "done"}

\* The type invariant of the threads' shared state (main.c:12-24).
TypeOK ==
    /\ fim \in {0, 1}
    /\ liberador \in Nat
    /\ mpc \in Parada
    /\ i \in Filosofo
    /\ garfo \in [Filosofo -> {"absent", "free", "held", "destroyed"}]
    /\ pronto \in [Filosofo -> BOOLEAN]
    /\ pc \in [Filosofo -> Passo]
    /\ relatorio \in [Filosofo -> [Campo -> Nat]]
    /\ impresso \in [Filosofo -> [Campo -> Nat]]

\* Who holds a fork, by the statements between a trylock and its unlock.
TemProprio(p) == pc[p] \in {"right", "release", "eat", "dropOwn"}
TemDireita(p) == pc[p] \in {"eat", "dropOwn", "dropRight"}
UsaGarfos(p) == pc[p] \in {"own", "right", "release", "eat", "dropOwn", "dropRight"}

\* A mutex is locked exactly while one thread, and one only, is between a
\* successful trylock of it and the unlock (main.c:90-98): nobody unlocks a
\* fork of someone else, and no fork stays behind locked.
OneHolder ==
    \A f \in Filosofo :
        /\ garfo[f] = "held" <=>
              (TemProprio(f) \/ \E p \in Filosofo : f = DIREITA(p) /\ TemDireita(p))
        /\ \A p \in Filosofo : f = DIREITA(p) /\ TemDireita(p) => ~ TemProprio(f)

\* No thread touches a fork, or the Filosofo record it reads the fork from,
\* before main has made both of its forks (main.c:120-129) or after main has
\* begun to destroy them (main.c:143-149).
ForksAlive ==
    \A p \in Filosofo : UsaGarfos(p) =>
        \A f \in {p, DIREITA(p)} : garfo[f] \in {"free", "held"} /\ pronto[f]

\* pthread_mutex_destroy is never called on a locked mutex (main.c:144).
DestroyedWhenFree ==
    [][\A f \in Filosofo :
          garfo'[f] = "destroyed" /\ garfo[f] # "destroyed" => garfo[f] = "free"]_vars

\* The philosophers behave as the banquet of module Banquet: neighbours never
\* eat at the same time (main.c:92-98).
comendo == {p \in Filosofo : pc[p] = "eat"}
Jantar == INSTANCE Banquet
BanquetSpec == Jantar!Spec

\* The program ends: when the time is over every thread leaves its loop, is
\* joined, and main gets to its end (main.c:133-150).
DinnerEnds == <>(mpc = "returned")

\* What has been printed of a philosopher lacks at most the round it was in when
\* main cleared fim: one meal or one attempt, not both, and one pause
\* (main.c:135-137; the report is not the final one, see the README).
Printed(p, campo) ==
    \/ mpc \in {"join", "destroy"}
    \/ mpc \in Campo /\ p < i
    \/ /\ p = i
       /\ \/ mpc = "pensou" /\ campo = "comeu"
          \/ mpc = "tentou" /\ campo \in {"comeu", "pensou"}

Missed(p, campo) == relatorio[p][campo] - impresso[p][campo]

ReportAlmostFinal ==
    \A p \in Filosofo :
        /\ \A campo \in Campo : Printed(p, campo) => Missed(p, campo) \in 0 .. 1
        /\ Printed(p, "comeu") /\ Printed(p, "tentou") =>
              Missed(p, "comeu") + Missed(p, "tentou") <= 1
=============================================================================
