---------------------------- MODULE FixedPriority ----------------------------
(***************************************************************************)
(* What STR/ps.c computes, without its vector, flags and loops: periodic   *)
(* tasks by rate monotonic priority, under a server that in the first tick *)
(* of each of its periods gives one unit to the aperiodic task that comes  *)
(* first, and aperiodic tasks in the time that nobody else wants.  Module  *)
(* PollingServer is shown to implement it.                                 *)
(*                                                                         *)
(* A case has a length (tempo), a server period (servidor), periodic tasks *)
(* 1 .. total_p with work c and period p, and behind them aperiodic tasks  *)
(* with work c and arrival a.                                              *)
(***************************************************************************)
EXTENDS Integers, Sequences, FiniteSets

VARIABLES
    caso,   \* the case
    falta,  \* falta[x]: the work task x has left
    carta   \* who had each tick so far

IDLE == 0

Periodica(s) == 1 .. Len(s.periodicas)
Aperiodica(s) == Len(s.periodicas) + 1 .. Len(s.periodicas) + Len(s.aperiodicas)
Tarefa(s) == Periodica(s) \cup Aperiodica(s)

Dados(s, x) ==
    IF x \in Periodica(s) THEN s.periodicas[x] ELSE s.aperiodicas[x - Len(s.periodicas)]

\* The work of task x is there, for the first time or again, at tick t.
Chega(s, x, t) ==
    IF x \in Periodica(s) THEN t % Dados(s, x).p = 0 ELSE t = Dados(s, x).a

Inicial(s) == [x \in Tarefa(s) |-> IF x \in Periodica(s) THEN Dados(s, x).c ELSE 0]

\* The one of xs that comes before all others.
Primeira(xs, Antes(_, _)) == CHOOSE x \in xs : \A y \in xs \ {x} : Antes(x, y)
PorPeriodo(x, y) ==
    \/ caso.periodicas[x].p < caso.periodicas[y].p
    \/ caso.periodicas[x].p = caso.periodicas[y].p /\ x < y

\* Who gets tick t when each task has so much left.
Escolhida(t, resta) ==
    LET espera(xs) == {x \in xs : resta[x] > 0}
        p == espera(Periodica(caso))
        a == espera(Aperiodica(caso))
    IN  IF a # {} /\ (t % caso.servidor = 0 \/ p = {}) THEN Primeira(a, <)
        ELSE IF p # {} THEN Primeira(p, PorPeriodo)
        ELSE IDLE

Tique ==
    LET t == Len(carta)
        resta == [x \in Tarefa(caso) |->
                    IF Chega(caso, x, t) THEN Dados(caso, x).c ELSE falta[x]]
        x == Escolhida(t, resta)
    IN  /\ t < caso.tempo
        /\ carta' = Append(carta, x)
        /\ falta' = IF x = IDLE THEN resta ELSE [resta EXCEPT ![x] = @ - 1]
        /\ UNCHANGED caso

\* The next case.
Outro ==
    /\ Len(carta) = caso.tempo
    /\ falta' = Inicial(caso') /\ carta' = <<>>

Init == falta = Inicial(caso) /\ carta = <<>>
Next == Tique \/ Outro
Spec == Init /\ [][Next]_<<caso, falta, carta>>
=============================================================================
