------------------------------ MODULE Banquet ------------------------------
(***************************************************************************)
(* What the dining program of SYSOP/src/threads promises, with no forks,   *)
(* threads or retries in sight: N people at a round table, any of whom may *)
(* start eating while neither neighbour eats, and stop at any time.        *)
(* Module Philosophers is shown to implement it.                           *)
(***************************************************************************)
EXTENDS Integers

CONSTANT N      \* people at the table (numeroFilosofos)

VARIABLE comendo    \* the people who are eating now

Pessoa == 0 .. N - 1

\* Two people sit side by side when one is at the right hand of the other.
Direita(p) == (p + 1) % N
Vizinhos(p, q) == p # q /\ (q = Direita(p) \/ p = Direita(q))

Init == comendo = {}

Sentar(p) ==
    /\ \A q \in comendo : ~ Vizinhos(p, q)
    /\ comendo' = comendo \cup {p}

Levantar(p) == comendo' = comendo \ {p}

Next == \E p \in Pessoa : Sentar(p) \/ Levantar(p)

Spec == Init /\ [][Next]_comendo
=============================================================================
