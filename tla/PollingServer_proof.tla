------------------------- MODULE PollingServer_proof -------------------------
(***************************************************************************)
(* Proofs about PollingServer for any file of cases: its types,            *)
(* Preempcoes, PrazosCumpridos, and that it implements FixedPriority.      *)
(*                                                                         *)
(* sortPeriod puts every task into one place, in order (SortPeriodOrdena), *)
(* and the loop changes only the counters and flags of the vector          *)
(* (Trabalha), so the first place found by the code's scans is the task    *)
(* that comes before the others (MesmaEscolha).  What a task has left is   *)
(* its work less the ticks the chart gives it since its release (Conta):   *)
(* from this, and from aperiodic tasks having no tick before they arrive   *)
(* (Chegados), what doPreemptions reads off counters and flags is what the *)
(* chart shows (UltimaPreempta).  By the same count the chart keeps the    *)
(* priorities (Prioridade) and gives nobody more than its work (Medida),   *)
(* and no such chart lets a task that the test accepts miss a period       *)
(* (Prazo).                                                                *)
(***************************************************************************)
EXTENDS PollingServer, FiniteSetTheorems, TLAPS

Total(s) == Len(s.periodicas) + Len(s.aperiodicas)

Registro ==
    [id : Nat, c : Nat, p : Nat \ {0}, a : Nat, to_process : Nat,
     want : BOOLEAN, aperiodic : BOOLEAN]

\* What the loop never changes of a task, as it was read.
Lida(x, s) ==
    /\ x.id \in 1 .. Total(s) /\ x.aperiodic = (x.id > Len(s.periodicas))
    /\ ~ x.aperiodic => /\ x.c = s.periodicas[x.id].c /\ x.p = s.periodicas[x.id].p
                        /\ x.a = 0
    /\ x.aperiodic => /\ x.c = s.aperiodicas[x.id - Len(s.periodicas)].c
                      /\ x.a = s.aperiodicas[x.id - Len(s.periodicas)].a
                      /\ x.p = s.servidor

\* The vector: every task of the case once, in order.
Vetor(ts, s) ==
    /\ ts \in [1 .. Total(s) -> Registro]
    /\ \A k \in 1 .. Total(s) : Lida(ts[k], s)
    /\ \A j, k \in 1 .. Total(s) : j < k => Antes(ts[j], ts[k])
    /\ \A x \in 1 .. Total(s) : \E k \in 1 .. Total(s) : ts[k].id = x

-----------------------------------------------------------------------------
(***************************************************************************)
(* Finite sets of numbers, and places in an order.                         *)
(***************************************************************************)
LEMMA Menor ==
    ASSUME NEW T \in SUBSET Nat, T # {}
    PROVE  Min(T) \in T /\ \A m \in T : Min(T) <= m
<1>. DEFINE R == {q \in Nat \X Nat : q[1] < q[2]}
<1>1. IsWellFoundedOn(R, Nat)
    BY NatLessThanWellFounded DEF OpToRel
<1>2. IsWellFoundedOn(R, T)
    BY <1>1, IsWellFoundedOnSubset
<1>3. PICK x \in T : \A y \in T : ~ (<<y, x>> \in R)
    BY <1>2, WFMin
<1>4. \A y \in T : x <= y
    <2>. TAKE y \in T
    <2>1. x \in Nat /\ y \in Nat /\ <<y, x>> \notin R
        BY <1>3
    <2>2. <<y, x>> \in Nat \X Nat /\ ~ (y < x)
        BY <2>1
    <2>. QED
        BY <2>1, <2>2
<1>. QED
    BY <1>3, <1>4 DEF Min

\* Those of T that go before x.
Anteriores(T, x) == {y \in T : Antes(y, x)}

Ordenavel(T) ==
    /\ IsFiniteSet(T)
    /\ \A x \in T : ~ Antes(x, x)
    /\ \A x, y \in T : x = y \/ Antes(x, y) \/ Antes(y, x)
    /\ \A x, y, z \in T : Antes(x, y) /\ Antes(y, z) => Antes(x, z)

LEMMA Postos ==
    ASSUME NEW T, Ordenavel(T)
    PROVE  /\ Cardinality(T) \in Nat
           /\ \A x \in T : Cardinality(Anteriores(T, x)) \in 0 .. Cardinality(T) - 1
           /\ \A x, y \in T : Antes(x, y) =>
                 Cardinality(Anteriores(T, x)) < Cardinality(Anteriores(T, y))
<1>1. IsFiniteSet(T) /\ Cardinality(T) \in Nat
    BY FS_CardinalityType DEF Ordenavel
<1>2. ASSUME NEW x \in T
      PROVE  /\ IsFiniteSet(Anteriores(T, x)) /\ Cardinality(Anteriores(T, x)) \in Nat
             /\ Cardinality(Anteriores(T, x)) < Cardinality(T)
    <2>1. Anteriores(T, x) \in SUBSET T /\ x \notin Anteriores(T, x)
        BY DEF Anteriores, Ordenavel
    <2>2. /\ IsFiniteSet(Anteriores(T, x))
          /\ Cardinality(Anteriores(T, x)) <= Cardinality(T)
          /\ Cardinality(Anteriores(T, x)) # Cardinality(T)
        BY <1>1, <2>1, FS_Subset
    <2>3. Cardinality(Anteriores(T, x)) \in Nat
        BY <2>2, FS_CardinalityType
    <2>. QED
        BY <1>1, <2>2, <2>3
<1>3. ASSUME NEW x \in T, NEW y \in T, Antes(x, y)
      PROVE  Cardinality(Anteriores(T, x)) < Cardinality(Anteriores(T, y))
    <2>1. Anteriores(T, x) \in SUBSET Anteriores(T, y)
        BY <1>3 DEF Anteriores, Ordenavel
    <2>2. x \in Anteriores(T, y) /\ x \notin Anteriores(T, x)
        BY <1>3 DEF Anteriores, Ordenavel
    <2>3. /\ Cardinality(Anteriores(T, x)) <= Cardinality(Anteriores(T, y))
          /\ Cardinality(Anteriores(T, x)) # Cardinality(Anteriores(T, y))
        BY <1>2, <2>1, <2>2, FS_Subset
    <2>. QED
        BY <1>2, <2>3
<1>. QED
    BY <1>1, <1>2, <1>3

\* In every place is one.
LEMMA TodosOsPostos ==
    ASSUME NEW T, Ordenavel(T), NEW k \in 1 .. Cardinality(T)
    PROVE  \E x \in T : Cardinality(Anteriores(T, x)) = k - 1
<1>. DEFINE m == Cardinality(T)
            f == [x \in T |-> Cardinality(Anteriores(T, x))]
<1>1. IsFiniteSet(T) /\ m \in Nat
    BY FS_CardinalityType DEF Ordenavel
<1>2. IsFiniteSet(0 .. m - 1) /\ Cardinality(0 .. m - 1) = m
    <2>1. /\ IsFiniteSet(0 .. m - 1)
          /\ Cardinality(0 .. m - 1) = IF 0 > m - 1 THEN 0 ELSE (m - 1) - 0 + 1
        <3>1. 0 \in Int /\ m - 1 \in Int
            BY <1>1
        <3>. QED
            BY <3>1, FS_Interval
    <2>. QED
        BY <1>1, <2>1
<1>3. f \in [T -> 0 .. m - 1]
    BY Postos
<1>4. \A x, y \in T : f[x] = f[y] => x = y
    <2>. SUFFICES ASSUME NEW x \in T, NEW y \in T, f[x] = f[y], x # y PROVE FALSE
        OBVIOUS
    <2>1. Antes(x, y) \/ Antes(y, x)
        BY DEF Ordenavel
    <2>2. f[x] < f[y] \/ f[y] < f[x]
        BY <2>1, Postos
    <2>3. f[x] \in Int /\ f[y] \in Int
        BY <1>3
    <2>. QED
        BY <2>2, <2>3
<1>. HIDE DEF f
<1>5. f \in Injection(T, 0 .. m - 1)
    BY <1>3, <1>4 DEF Injection, IsInjective
<1>6. f \in Surjection(T, 0 .. m - 1)
    BY <1>1, <1>2, <1>5, FS_Injection
<1>7. PICK x \in T : f[x] = k - 1
    BY <1>1, <1>6 DEF Surjection
<1>. QED
    BY <1>7 DEF f

-----------------------------------------------------------------------------
(***************************************************************************)
(* The vector as main fills it, and in order.                              *)
(***************************************************************************)
LEMMA Soma ==
    ASSUME NEW x \in Nat, NEW y \in Nat
    PROVE  x + y \in Nat
OBVIOUS

LEMMA Faixa ==
    ASSUME NEW S, NEW q \in Seq(S), NEW l, Len(q) = l
    PROVE  q \in [1 .. l -> S]
OBVIOUS

LEMMA Elementos ==
    ASSUME NEW S, NEW q \in Seq(S)
    PROVE  Len(q) \in Nat /\ \A k \in 1 .. Len(q) : q[k] \in S
OBVIOUS

LEMMA CasoTipo ==
    ASSUME NEW s \in Casos
    PROVE  /\ s.tempo \in Nat /\ s.tempo > 0 /\ s.servidor \in Nat \ {0}
           /\ Len(s.periodicas) \in Nat /\ Len(s.aperiodicas) \in Nat /\ Total(s) \in Nat
           /\ \A x \in 1 .. Len(s.periodicas) :
                 s.periodicas[x].c \in Nat /\ s.periodicas[x].p \in Nat \ {0}
           /\ \A x \in 1 .. Len(s.aperiodicas) :
                 s.aperiodicas[x].c \in Nat /\ s.aperiodicas[x].a \in Nat
<1>1. /\ s.tempo \in 1 .. (NUM_MAX_TAREFAS + 1) * (NUM_MAX_TAREFAS + 1)
      /\ s.servidor \in Nat \ {0}
      /\ s.periodicas \in Seq([c : Nat, p : Nat \ {0}])
      /\ s.aperiodicas \in Seq([a : Nat, c : Nat])
    BY DEF Casos
<1>2. /\ Len(s.periodicas) \in Nat /\ Len(s.aperiodicas) \in Nat
      /\ \A x \in 1 .. Len(s.periodicas) : s.periodicas[x] \in [c : Nat, p : Nat \ {0}]
      /\ \A x \in 1 .. Len(s.aperiodicas) : s.aperiodicas[x] \in [a : Nat, c : Nat]
    BY <1>1, Elementos
<1>3. ASSUME NEW x \in 1 .. Len(s.periodicas)
      PROVE  s.periodicas[x].c \in Nat /\ s.periodicas[x].p \in Nat \ {0}
    BY <1>2
<1>4. ASSUME NEW x \in 1 .. Len(s.aperiodicas)
      PROVE  s.aperiodicas[x].c \in Nat /\ s.aperiodicas[x].a \in Nat
    BY <1>2
<1>5. Total(s) \in Nat
    <2>1. Len(s.periodicas) \in Nat /\ Len(s.aperiodicas) \in Nat
        BY <1>2
    <2>. QED
        BY <2>1, Soma DEF Total
<1>6. s.tempo \in Nat /\ s.tempo > 0
    <2>1. (NUM_MAX_TAREFAS + 1) * (NUM_MAX_TAREFAS + 1) \in Int
        BY DEF NUM_MAX_TAREFAS
    <2>. QED
        BY <1>1, <2>1
<1>. QED
    BY <1>1, <1>2, <1>3, <1>4, <1>5, <1>6

\* Only work comes and goes: x is as read, and all of it.
Inteira(x) == x.to_process = (IF x.aperiodic THEN 0 ELSE x.c)

LEMMA LidasTipo ==
    ASSUME NEW s \in Casos
    PROVE  /\ Lidas(s) \in [1 .. Total(s) -> Registro]
           /\ \A x \in 1 .. Total(s) :
                 /\ Lidas(s)[x].id = x /\ Lida(Lidas(s)[x], s)
                 /\ Inteira(Lidas(s)[x])
<1>. DEFINE m == Len(s.periodicas)  q == Len(s.aperiodicas)
            f == [x \in 1 .. m |->
                    [id |-> x, c |-> s.periodicas[x].c, p |-> s.periodicas[x].p, a |-> 0,
                     to_process |-> s.periodicas[x].c, want |-> FALSE, aperiodic |-> FALSE]]
            g == [j \in 1 .. q |->
                    [id |-> m + j, c |-> s.aperiodicas[j].c, p |-> s.servidor,
                     a |-> s.aperiodicas[j].a, to_process |-> 0, want |-> FALSE,
                     aperiodic |-> TRUE]]
<1>1. m \in Nat /\ q \in Nat /\ Total(s) = m + q
    BY CasoTipo DEF Total
<1>. HIDE DEF m, q
<1>2. f \in [1 .. m -> Registro] /\ g \in [1 .. q -> Registro]
    <2>1. ASSUME NEW x \in 1 .. m PROVE f[x] \in Registro
        BY <1>1, CasoTipo DEF Registro, m, q
    <2>2. ASSUME NEW x \in 1 .. q PROVE g[x] \in Registro
        BY <1>1, CasoTipo DEF Registro, m, q
    <2>. QED
        BY <2>1, <2>2
<1>3. \A x \in 1 .. m : f[x].id = x /\ Lida(f[x], s) /\ Inteira(f[x])
    <2>. SUFFICES ASSUME NEW x \in 1 .. m
                  PROVE  f[x].id = x /\ Lida(f[x], s) /\ Inteira(f[x])
        OBVIOUS
    <2>. DEFINE r == f[x]
    <2>1. /\ r.id = x /\ r.c = s.periodicas[x].c /\ r.p = s.periodicas[x].p /\ r.a = 0
          /\ r.to_process = s.periodicas[x].c /\ r.aperiodic = FALSE
        OBVIOUS
    <2>. HIDE DEF r, f
    <2>2. x \in 1 .. m + q /\ (x > m) = FALSE
        BY <1>1
    <2>3. r.id \in 1 .. Total(s) /\ r.aperiodic = (r.id > Len(s.periodicas))
        BY <1>1, <2>1, <2>2 DEF m
    <2>. QED
        BY <2>1, <2>3 DEF Lida, Inteira, r
<1>4. \A j \in 1 .. q : g[j].id = m + j /\ Lida(g[j], s) /\ Inteira(g[j])
    <2>. SUFFICES ASSUME NEW j \in 1 .. q
                  PROVE  g[j].id = m + j /\ Lida(g[j], s) /\ Inteira(g[j])
        OBVIOUS
    <2>. DEFINE r == g[j]
    <2>1. /\ r.id = m + j /\ r.c = s.aperiodicas[j].c /\ r.p = s.servidor
          /\ r.a = s.aperiodicas[j].a /\ r.to_process = 0 /\ r.aperiodic = TRUE
        OBVIOUS
    <2>. HIDE DEF r, g
    <2>2. m + j \in 1 .. m + q /\ m + j > m /\ (m + j) - m = j
        BY <1>1
    <2>. QED
        BY <1>1, <2>1, <2>2 DEF Lida, Inteira, r, m
<1>5. Lidas(s) = f \o g
    BY DEF Lidas, m, q
<1>. HIDE DEF f, g
<1>6. /\ f \o g \in Seq(Registro) /\ Len(f \o g) = m + q
      /\ \A x \in 1 .. m + q : (f \o g)[x] = IF x <= m THEN f[x] ELSE g[x - m]
    <2>1. f \in Seq(Registro) /\ Len(f) = m /\ g \in Seq(Registro) /\ Len(g) = q
        BY <1>1, <1>2
    <2>2. /\ f \o g \in Seq(Registro) /\ Len(f \o g) = Len(f) + Len(g)
          /\ \A x \in 1 .. Len(f) + Len(g) :
                (f \o g)[x] = IF x <= Len(f) THEN f[x] ELSE g[x - Len(f)]
        BY <2>1
    <2>. QED
        BY <2>1, <2>2
<1>7. f \o g \in [1 .. m + q -> Registro]
    BY <1>6, Faixa
<1>8. ASSUME NEW x \in 1 .. m + q
      PROVE  (f \o g)[x].id = x /\ Lida((f \o g)[x], s) /\ Inteira((f \o g)[x])
    <2>1. CASE x <= m
        <3>1. x \in 1 .. m /\ (f \o g)[x] = f[x]
            BY <1>1, <1>6, <2>1
        <3>. QED
            BY <3>1, <1>3
    <2>2. CASE ~ (x <= m)
        <3>1. x - m \in 1 .. q /\ m + (x - m) = x /\ (f \o g)[x] = g[x - m]
            BY <1>1, <1>6, <2>2
        <3>. QED
            BY <3>1, <1>4
    <2>. QED
        BY <2>1, <2>2
<1>. QED
    BY <1>1, <1>5, <1>7, <1>8

LEMMA LidasOrdenavel ==
    ASSUME NEW s \in Casos
    PROVE  /\ Ordenavel(ToSet(Lidas(s))) /\ Cardinality(ToSet(Lidas(s))) = Total(s)
           /\ \A x \in 1 .. Total(s) : \E r \in ToSet(Lidas(s)) : r.id = x
           /\ \A r \in ToSet(Lidas(s)) : r \in Registro /\ Lida(r, s) /\ Inteira(r)
<1>. DEFINE ts == Lidas(s)  T == ToSet(Lidas(s))  m == Total(s)
<1>1. /\ m \in Nat /\ ts \in [1 .. m -> Registro]
      /\ \A x \in 1 .. m : ts[x].id = x /\ Lida(ts[x], s) /\ Inteira(ts[x])
    BY CasoTipo, LidasTipo
<1>2. T = {ts[i] : i \in 1 .. m}
    BY <1>1 DEF ToSet
<1>. HIDE DEF ts, T, m
<1>3. IsFiniteSet(1 .. m) /\ Cardinality(1 .. m) = m
    <2>1. IsFiniteSet(1 .. m) /\ Cardinality(1 .. m) = IF 1 > m THEN 0 ELSE m - 1 + 1
        BY <1>1, FS_Interval
    <2>. QED
        BY <1>1, <2>1
<1>4. ts \in Bijection(1 .. m, T)
    <2>1. ts \in [1 .. m -> T]
        BY <1>1, <1>2
    <2>2. \A i, j \in 1 .. m : ts[i] = ts[j] => i = j
        BY <1>1
    <2>3. \A r \in T : \E i \in 1 .. m : ts[i] = r
        BY <1>2
    <2>. QED
        BY <2>1, <2>2, <2>3 DEF Bijection, Injection, IsInjective, Surjection
<1>5. IsFiniteSet(T) /\ Cardinality(T) = m
    BY <1>3, <1>4, FS_Bijection DEF ExistsBijection
<1>6. \A r \in T : r \in Registro /\ Lida(r, s) /\ Inteira(r)
    BY <1>1, <1>2
<1>7. \A x \in 1 .. m : \E r \in T : r.id = x
    BY <1>1, <1>2
<1>8. \A x, y \in T : x.id = y.id => x = y
    <2>. SUFFICES ASSUME NEW x \in T, NEW y \in T, x.id = y.id PROVE x = y
        OBVIOUS
    <2>1. PICK i \in 1 .. m : x = ts[i]
        BY <1>2
    <2>2. PICK j \in 1 .. m : y = ts[j]
        BY <1>2
    <2>. QED
        BY <1>1, <2>1, <2>2
<1>9. \A x \in T : x.p \in Nat /\ x.id \in Nat
    BY <1>6 DEF Registro
<1>10. Ordenavel(T)
    <2>1. \A x \in T : ~ Antes(x, x)
        BY <1>9 DEF Antes
    <2>2. \A x, y \in T : x = y \/ Antes(x, y) \/ Antes(y, x)
        BY <1>8, <1>9 DEF Antes
    <2>3. \A x, y, z \in T : Antes(x, y) /\ Antes(y, z) => Antes(x, z)
        BY <1>9 DEF Antes
    <2>. QED
        BY <1>5, <2>1, <2>2, <2>3 DEF Ordenavel
<1>. QED
    BY <1>5, <1>6, <1>7, <1>10 DEF T, m

\* sortPeriod puts every task into one place, in order.
LEMMA SortPeriodOrdena ==
    ASSUME NEW s \in Casos
    PROVE  /\ Vetor(sortPeriod(Lidas(s)), s)
           /\ \A k \in 1 .. Total(s) : Inteira(sortPeriod(Lidas(s))[k])
<1>. DEFINE ts == sortPeriod(Lidas(s))  T == ToSet(Lidas(s))  m == Total(s)
<1>1. /\ m \in Nat /\ Ordenavel(T) /\ Cardinality(T) = m
      /\ \A x \in 1 .. m : \E r \in T : r.id = x
      /\ \A r \in T : r \in Registro /\ Lida(r, s) /\ Inteira(r)
    BY CasoTipo, LidasOrdenavel
<1>2. DOMAIN Lidas(s) = 1 .. m
    BY LidasTipo
<1>3. ts = [k \in 1 .. m |-> CHOOSE x \in T : Cardinality(Anteriores(T, x)) = k - 1]
    BY <1>2 DEF sortPeriod, Anteriores
<1>. HIDE DEF ts, T, m
<1>4. ASSUME NEW k \in 1 .. m
      PROVE  ts[k] \in T /\ Cardinality(Anteriores(T, ts[k])) = k - 1
    <2>1. \E x \in T : Cardinality(Anteriores(T, x)) = k - 1
        BY <1>1, TodosOsPostos
    <2>2. ts[k] = CHOOSE x \in T : Cardinality(Anteriores(T, x)) = k - 1
        BY <1>3
    <2>. QED
        BY <2>1, <2>2
<1>5. \A j, k \in 1 .. m : j < k => Antes(ts[j], ts[k])
    <2>. SUFFICES ASSUME NEW j \in 1 .. m, NEW k \in 1 .. m, j < k
                  PROVE  Antes(ts[j], ts[k])
        OBVIOUS
    <2>. DEFINE a == Cardinality(Anteriores(T, ts[j]))  b == Cardinality(Anteriores(T, ts[k]))
    <2>1. ts[j] \in T /\ ts[k] \in T /\ a = j - 1 /\ b = k - 1
        BY <1>4
    <2>2. ts[j] = ts[k] \/ Antes(ts[k], ts[j]) => ~ (a < b)
        <3>1. ts[j] = ts[k] => a = b
            OBVIOUS
        <3>2. Antes(ts[k], ts[j]) => b < a
            BY <1>1, <2>1, Postos
        <3>. QED
            BY <2>1, <3>1, <3>2
    <2>3. a < b
        BY <2>1
    <2>. QED
        BY <1>1, <2>1, <2>2, <2>3 DEF Ordenavel
<1>6. ASSUME NEW x \in 1 .. m PROVE \E k \in 1 .. m : ts[k].id = x
    <2>1. PICK r \in T : r.id = x
        BY <1>1
    <2>2. Cardinality(Anteriores(T, r)) \in 0 .. m - 1
        BY <1>1, Postos
    <2>. DEFINE k == Cardinality(Anteriores(T, r)) + 1
    <2>3. k \in 1 .. m /\ k - 1 = Cardinality(Anteriores(T, r))
        BY <1>1, <2>2
    <2>. HIDE DEF k
    <2>4. ts[k] \in T /\ Cardinality(Anteriores(T, ts[k])) = Cardinality(Anteriores(T, r))
        BY <2>3, <1>4
    <2>5. ts[k] = r
        <3>1. Antes(ts[k], r) \/ Antes(r, ts[k]) =>
                 \/ Cardinality(Anteriores(T, ts[k])) < Cardinality(Anteriores(T, r))
                 \/ Cardinality(Anteriores(T, r)) < Cardinality(Anteriores(T, ts[k]))
            BY <1>1, <2>4, Postos
        <3>. QED
            BY <1>1, <2>2, <2>4, <3>1 DEF Ordenavel
    <2>. QED
        BY <2>1, <2>3, <2>5
<1>7. ts \in [1 .. m -> Registro] /\ \A k \in 1 .. m : Lida(ts[k], s) /\ Inteira(ts[k])
    BY <1>1, <1>3, <1>4
<1>. QED
    BY <1>5, <1>6, <1>7 DEF Vetor, ts, m

-----------------------------------------------------------------------------
(***************************************************************************)
(* What a tick does.                                                       *)
(***************************************************************************)
\* x and y are the same task, with more or less work left.
Mesma(x, y) ==
    /\ x.id = y.id /\ x.c = y.c /\ x.p = y.p /\ x.a = y.a
    /\ x.aperiodic = y.aperiodic

Chegada(x, t) == (~ x.aperiodic /\ t % x.p = 0 /\ t # 0) \/ x.a = t

\* What task x has left for tick t, and whether it wants the tick.
Resta(x, t) == IF Chegada(x, t) THEN x.c ELSE x.to_process
Quer(x, t) == Resta(x, t) > 0 /\ (x.aperiodic => x.a <= t /\ t % x.p = 0)

\* Aperiodic work for a tick nobody wants.
Sobra(x, t) == x.aperiodic /\ Resta(x, t) > 0 /\ x.a <= t

LEMMA RegistroTipo ==
    ASSUME NEW x \in Registro
    PROVE  /\ x.id \in Nat /\ x.c \in Nat /\ x.p \in Nat \ {0} /\ x.a \in Nat
           /\ x.to_process \in Nat /\ x.want \in BOOLEAN /\ x.aperiodic \in BOOLEAN
BY DEF Registro

LEMMA ProntasFaz ==
    ASSUME NEW m \in Nat, NEW ts \in [1 .. m -> Registro], NEW t \in Nat,
           NEW ps, ps = wantProcess(verifyPeriod(ts, t), t)
    PROVE  /\ ps \in [1 .. m -> Registro]
           /\ \A k \in 1 .. m :
                 /\ Mesma(ps[k], ts[k]) /\ ps[k].to_process = Resta(ts[k], t)
                 /\ ps[k].want = Quer(ts[k], t)
<1>. DEFINE vs == verifyPeriod(ts, t)
<1>1. vs = [k \in 1 .. m |-> IF Chegada(ts[k], t)
                             THEN [ts[k] EXCEPT !.to_process = ts[k].c] ELSE ts[k]]
    BY DEF verifyPeriod, Chegada
<1>. HIDE DEF vs
<1>2. ASSUME NEW k \in 1 .. m
      PROVE  /\ vs[k] \in Registro /\ Mesma(vs[k], ts[k])
             /\ vs[k].to_process = Resta(ts[k], t)
    <2>. DEFINE x == ts[k]
    <2>1. x \in Registro
        OBVIOUS
    <2>2. vs[k] = IF Chegada(x, t) THEN [x EXCEPT !.to_process = x.c] ELSE x
        BY <1>1
    <2>. HIDE DEF x
    <2>3. CASE Chegada(x, t)
        <3>1. vs[k] = [x EXCEPT !.to_process = x.c]
            BY <2>2, <2>3
        <3>2. vs[k] \in Registro /\ vs[k].to_process = x.c
            BY <2>1, <3>1 DEF Registro
        <3>3. Mesma(vs[k], x)
            BY <2>1, <3>1 DEF Registro, Mesma
        <3>. QED
            BY <3>2, <3>3, <2>3 DEF Resta, x
    <2>4. CASE ~ Chegada(x, t)
        BY <2>1, <2>2, <2>4 DEF Resta, Mesma, x
    <2>. QED
        BY <2>3, <2>4
<1>3. vs \in [1 .. m -> Registro]
    BY <1>1, <1>2
<1>4. ps = [k \in 1 .. m |-> [vs[k] EXCEPT !.want =
               vs[k].to_process > 0 /\ (vs[k].aperiodic => vs[k].a <= t /\ t % vs[k].p = 0)]]
    BY <1>3 DEF wantProcess, vs
<1>5. ASSUME NEW k \in 1 .. m
      PROVE  /\ ps[k] \in Registro /\ Mesma(ps[k], ts[k])
             /\ ps[k].to_process = Resta(ts[k], t) /\ ps[k].want = Quer(ts[k], t)
    <2>. DEFINE x == vs[k]
                w == x.to_process > 0 /\ (x.aperiodic => x.a <= t /\ t % x.p = 0)
    <2>1. x \in Registro /\ w \in BOOLEAN
        BY <1>2
    <2>2. ps[k] = [x EXCEPT !.want = w]
        BY <1>4
    <2>3. w = Quer(ts[k], t)
        BY <1>2 DEF Quer, Mesma
    <2>. HIDE DEF x, w
    <2>4. ps[k] \in Registro /\ ps[k].want = w /\ ps[k].to_process = x.to_process
        BY <2>1, <2>2 DEF Registro
    <2>5. Mesma(ps[k], x)
        BY <2>1, <2>2 DEF Registro, Mesma
    <2>6. Mesma(x, ts[k]) /\ x.to_process = Resta(ts[k], t)
        BY <1>2 DEF x
    <2>. QED
        BY <2>3, <2>4, <2>5, <2>6 DEF Mesma
<1>6. ps \in [1 .. m -> Registro]
    BY <1>4, <1>5
<1>. QED
    BY <1>5, <1>6

\* The first place of those in I, or 0.
Primeiro(k, I) ==
    /\ I = {} => k = 0
    /\ I # {} => k \in I /\ \A j \in I : k <= j

LEMMA PrimeiroDe ==
    ASSUME NEW m \in Nat, NEW I \in SUBSET (1 .. m)
    PROVE  Primeiro(IF I # {} THEN Min(I) ELSE 0, I)
<1>1. I \in SUBSET Nat
    OBVIOUS
<1>. QED
    BY <1>1, Menor DEF Primeiro

\* The task in place k gets tick t: before the others that want it, aperiodic ones
\* first, or as the first with work for a tick that nobody wants.
Escolha(ts, t, k) ==
    LET lugares == DOMAIN ts
        querem == {j \in lugares : Quer(ts[j], t)}
        servidas == {j \in querem : ts[j].aperiodic}
    IN  /\ querem # {} =>
              /\ k \in querem /\ (servidas # {} => k \in servidas)
              /\ \A j \in querem : ts[j].aperiodic = ts[k].aperiodic => k <= j
        /\ querem = {} => Primeiro(k, {j \in lugares : Sobra(ts[j], t)})

LEMMA EscolhaFeita ==
    ASSUME NEW m \in Nat, NEW ts \in [1 .. m -> Registro], NEW t \in Nat,
           NEW ps, ps = wantProcess(verifyPeriod(ts, t), t)
    PROVE  /\ (\E j \in DOMAIN ps : ps[j].want) <=> \E j \in 1 .. m : Quer(ts[j], t)
           /\ Escolha(ts, t, IF \E j \in DOMAIN ps : ps[j].want
                             THEN chooseTask(ps, t) ELSE getIdleProcess(ps, t))
<1>1. /\ ps \in [1 .. m -> Registro]
      /\ \A k \in 1 .. m : Mesma(ps[k], ts[k]) /\ ps[k].to_process = Resta(ts[k], t)
                           /\ ps[k].want = Quer(ts[k], t)
    BY ProntasFaz
<1>2. DOMAIN ps = 1 .. m /\ Len(ps) = m /\ DOMAIN ts = 1 .. m
    BY <1>1
<1>. DEFINE querem == {j \in 1 .. m : Quer(ts[j], t)}
            servidas == {j \in querem : ts[j].aperiodic}
            sobram == {j \in 1 .. m : Sobra(ts[j], t)}
<1>3. (\E j \in DOMAIN ps : ps[j].want) <=> querem # {}
    BY <1>1, <1>2
<1>4. {j \in 1 .. m : ps[j].aperiodic /\ t % ps[j].p = 0 /\ ps[j].want} = servidas
    BY <1>1 DEF Mesma, Quer
<1>5. {j \in 1 .. m : ps[j].want} = querem
    BY <1>1
<1>6. {j \in 1 .. m : ps[j].aperiodic /\ ps[j].to_process > 0 /\ ps[j].a <= t} = sobram
    BY <1>1 DEF Mesma, Sobra
<1>. HIDE DEF querem, servidas, sobram
<1>7. querem \in SUBSET (1 .. m) /\ servidas \in SUBSET (1 .. m) /\ sobram \in SUBSET (1 .. m)
    BY DEF querem, servidas, sobram
<1>8. Primeiro(getIdleProcess(ps, t), sobram)
    <2>1. getIdleProcess(ps, t) = IF sobram # {} THEN Min(sobram) ELSE 0
        BY <1>2, <1>6 DEF getIdleProcess, SelectInSeq
    <2>. QED
        BY <1>7, <2>1, PrimeiroDe
<1>9. IF servidas # {} THEN Primeiro(chooseTask(ps, t), servidas)
      ELSE Primeiro(chooseTask(ps, t), querem)
    <2>1. chooseTask(ps, t) =
              LET s == IF servidas # {} THEN Min(servidas) ELSE 0
              IN  IF s # 0 THEN s ELSE IF querem # {} THEN Min(querem) ELSE 0
        BY <1>2, <1>4, <1>5 DEF chooseTask, SelectInSeq
    <2>2. servidas # {} => Min(servidas) # 0
        BY <1>7, Menor
    <2>3. chooseTask(ps, t) = IF servidas # {} THEN Min(servidas)
                              ELSE IF querem # {} THEN Min(querem) ELSE 0
        BY <2>1, <2>2
    <2>. QED
        BY <1>7, <2>3, PrimeiroDe
<1>10. \A j \in querem : ts[j].aperiodic \in BOOLEAN
    BY <1>7, RegistroTipo
<1>11. CASE querem # {}
    <2>. DEFINE k == chooseTask(ps, t)
    <2>1. servidas # {} => k \in servidas /\ \A j \in servidas : k <= j
        BY <1>9 DEF Primeiro
    <2>2. servidas = {} => k \in querem /\ \A j \in querem : k <= j
        BY <1>9, <1>11 DEF Primeiro
    <2>. HIDE DEF k
    <2>3. /\ k \in querem /\ (servidas # {} => k \in servidas)
          /\ \A j \in querem : ts[j].aperiodic = ts[k].aperiodic => k <= j
        BY <2>1, <2>2 DEF servidas
    <2>4. Escolha(ts, t, k)
        BY <1>2, <1>11, <2>3 DEF Escolha, querem, servidas
    <2>. QED
        BY <1>3, <1>11, <2>4 DEF k, querem
<1>12. CASE querem = {}
    <2>1. Escolha(ts, t, getIdleProcess(ps, t))
        BY <1>2, <1>8, <1>12 DEF Escolha, querem, sobram
    <2>. QED
        BY <1>3, <1>12, <2>1 DEF querem
<1>. QED
    BY <1>11, <1>12

LEMMA EscolhaTem ==
    ASSUME NEW m \in Nat, NEW ts \in [1 .. m -> Registro], NEW t \in Nat, NEW k,
           Escolha(ts, t, k)
    PROVE  /\ k \in 0 .. m
           /\ k # 0 => Resta(ts[k], t) > 0 /\ (ts[k].aperiodic => ts[k].a <= t)
<1>1. CASE {j \in DOMAIN ts : Quer(ts[j], t)} # {}
    BY <1>1 DEF Escolha, Quer
<1>2. CASE {j \in DOMAIN ts : Quer(ts[j], t)} = {}
    BY <1>2 DEF Escolha, Primeiro, Sobra
<1>. QED
    BY <1>1, <1>2

\* The vector after tick t, which the task in place k got.
Trabalha(ts, t, k, vs) ==
    /\ Escolha(ts, t, k)
    /\ vs \in [DOMAIN ts -> Registro]
    /\ \A j \in DOMAIN ts :
          /\ Mesma(vs[j], ts[j]) /\ vs[j].want = Quer(ts[j], t)
          /\ vs[j].to_process = Resta(ts[j], t) - (IF j = k THEN 1 ELSE 0)

Dono(ts, k) == IF k = 0 THEN IDLE ELSE ts[k].id

LEMMA EscalonarFaz ==
    ASSUME NEW m \in Nat, tasks \in [1 .. m -> Registro],
           Len(scheduler_result) \in Nat, preemption \in Nat, Escalonar
    PROVE  LET t == Len(scheduler_result) IN
           /\ t < caso.tempo /\ UNCHANGED <<entrada, n, saida>>
           /\ \E k \in 0 .. m :
                 /\ Trabalha(tasks, t, k, tasks')
                 /\ scheduler_result' = Append(scheduler_result, Dono(tasks, k))
                 /\ preemption' = preemption +
                       IF (\E j \in 1 .. m : Quer(tasks[j], t)) /\ t > 0
                       THEN doPreemptions(tasks', scheduler_result[t], Dono(tasks, k))
                       ELSE 0
<1>. DEFINE t == Len(scheduler_result)
            ps == wantProcess(verifyPeriod(tasks, t), t)
            k == IF \E j \in DOMAIN ps : ps[j].want THEN chooseTask(ps, t)
                 ELSE getIdleProcess(ps, t)
            depois == IF k = 0 THEN ps ELSE [ps EXCEPT ![k].to_process = @ - 1]
            agora == IF k = 0 THEN IDLE ELSE ps[k].id
<1>1. /\ t < caso.tempo /\ tasks' = depois
      /\ scheduler_result' = Append(scheduler_result, agora)
      /\ preemption' = IF (\E j \in DOMAIN ps : ps[j].want) /\ t > 0
                       THEN preemption + doPreemptions(depois, scheduler_result[t], agora)
                       ELSE preemption
      /\ UNCHANGED <<entrada, n, saida>>
    BY DEF Escalonar
<1>2. /\ ps \in [1 .. m -> Registro]
      /\ \A j \in 1 .. m : Mesma(ps[j], tasks[j]) /\ ps[j].to_process = Resta(tasks[j], t)
                           /\ ps[j].want = Quer(tasks[j], t)
    BY ProntasFaz
<1>3. /\ (\E j \in DOMAIN ps : ps[j].want) <=> \E j \in 1 .. m : Quer(tasks[j], t)
      /\ Escolha(tasks, t, k)
    BY EscolhaFeita
<1>. HIDE DEF ps, k
<1>4. /\ k \in 0 .. m
      /\ k # 0 => Resta(tasks[k], t) > 0
    BY <1>3, EscolhaTem
<1>5. agora = Dono(tasks, k)
    BY <1>2, <1>4 DEF Dono, Mesma
<1>6. ASSUME NEW j \in 1 .. m
      PROVE  /\ depois[j] \in Registro /\ Mesma(depois[j], tasks[j])
             /\ depois[j].want = Quer(tasks[j], t)
             /\ depois[j].to_process = Resta(tasks[j], t) - (IF j = k THEN 1 ELSE 0)
    <2>. DEFINE x == ps[j]
    <2>1. /\ x \in Registro /\ Mesma(x, tasks[j]) /\ x.to_process = Resta(tasks[j], t)
          /\ x.want = Quer(tasks[j], t)
        BY <1>2
    <2>2. depois[j] = IF j = k THEN [x EXCEPT !.to_process = @ - 1] ELSE x
        BY <1>2
    <2>. HIDE DEF x, depois
    <2>3. CASE j = k
        <3>1. depois[j] = [x EXCEPT !.to_process = x.to_process - 1]
            BY <2>2, <2>3
        <3>2. x.to_process > 0 /\ x.to_process \in Nat
            BY <1>4, <2>1, <2>3, RegistroTipo
        <3>3. x.to_process - 1 \in Nat
            BY <3>2
        <3>4. /\ depois[j] \in Registro /\ depois[j].to_process = x.to_process - 1
              /\ depois[j].want = x.want
            BY <2>1, <3>1, <3>3 DEF Registro
        <3>5. Mesma(depois[j], x)
            BY <2>1, <3>1 DEF Registro, Mesma
        <3>. QED
            BY <2>1, <2>3, <3>4, <3>5 DEF Mesma
    <2>4. CASE j # k
        <3>1. x.to_process \in Nat
            BY <2>1, RegistroTipo
        <3>. QED
            BY <2>1, <2>2, <2>4, <3>1
    <2>. QED
        BY <2>3, <2>4
<1>7. depois \in [1 .. m -> Registro]
    <2>1. DOMAIN depois = 1 .. m /\ depois = [j \in 1 .. m |-> depois[j]]
        BY <1>2
    <2>. QED
        BY <1>6, <2>1
<1>8. Trabalha(tasks, t, k, tasks')
    BY <1>1, <1>3, <1>6, <1>7 DEF Trabalha
<1>9. preemption' = preemption +
          IF (\E j \in 1 .. m : Quer(tasks[j], t)) /\ t > 0
          THEN doPreemptions(tasks', scheduler_result[t], Dono(tasks, k)) ELSE 0
    BY <1>1, <1>3, <1>5
<1>. HIDE DEF depois, agora
<1>. QED
    BY <1>1, <1>4, <1>5, <1>8, <1>9

LEMMA LidaMesma ==
    ASSUME NEW s, NEW x, NEW y, Lida(y, s), Mesma(x, y)
    PROVE  Lida(x, s)
<1>1. x.id \in 1 .. Total(s) /\ x.aperiodic = (x.id > Len(s.periodicas))
    BY DEF Lida, Mesma
<1>2. ~ x.aperiodic => /\ x.c = s.periodicas[x.id].c /\ x.p = s.periodicas[x.id].p
                       /\ x.a = 0
    BY DEF Lida, Mesma
<1>3. x.aperiodic => /\ x.c = s.aperiodicas[x.id - Len(s.periodicas)].c
                     /\ x.a = s.aperiodicas[x.id - Len(s.periodicas)].a
                     /\ x.p = s.servidor
    BY DEF Lida, Mesma
<1>. QED
    BY <1>1, <1>2, <1>3 DEF Lida

\* The tasks of the vector stay what they were read as, in their places.
LEMMA VetorFica ==
    ASSUME NEW s \in Casos, NEW ts, Vetor(ts, s), NEW t, NEW k, NEW vs,
           Trabalha(ts, t, k, vs)
    PROVE  Vetor(vs, s)
<1>. DEFINE m == Total(s)
<1>1. /\ ts \in [1 .. m -> Registro] /\ \A j \in 1 .. m : Lida(ts[j], s)
      /\ \A i, j \in 1 .. m : i < j => Antes(ts[i], ts[j])
      /\ \A x \in 1 .. m : \E j \in 1 .. m : ts[j].id = x
    BY DEF Vetor
<1>2. vs \in [1 .. m -> Registro] /\ \A j \in 1 .. m : Mesma(vs[j], ts[j])
    BY <1>1 DEF Trabalha
<1>. HIDE DEF m
<1>3. \A j \in 1 .. m : Lida(vs[j], s)
    <2>. SUFFICES ASSUME NEW j \in 1 .. m PROVE Lida(vs[j], s)
        OBVIOUS
    <2>1. Lida(ts[j], s) /\ Mesma(vs[j], ts[j])
        BY <1>1, <1>2
    <2>. QED
        BY <2>1, LidaMesma
<1>4. \A i, j \in 1 .. m : i < j => Antes(vs[i], vs[j])
    BY <1>1, <1>2 DEF Antes, Mesma
<1>5. \A x \in 1 .. m : \E j \in 1 .. m : vs[j].id = x
    BY <1>1, <1>2 DEF Mesma
<1>. QED
    BY <1>2, <1>3, <1>4, <1>5 DEF Vetor, m

\* No two places hold the same task.
LEMMA LugarUnico ==
    ASSUME NEW s \in Casos, NEW ts, Vetor(ts, s),
           NEW j \in 1 .. Total(s), NEW k \in 1 .. Total(s), ts[j].id = ts[k].id
    PROVE  j = k
<1>1. Total(s) \in Nat
    BY CasoTipo
<1>2. Lida(ts[j], s) /\ Lida(ts[k], s) /\ ts[j] \in Registro /\ ts[k] \in Registro
    BY DEF Vetor
<1>3. ts[j].p = ts[k].p /\ ts[j].p \in Nat /\ ts[j].id \in Nat
    BY <1>2, RegistroTipo DEF Lida
<1>4. ~ Antes(ts[j], ts[k]) /\ ~ Antes(ts[k], ts[j])
    BY <1>3 DEF Antes
<1>. QED
    BY <1>1, <1>4 DEF Vetor

-----------------------------------------------------------------------------
(***************************************************************************)
(* Work done is counted in the chart.                                      *)
(***************************************************************************)
\* The ticks from de to ate that task x got in the chart c.
Ticks(c, x, de, ate) == Cardinality({i \in de .. ate : c[i + 1] = x})

LEMMA TicksTipo ==
    ASSUME NEW c, NEW x, NEW de \in Int, NEW ate \in Int
    PROVE  /\ Ticks(c, x, de, ate) \in Nat
           /\ de > ate => Ticks(c, x, de, ate) = 0
           /\ \A i \in de .. ate : c[i + 1] = x => Ticks(c, x, de, ate) > 0
<1>. DEFINE T == {i \in de .. ate : c[i + 1] = x}
<1>1. IsFiniteSet(de .. ate)
    BY FS_Interval
<1>2. IsFiniteSet(T)
    BY <1>1, FS_Subset
<1>3. Cardinality(T) \in Nat /\ (Cardinality(T) = 0 <=> T = {})
    BY <1>2, FS_CardinalityType, FS_EmptySet
<1>4. de > ate => T = {}
    OBVIOUS
<1>5. \A i \in de .. ate : c[i + 1] = x => T # {}
    OBVIOUS
<1>. HIDE DEF T
<1>6. Ticks(c, x, de, ate) = Cardinality(T)
    BY DEF Ticks, T
<1>. QED
    BY <1>3, <1>4, <1>5, <1>6

LEMMA TicksIguais ==
    ASSUME NEW S, NEW c \in Seq(S), NEW g \in S, NEW x, NEW de \in Nat, NEW ate \in Int,
           ate < Len(c)
    PROVE  Ticks(Append(c, g), x, de, ate) = Ticks(c, x, de, ate)
<1>1. \A i \in de .. ate : Append(c, g)[i + 1] = c[i + 1]
    OBVIOUS
<1>2. {i \in de .. ate : Append(c, g)[i + 1] = x} = {i \in de .. ate : c[i + 1] = x}
    BY <1>1
<1>. QED
    BY <1>2 DEF Ticks

LEMMA TicksCrescem ==
    ASSUME NEW S, NEW c \in Seq(S), NEW g \in S, NEW x, NEW de \in Nat, NEW t,
           t = Len(c), de <= t
    PROVE  Ticks(Append(c, g), x, de, t) =
               Ticks(c, x, de, t - 1) + (IF g = x THEN 1 ELSE 0)
<1>. DEFINE A == {i \in de .. t - 1 : c[i + 1] = x}
            B == {i \in de .. t : Append(c, g)[i + 1] = x}
<1>1. t \in Nat
    OBVIOUS
<1>2. IsFiniteSet(A)
    <2>1. t - 1 \in Int
        BY <1>1
    <2>2. IsFiniteSet(de .. t - 1)
        BY <2>1, FS_Interval
    <2>. QED
        BY <2>2, FS_Subset
<1>3. Append(c, g)[t + 1] = g /\ \A i \in de .. t - 1 : Append(c, g)[i + 1] = c[i + 1]
    OBVIOUS
<1>4. B = IF g = x THEN A \cup {t} ELSE A
    BY <1>1, <1>3
<1>5. t \notin A
    BY <1>1
<1>. HIDE DEF A, B
<1>6. Cardinality(B) = Cardinality(A) + (IF g = x THEN 1 ELSE 0)
    <2>1. Cardinality(A) \in Nat
        BY <1>2, FS_CardinalityType
    <2>2. Cardinality(A \cup {t}) = Cardinality(A) + 1
        BY <1>2, <1>5, FS_AddElement
    <2>. QED
        BY <1>4, <2>1, <2>2
<1>. QED
    BY <1>6 DEF Ticks, A, B

LEMMA RestoUnico ==
    ASSUME NEW p \in Nat \ {0}, NEW q \in Int, NEW r \in 0 .. p - 1
    PROVE  (p * q + r) % p = r
<1>1. p * q \in Int
    OBVIOUS
<1>. DEFINE t == p * q + r  u == t \div p  v == t % p
<1>2. t \in Int /\ t = p * u + v /\ u \in Int /\ v \in 0 .. p - 1
    <2>1. \A z \in Int : z = p * (z \div p) + (z % p) /\ z \div p \in Int /\ z % p \in 0 .. p - 1
        OBVIOUS
    <2>2. t \in Int
        BY <1>1
    <2>. QED
        BY <2>1, <2>2
<1>. HIDE DEF u, v
<1>3. p * (q - u) = v - r /\ p * (u - q) = r - v
    <2>1. p * (q - u) = p * q - p * u /\ p * (u - q) = p * u - p * q
        BY <1>2
    <2>2. p * u \in Int
        BY <1>2
    <2>. QED
        BY <1>1, <1>2, <2>1, <2>2
<1>4. \A d \in Int : d >= 1 => p * d >= p
    OBVIOUS
<1>5. ~ (q - u >= 1) /\ ~ (u - q >= 1)
    <2>1. q - u \in Int /\ u - q \in Int /\ v - r < p /\ r - v < p
        BY <1>2
    <2>. QED
        BY <1>3, <1>4, <2>1
<1>6. q = u
    BY <1>2, <1>5
<1>. QED
    BY <1>1, <1>2, <1>6 DEF v

\* In the middle of a period, the tick before belongs to the same one.
LEMMA MesmoPeriodo ==
    ASSUME NEW p \in Nat \ {0}, NEW t \in Nat, t % p # 0
    PROVE  t > 0 /\ (t - 1) % p = (t % p) - 1 /\ t % p \in 0 .. p - 1
<1>. DEFINE q == t \div p  r == t % p
<1>1. t = p * q + r /\ q \in Int /\ r \in 0 .. p - 1
    OBVIOUS
<1>2. t # 0
    OBVIOUS
<1>. HIDE DEF q, r
<1>3. r - 1 \in 0 .. p - 1
    BY <1>1 DEF r
<1>4. (p * q + (r - 1)) % p = r - 1
    BY <1>1, <1>3, RestoUnico
<1>5. t - 1 = p * q + (r - 1)
    <2>1. p * q \in Int
        BY <1>1
    <2>. QED
        BY <1>1, <2>1
<1>. QED
    BY <1>1, <1>2, <1>4, <1>5 DEF r

LEMMA RestoTipo ==
    ASSUME NEW p \in Nat \ {0}, NEW t \in Nat
    PROVE  t % p \in 0 .. p - 1 /\ t - (t % p) \in 0 .. t /\ 0 % p = 0
<1>1. t = p * (t \div p) + (t % p) /\ t \div p \in Int /\ t % p \in 0 .. p - 1
    OBVIOUS
<1>2. t \div p >= 0
    <2>1. t \div p < 0 => p * (t \div p) <= - p
        BY <1>1
    <2>2. p * (t \div p) \in Int
        BY <1>1
    <2>. QED
        BY <1>1, <2>1, <2>2
<1>3. p * (t \div p) \in Nat
    BY <1>1, <1>2
<1>4. t - (t % p) = p * (t \div p) /\ t % p >= 0
    BY <1>1, <1>3
<1>5. 0 % p = 0
    <2>1. p * 0 + 0 = 0 /\ 0 \in 0 .. p - 1
        OBVIOUS
    <2>. QED
        BY <2>1, RestoUnico
<1>. QED
    BY <1>1, <1>3, <1>4, <1>5

\* What the chart c says of task x: the work it has left.
Conta(x, c) ==
    x.to_process =
        IF x.aperiodic
        THEN IF Len(c) <= x.a THEN 0 ELSE x.c - Ticks(c, x.id, x.a, Len(c) - 1)
        ELSE IF Len(c) = 0 THEN x.c
        ELSE x.c - Ticks(c, x.id, Liberacao(x, Len(c) - 1), Len(c) - 1)

LEMMA Desconto ==
    ASSUME NEW x \in Nat, NEW y \in Nat, NEW z \in Nat
    PROVE  (x - y) - z = x - (y + z)
OBVIOUS

LEMMA ContaFica ==
    ASSUME NEW S, NEW c \in Seq(S), NEW g \in S, NEW x \in Registro, NEW y \in Registro,
           ~ x.aperiodic => x.a = 0,
           Mesma(y, x), Conta(x, c),
           y.to_process = Resta(x, Len(c)) - (IF g = x.id THEN 1 ELSE 0),
           x.aperiodic /\ g = x.id => x.a <= Len(c)
    PROVE  Conta(y, Append(c, g))
<1>. DEFINE t == Len(c)  d == Append(c, g)  um == IF g = x.id THEN 1 ELSE 0
<1>1. t \in Nat /\ Len(d) = t + 1 /\ (t + 1) - 1 = t /\ ~ (t + 1 = 0)
    OBVIOUS
<1>2. /\ y.id = x.id /\ y.c = x.c /\ y.p = x.p /\ y.a = x.a /\ y.aperiodic = x.aperiodic
      /\ x.c \in Nat /\ x.a \in Nat /\ x.p \in Nat \ {0} /\ x.to_process \in Nat
      /\ x.aperiodic \in BOOLEAN
    BY RegistroTipo DEF Mesma
<1>3. y.to_process = Resta(x, t) - um
    OBVIOUS
<1>4. \A de \in Nat : de <= t =>
          Ticks(d, x.id, de, t) = Ticks(c, x.id, de, t - 1) + um
    BY TicksCrescem
<1>5. Ticks(c, x.id, t, t - 1) = 0
    BY <1>1, TicksTipo
<1>6. \A de \in Nat : Ticks(c, x.id, de, t - 1) \in Nat
    BY <1>1, TicksTipo
<1>. HIDE DEF t, d
<1>7. CASE x.aperiodic
    <2>1. Resta(x, t) = IF x.a = t THEN x.c ELSE x.to_process
        BY <1>7 DEF Resta, Chegada
    <2>2. x.to_process = IF t <= x.a THEN 0 ELSE x.c - Ticks(c, x.id, x.a, t - 1)
        BY <1>7 DEF Conta, t
    <2>3. CASE t < x.a
        <3>1. um = 0 /\ y.to_process = 0
            BY <1>1, <1>2, <1>3, <1>7, <2>1, <2>2, <2>3 DEF t
        <3>2. t + 1 <= x.a
            BY <1>1, <1>2, <2>3
        <3>. QED
            BY <1>1, <1>2, <1>7, <3>1, <3>2 DEF Conta, d
    <2>4. CASE x.a <= t
        <3>1. Resta(x, t) = x.c - Ticks(c, x.id, x.a, t - 1)
            BY <1>1, <1>2, <1>5, <2>1, <2>2, <2>4
        <3>2. Ticks(d, x.id, x.a, t) = Ticks(c, x.id, x.a, t - 1) + um
            BY <1>2, <1>4, <2>4
        <3>3. y.to_process = x.c - Ticks(d, x.id, x.a, t)
            <4>1. x.c \in Nat /\ um \in Nat /\ Ticks(c, x.id, x.a, t - 1) \in Nat
                BY <1>2, <1>6
            <4>. HIDE DEF um
            <4>. QED
                BY <1>3, <3>1, <3>2, <4>1, Desconto
        <3>4. ~ (t + 1 <= x.a)
            BY <1>1, <1>2, <2>4
        <3>. QED
            BY <1>1, <1>2, <1>7, <3>3, <3>4 DEF Conta, d
    <2>. QED
        BY <1>1, <1>2, <2>3, <2>4
<1>8. CASE ~ x.aperiodic
    <2>. DEFINE de == Liberacao(x, t)
    <2>1. de = t - (t % x.p) /\ de \in 0 .. t
        BY <1>1, <1>2, <1>8, RestoTipo DEF Liberacao
    <2>2. Resta(x, t) = x.c - Ticks(c, x.id, de, t - 1)
        <3>1. CASE t % x.p = 0
            <4>1. Chegada(x, t)
                BY <1>8, <3>1, <1>1 DEF Chegada
            <4>2. de = t
                BY <1>1, <2>1, <3>1
            <4>. QED
                BY <1>2, <1>5, <4>1, <4>2 DEF Resta
        <3>2. CASE t % x.p # 0
            <4>1. t > 0 /\ (t - 1) % x.p = (t % x.p) - 1 /\ t % x.p \in 0 .. x.p - 1
                BY <1>1, <1>2, <3>2, MesmoPeriodo
            <4>2. ~ Chegada(x, t)
                BY <1>1, <1>8, <3>2, <4>1 DEF Chegada
            <4>3. Liberacao(x, t - 1) = de
                <5>1. (t - 1) - ((t % x.p) - 1) = t - (t % x.p)
                    BY <1>1, <4>1
                <5>. QED
                    BY <1>8, <2>1, <4>1, <5>1 DEF Liberacao
            <4>4. x.to_process = x.c - Ticks(c, x.id, Liberacao(x, t - 1), t - 1)
                BY <1>1, <1>8, <4>1 DEF Conta, t
            <4>. QED
                BY <4>2, <4>3, <4>4 DEF Resta
        <3>. QED
            BY <3>1, <3>2
    <2>3. Liberacao(y, t) = de
        BY <1>2, <1>8 DEF Liberacao
    <2>. HIDE DEF de
    <2>4. Ticks(d, x.id, de, t) = Ticks(c, x.id, de, t - 1) + um /\ de \in Nat
        BY <1>1, <1>4, <2>1
    <2>5. y.to_process = x.c - Ticks(d, x.id, de, t)
        <3>1. x.c \in Nat /\ um \in Nat /\ Ticks(c, x.id, de, t - 1) \in Nat
            BY <1>2, <1>6, <2>4
        <3>. HIDE DEF um
        <3>. QED
            BY <1>3, <2>2, <2>4, <3>1, Desconto
    <2>. QED
        BY <1>1, <1>2, <1>8, <2>3, <2>5 DEF Conta, d
<1>. QED
    BY <1>2, <1>7, <1>8

-----------------------------------------------------------------------------
(***************************************************************************)
(* Preemptions are those of the chart.                                     *)
(***************************************************************************)
\* DeFundo, Interrompida and the ticks Preempcoes counts, of vector ts, chart c and
\* case s.
Fundo(s, c, i) == c[i + 1] = IDLE \/ (c[i + 1] > Len(s.periodicas) /\ i % s.servidor # 0)

Cortada(x, c, i) ==
    /\ c[i] = x.id /\ c[i + 1] # x.id
    /\ ~ x.aperiodic => i % x.p # 0
    /\ Ticks(c, x.id, Liberacao(x, i - 1), i - 1) < x.c

Preempta(ts, c, s, i) ==
    ~ Fundo(s, c, i) /\ ((\E k \in DOMAIN ts : Cortada(ts[k], c, i)) \/ c[i] = IDLE)

Preemptados(ts, c, s) == {i \in 1 .. Len(c) - 1 : Preempta(ts, c, s, i)}

LEMMA PreempcoesConta ==
    Preempcoes <=> preemption = Cardinality(Preemptados(tasks, scheduler_result, caso))
<1>1. \A x, de, ate : Feito(x, de, ate) = Ticks(scheduler_result, x.id, de, ate)
    BY DEF Feito, Ticks
<1>2. \A i : Interrompida(i) <=> \E k \in DOMAIN tasks : Cortada(tasks[k], scheduler_result, i)
    BY <1>1 DEF Interrompida, Cortada
<1>3. \A i : DeFundo(i) <=> Fundo(caso, scheduler_result, i)
    BY DEF DeFundo, Fundo
<1>4. {i \in 1 .. t_atual - 1 :
          ~ DeFundo(i) /\ (Interrompida(i) \/ scheduler_result[i] = IDLE)}
        = Preemptados(tasks, scheduler_result, caso)
    BY <1>2, <1>3 DEF Preemptados, Preempta, t_atual
<1>. QED
    BY <1>4 DEF Preempcoes

LEMMA LiberacaoTipo ==
    ASSUME NEW x \in Registro, NEW i \in Nat
    PROVE  Liberacao(x, i) \in Nat /\ (~ x.aperiodic => Liberacao(x, i) \in 0 .. i)
<1>1. x.p \in Nat \ {0} /\ x.a \in Nat
    BY RegistroTipo
<1>2. i - (i % x.p) \in 0 .. i
    BY <1>1, RestoTipo
<1>. QED
    BY <1>1, <1>2 DEF Liberacao

LEMMA CortadaFica ==
    ASSUME NEW S, NEW c \in Seq(S), NEW g \in S, NEW i \in Nat, 0 < i, i < Len(c),
           NEW x \in Registro, NEW y, Mesma(y, x)
    PROVE  Cortada(y, Append(c, g), i) <=> Cortada(x, c, i)
<1>1. i - 1 \in Nat /\ i - 1 \in Int /\ i - 1 < Len(c)
    OBVIOUS
<1>2. Append(c, g)[i] = c[i] /\ Append(c, g)[i + 1] = c[i + 1]
    OBVIOUS
<1>3. Liberacao(x, i - 1) \in Nat /\ Liberacao(y, i - 1) = Liberacao(x, i - 1)
    BY <1>1, LiberacaoTipo DEF Mesma, Liberacao
<1>. DEFINE L == Liberacao(x, i - 1)
<1>4. Ticks(Append(c, g), x.id, L, i - 1) = Ticks(c, x.id, L, i - 1)
    BY <1>1, <1>3, TicksIguais
<1>. QED
    BY <1>2, <1>3, <1>4 DEF Cortada, Mesma

LEMMA PreemptaFica ==
    ASSUME NEW S, NEW c \in Seq(S), NEW g \in S, NEW s, NEW i \in Nat, 0 < i, i < Len(c),
           NEW m, NEW ts \in [1 .. m -> Registro], NEW t, NEW k, NEW vs,
           Trabalha(ts, t, k, vs)
    PROVE  Preempta(vs, Append(c, g), s, i) <=> Preempta(ts, c, s, i)
<1>1. Append(c, g)[i] = c[i] /\ Append(c, g)[i + 1] = c[i + 1]
    OBVIOUS
<1>2. DOMAIN vs = 1 .. m /\ DOMAIN ts = 1 .. m /\ \A j \in 1 .. m : Mesma(vs[j], ts[j])
    BY DEF Trabalha
<1>3. \A j \in 1 .. m : Cortada(vs[j], Append(c, g), i) <=> Cortada(ts[j], c, i)
    BY <1>2, CortadaFica
<1>4. Fundo(s, Append(c, g), i) <=> Fundo(s, c, i)
    BY <1>1 DEF Fundo
<1>. QED
    BY <1>1, <1>2, <1>3, <1>4 DEF Preempta

\* Whether the task that had tick t - 1 has begun and not finished what it was
\* released for: by its counters, and by the chart.
LEMMA FicouPorFazer ==
    ASSUME NEW S, NEW c \in Seq(S), NEW t, t = Len(c), t > 0,
           NEW x \in Registro, NEW y \in Registro, Mesma(y, x), Conta(x, c), c[t] = x.id,
           x.aperiodic => x.a < t, ~ x.aperiodic => x.a = 0,
           y.to_process = Resta(x, t), y.want = Quer(x, t)
    PROVE  /\ ~ y.aperiodic => t % y.p # 0
           /\ Ticks(c, y.id, Liberacao(y, t - 1), t - 1) < y.c
           <=>
           \/ y.aperiodic /\ y.to_process > 0
           \/ y.to_process # y.c /\ y.want
<1>1. t \in Nat /\ t - 1 \in Nat /\ (t - 1) + 1 = t /\ t # 0
    OBVIOUS
<1>2. /\ y.id = x.id /\ y.c = x.c /\ y.p = x.p /\ y.a = x.a /\ y.aperiodic = x.aperiodic
      /\ x.c \in Nat /\ x.a \in Nat /\ x.p \in Nat \ {0} /\ x.to_process \in Nat
      /\ x.aperiodic \in BOOLEAN
    BY RegistroTipo DEF Mesma
<1>. DEFINE L == Liberacao(x, t - 1)  f == Ticks(c, x.id, L, t - 1)
<1>3. Liberacao(y, t - 1) = L /\ L \in Nat
    BY <1>1, <1>2, LiberacaoTipo DEF Liberacao
<1>4. f \in Nat
    BY <1>1, <1>3, TicksTipo
<1>5. CASE x.aperiodic
    <2>1. x.to_process = x.c - f
        BY <1>1, <1>2, <1>5 DEF Conta, Liberacao
    <2>2. Resta(x, t) = x.to_process
        BY <1>1, <1>2, <1>5 DEF Resta, Chegada
    <2>3. y.want => y.to_process > 0
        BY DEF Quer
    <2>. HIDE DEF L, f
    <2>4. y.to_process > 0 <=> f < x.c
        BY <1>2, <1>4, <2>1, <2>2
    <2>. QED
        BY <1>2, <1>3, <1>5, <2>3, <2>4 DEF f
<1>6. CASE ~ x.aperiodic
    <2>1. CASE t % x.p = 0
        <3>1. Resta(x, t) = x.c
            BY <1>1, <1>6, <2>1 DEF Resta, Chegada
        <3>. QED
            BY <1>2, <1>6, <2>1, <3>1
    <2>2. CASE t % x.p # 0
        <3>1. x.to_process = x.c - f
            BY <1>1, <1>6 DEF Conta
        <3>2. Resta(x, t) = x.to_process
            BY <1>1, <1>6, <2>2 DEF Resta, Chegada
        <3>3. f > 0
            <4>1. L \in 0 .. t - 1
                BY <1>1, <1>6, LiberacaoTipo
            <4>2. t - 1 \in L .. t - 1 /\ c[(t - 1) + 1] = x.id
                BY <1>1, <4>1
            <4>. HIDE DEF L
            <4>3. L \in Int /\ t - 1 \in Int
                BY <1>1, <1>3
            <4>4. \A i \in L .. t - 1 : c[i + 1] = x.id => Ticks(c, x.id, L, t - 1) > 0
                BY <4>3, TicksTipo
            <4>. QED
                BY <4>2, <4>4
        <3>4. y.want <=> y.to_process > 0
            BY <1>6 DEF Quer
        <3>. HIDE DEF L, f
        <3>5. y.to_process # x.c /\ (y.to_process > 0 <=> f < x.c)
            BY <1>2, <1>4, <3>1, <3>2, <3>3
        <3>. QED
            BY <1>2, <1>3, <1>6, <2>2, <3>4, <3>5 DEF f
    <2>. QED
        BY <2>1, <2>2
<1>. QED
    BY <1>5, <1>6, <1>2

Chegados(ts, c) ==
    \A i \in 1 .. Len(c), k \in DOMAIN ts :
        c[i] = ts[k].id /\ ts[k].aperiodic => ts[k].a < i

\* A tick counts as idle time when nobody wanted it.
LEMMA FundoSe ==
    ASSUME NEW s \in Casos, NEW ts, Vetor(ts, s), NEW c \in Seq(0 .. Total(s)),
           NEW t, t = Len(c), NEW k, Escolha(ts, t, k)
    PROVE  Fundo(s, Append(c, Dono(ts, k)), t) <=>
               ~ \E j \in 1 .. Total(s) : Quer(ts[j], t)
<1>. DEFINE m == Total(s)  g == Dono(ts, k)
<1>1. /\ m \in Nat /\ t \in Nat /\ ts \in [1 .. m -> Registro]
      /\ \A j \in 1 .. m : Lida(ts[j], s)
    BY CasoTipo DEF Vetor
<1>2. k \in 0 .. m
    BY <1>1, EscolhaTem
<1>3. g \in 0 .. m
    BY <1>1, <1>2 DEF Dono, Lida, IDLE
<1>4. Append(c, g)[t + 1] = g
    BY <1>3
<1>5. \A j \in 1 .. m : /\ ts[j].id \in 1 .. m /\ ts[j].aperiodic \in BOOLEAN
                        /\ ts[j].aperiodic <=> ts[j].id > Len(s.periodicas)
                        /\ ts[j].aperiodic => ts[j].p = s.servidor
    BY <1>1, RegistroTipo DEF Lida
<1>. HIDE DEF m
<1>6. CASE \E j \in 1 .. m : Quer(ts[j], t)
    <2>1. k \in 1 .. m /\ Quer(ts[k], t)
        BY <1>1, <1>6 DEF Escolha
    <2>2. g = ts[k].id /\ g # IDLE
        BY <1>5, <2>1 DEF Dono, IDLE
    <2>3. g > Len(s.periodicas) => t % s.servidor = 0
        BY <1>5, <2>1, <2>2 DEF Quer
    <2>. QED
        BY <1>4, <1>6, <2>2, <2>3 DEF Fundo, m
<1>7. CASE ~ \E j \in 1 .. m : Quer(ts[j], t)
    <2>1. {j \in DOMAIN ts : Quer(ts[j], t)} = {}
        BY <1>1, <1>7
    <2>2. Primeiro(k, {j \in DOMAIN ts : Sobra(ts[j], t)})
        BY <2>1 DEF Escolha
    <2>3. CASE k = 0
        BY <1>4, <1>7, <2>3 DEF Fundo, Dono, m
    <2>4. CASE k # 0
        <3>1. k \in 1 .. m /\ Sobra(ts[k], t) /\ ~ Quer(ts[k], t)
            BY <1>1, <1>7, <2>2, <2>4 DEF Primeiro
        <3>2. g = ts[k].id /\ g > Len(s.periodicas) /\ t % s.servidor # 0
            BY <1>5, <2>4, <3>1 DEF Dono, Sobra, Quer
        <3>. QED
            BY <1>4, <1>7, <3>2 DEF Fundo, m
    <2>. QED
        BY <2>3, <2>4
<1>. QED
    BY <1>6, <1>7 DEF m

LEMMA DoPreemptionsTipo ==
    ASSUME NEW ts, NEW antes, NEW agora
    PROVE  doPreemptions(ts, antes, agora) \in {0, 1}
BY DEF doPreemptions

\* What doPreemptions decides from flags and counters is what the chart shows.
LEMMA UltimaPreempta ==
    ASSUME NEW s \in Casos, NEW ts, Vetor(ts, s), NEW c \in Seq(0 .. Total(s)),
           NEW t, t = Len(c), t > 0, NEW k, NEW vs, Trabalha(ts, t, k, vs),
           \A j \in DOMAIN ts : Conta(ts[j], c), Chegados(ts, c),
           \E j \in 1 .. Total(s) : Quer(ts[j], t)
    PROVE  Preempta(vs, Append(c, Dono(ts, k)), s, t) <=>
               doPreemptions(vs, c[t], Dono(ts, k)) = 1
<1>. DEFINE m == Total(s)  g == Dono(ts, k)  d == Append(c, g)
<1>1. /\ m \in Nat /\ t \in Nat /\ ts \in [1 .. m -> Registro]
      /\ \A j \in 1 .. m : Lida(ts[j], s)
    BY CasoTipo DEF Vetor
<1>2. /\ Escolha(ts, t, k) /\ vs \in [1 .. m -> Registro]
      /\ \A j \in 1 .. m : /\ Mesma(vs[j], ts[j]) /\ vs[j].want = Quer(ts[j], t)
                           /\ vs[j].to_process = Resta(ts[j], t) - (IF j = k THEN 1 ELSE 0)
    BY <1>1 DEF Trabalha
<1>3. k \in 0 .. m
    BY <1>1, <1>2, EscolhaTem
<1>4. g \in 0 .. m
    BY <1>1, <1>3 DEF Dono, Lida, IDLE
<1>5. ~ Fundo(s, d, t)
    BY <1>2, FundoSe
<1>6. d[t + 1] = g /\ d[t] = c[t]
    BY <1>4
<1>10. \A x, de, ate : de \in Nat /\ ate \in Int /\ ate < Len(c) =>
          Ticks(d, x, de, ate) = Ticks(c, x, de, ate)
    BY <1>4, TicksIguais
<1>7. ASSUME NEW j \in 1 .. m, ts[j].id = c[t], g # c[t]
      PROVE  Cortada(vs[j], d, t) <=>
                \/ vs[j].aperiodic /\ vs[j].to_process > 0
                \/ vs[j].to_process # vs[j].c /\ vs[j].want
    <2>. DEFINE x == ts[j]  y == vs[j]
    <2>1. x \in Registro /\ y \in Registro /\ Mesma(y, x) /\ Conta(x, c) /\ Lida(x, s)
        BY <1>1, <1>2
    <2>2. j # k
        BY <1>7, <1>1 DEF Dono
    <2>3. y.to_process = Resta(x, t) /\ y.want = Quer(x, t)
        <3>1. Resta(x, t) \in Nat
            BY <2>1, RegistroTipo DEF Resta
        <3>. QED
            BY <1>2, <2>2, <3>1
    <2>4. x.aperiodic => x.a < t
        BY <1>1, <1>7 DEF Chegados
    <2>5. ~ x.aperiodic => x.a = 0
        BY <2>1 DEF Lida
    <2>6. y.id = c[t]
        BY <1>7, <2>1 DEF Mesma
    <2>7. Ticks(d, y.id, Liberacao(y, t - 1), t - 1) = Ticks(c, y.id, Liberacao(y, t - 1), t - 1)
        <3>1. t - 1 \in Nat /\ t - 1 \in Int /\ t - 1 < Len(c)
            BY <1>1
        <3>2. Liberacao(y, t - 1) \in Nat
            BY <2>1, <3>1, LiberacaoTipo
        <3>. QED
            BY <1>10, <3>1, <3>2
    <2>. HIDE DEF x, y
    <2>8. c[t] = x.id
        BY <1>7 DEF x
    <2>9. /\ ~ y.aperiodic => t % y.p # 0
          /\ Ticks(c, y.id, Liberacao(y, t - 1), t - 1) < y.c
          <=>
          \/ y.aperiodic /\ y.to_process > 0
          \/ y.to_process # y.c /\ y.want
        BY <2>1, <2>3, <2>4, <2>5, <2>8, FicouPorFazer
    <2>10. Cortada(y, d, t) <=> /\ ~ y.aperiodic => t % y.p # 0
                                /\ Ticks(c, y.id, Liberacao(y, t - 1), t - 1) < y.c
        BY <1>6, <1>7, <2>6, <2>7 DEF Cortada
    <2>. QED
        BY <2>9, <2>10 DEF y
<1>8. (\E j \in DOMAIN vs : Cortada(vs[j], d, t)) <=>
          g # c[t] /\ previousWantProcess(vs, c[t])
    <2>1. DOMAIN vs = 1 .. m /\ \A j \in 1 .. m : vs[j].id = ts[j].id
        BY <1>2 DEF Mesma
    <2>2. \A j \in 1 .. m : Cortada(vs[j], d, t) => g # c[t] /\ ts[j].id = c[t]
        BY <1>6, <2>1 DEF Cortada
    <2>. HIDE DEF d, g, m
    <2>3. (\E j \in DOMAIN vs : Cortada(vs[j], d, t)) =>
              g # c[t] /\ previousWantProcess(vs, c[t])
        BY <1>7, <2>1, <2>2 DEF previousWantProcess
    <2>4. g # c[t] /\ previousWantProcess(vs, c[t]) =>
              \E j \in DOMAIN vs : Cortada(vs[j], d, t)
        BY <1>7, <2>1 DEF previousWantProcess
    <2>. QED
        BY <2>3, <2>4
<1>. HIDE DEF d, g, m
<1>9. Preempta(vs, d, s, t) <=> (g # c[t] /\ previousWantProcess(vs, c[t])) \/ c[t] = IDLE
    BY <1>5, <1>6, <1>8 DEF Preempta
<1>. QED
    BY <1>9 DEF doPreemptions, d, g

\* One tick more in the chart: the preemptions counted, and those it shows.
LEMMA PreemptadosCrescem ==
    ASSUME NEW s \in Casos, NEW ts, Vetor(ts, s), NEW c \in Seq(0 .. Total(s)),
           NEW t, t = Len(c), NEW k, NEW vs, Trabalha(ts, t, k, vs),
           \A j \in DOMAIN ts : Conta(ts[j], c), Chegados(ts, c)
    PROVE  Cardinality(Preemptados(vs, Append(c, Dono(ts, k)), s)) =
               Cardinality(Preemptados(ts, c, s)) +
                   IF (\E j \in 1 .. Total(s) : Quer(ts[j], t)) /\ t > 0
                   THEN doPreemptions(vs, c[t], Dono(ts, k)) ELSE 0
<1>. DEFINE m == Total(s)  g == Dono(ts, k)  d == Append(c, g)
            A == Preemptados(ts, c, s)  B == Preemptados(vs, d, s)
            conta == IF (\E j \in 1 .. m : Quer(ts[j], t)) /\ t > 0
                     THEN doPreemptions(vs, c[t], g) ELSE 0
<1>1. /\ m \in Nat /\ t \in Nat /\ ts \in [1 .. m -> Registro]
      /\ \A j \in 1 .. m : Lida(ts[j], s)
    BY CasoTipo DEF Vetor
<1>2. g \in 0 .. m /\ Escolha(ts, t, k)
    <2>1. Escolha(ts, t, k)
        BY DEF Trabalha
    <2>2. k \in 0 .. m
        BY <1>1, <2>1, EscolhaTem
    <2>. QED
        BY <1>1, <2>1, <2>2 DEF Dono, Lida, IDLE
<1>3. Len(d) = t + 1
    BY <1>2
<1>4. A \in SUBSET (1 .. t - 1) /\ IsFiniteSet(A) /\ t \notin A
    <2>1. t - 1 \in Int /\ t \notin 1 .. t - 1
        BY <1>1
    <2>2. IsFiniteSet(1 .. t - 1)
        BY <2>1, FS_Interval
    <2>3. A \in SUBSET (1 .. t - 1)
        BY DEF Preemptados
    <2>. QED
        BY <2>1, <2>2, <2>3, FS_Subset
<1>5. \A i \in 1 .. t - 1 : i \in B <=> i \in A
    <2>. SUFFICES ASSUME NEW i \in 1 .. t - 1 PROVE i \in B <=> i \in A
        OBVIOUS
    <2>1. i \in Nat /\ 0 < i /\ i < Len(c) /\ i \in 1 .. Len(c) - 1 /\ i \in 1 .. Len(d) - 1
        BY <1>1, <1>3
    <2>2. Preempta(vs, d, s, i) <=> Preempta(ts, c, s, i)
        BY <1>1, <1>2, <2>1, PreemptaFica
    <2>. QED
        BY <2>1, <2>2 DEF Preemptados
<1>6. B \in SUBSET (1 .. t) /\ (t \in B <=> t > 0 /\ Preempta(vs, d, s, t))
    BY <1>1, <1>3 DEF Preemptados
<1>7. conta \in {0, 1} /\ (t \in B <=> conta = 1)
    <2>1. CASE t > 0 /\ \E j \in 1 .. m : Quer(ts[j], t)
        <3>1. Preempta(vs, d, s, t) <=> doPreemptions(vs, c[t], g) = 1
            BY <2>1, UltimaPreempta
        <3>2. conta = doPreemptions(vs, c[t], g) /\ conta \in {0, 1}
            BY <2>1, DoPreemptionsTipo
        <3>. QED
            BY <1>6, <2>1, <3>1, <3>2
    <2>2. CASE ~ (t > 0 /\ \E j \in 1 .. m : Quer(ts[j], t))
        <3>1. conta = 0
            BY <2>2
        <3>2. t > 0 => ~ Preempta(vs, d, s, t)
            <4>1. t > 0 => Fundo(s, d, t)
                BY <1>2, <2>2, FundoSe
            <4>. QED
                BY <4>1 DEF Preempta
        <3>. QED
            BY <1>6, <3>1, <3>2
    <2>. QED
        BY <2>1, <2>2
<1>. HIDE DEF A, B, conta
<1>8. B = IF conta = 1 THEN A \cup {t} ELSE A
    <2>1. \A i : i \in 1 .. t => i \in 1 .. t - 1 \/ i = t
        BY <1>1
    <2>2. \A i : i # t => (i \in B <=> i \in A)
        BY <1>4, <1>5, <1>6, <2>1
    <2>3. conta = 1 => \A i : i \in B <=> i \in A \cup {t}
        BY <1>7, <2>2
    <2>4. conta # 1 => \A i : i \in B <=> i \in A
        BY <1>4, <1>7, <2>2
    <2>5. conta = 1 => B = A \cup {t}
        BY <2>3
    <2>6. conta # 1 => B = A
        BY <2>4
    <2>. QED
        BY <2>5, <2>6
<1>9. Cardinality(A) \in Nat /\ Cardinality(A \cup {t}) = Cardinality(A) + 1
    BY <1>4, FS_CardinalityType, FS_AddElement
<1>10. Cardinality(B) = Cardinality(A) + conta
    BY <1>7, <1>8, <1>9
<1>. QED
    BY <1>10 DEF A, B, conta

-----------------------------------------------------------------------------
(***************************************************************************)
(* The inductive invariant.                                                *)
(***************************************************************************)
Impresso == [carta : Seq(Nat), preempcoes : Nat, trocas : Nat]

\* The cases, and what has been printed of them.
Leitura ==
    /\ entrada \in Entradas /\ n \in DOMAIN entrada
    /\ saida \in Seq(Impresso) /\ Len(saida) \in {n - 1, n}

\* The vector and the chart of the case under way.
Escala ==
    /\ Vetor(tasks, caso)
    /\ scheduler_result \in Seq(0 .. Total(caso)) /\ Len(scheduler_result) <= caso.tempo
    /\ \A k \in DOMAIN tasks : Conta(tasks[k], scheduler_result)
    /\ Chegados(tasks, scheduler_result)

IInv ==
    /\ Leitura
    /\ Escala
    /\ preemption = Cardinality(Preemptados(tasks, scheduler_result, caso))

LEMMA CasoAtual ==
    ASSUME NEW e \in Entradas, NEW i \in DOMAIN e
    PROVE  e \in Seq(Casos) /\ Len(e) \in Nat /\ i \in 1 .. Len(e) /\ e[i] \in Casos
<1>1. e \in Seq(Casos)
    BY EntradasAssumption
<1>. QED
    BY <1>1

LEMMA PreemptadosTipo ==
    ASSUME NEW ts, NEW s, NEW S, NEW c \in Seq(S)
    PROVE  /\ Cardinality(Preemptados(ts, c, s)) \in Nat
           /\ Cardinality(Preemptados(ts, c, s)) <= Len(c)
           /\ Len(c) = 0 => Cardinality(Preemptados(ts, c, s)) = 0
<1>. DEFINE A == Preemptados(ts, c, s)  m == Len(c)
<1>1. m \in Nat
    OBVIOUS
<1>2. A \in SUBSET (1 .. m)
    BY <1>1 DEF Preemptados
<1>3. IsFiniteSet(1 .. m) /\ Cardinality(1 .. m) <= m
    <2>1. IsFiniteSet(1 .. m) /\ Cardinality(1 .. m) = IF 1 > m THEN 0 ELSE m - 1 + 1
        BY <1>1, FS_Interval
    <2>. QED
        BY <1>1, <2>1
<1>. HIDE DEF A, m
<1>4. IsFiniteSet(A) /\ Cardinality(A) <= Cardinality(1 .. m)
    BY <1>2, <1>3, FS_Subset
<1>5. Cardinality(A) \in Nat /\ Cardinality(1 .. m) \in Nat
    BY <1>3, <1>4, FS_CardinalityType
<1>6. Cardinality(A) <= m
    BY <1>1, <1>3, <1>4, <1>5
<1>. QED
    BY <1>1, <1>5, <1>6 DEF A, m

\* A case begins: the vector is in order and the chart empty.
LEMMA Comeco ==
    ASSUME NEW s \in Casos, NEW ts, ts = sortPeriod(Lidas(s))
    PROVE  /\ Vetor(ts, s) /\ Chegados(ts, <<>>)
           /\ \A k \in DOMAIN ts : Conta(ts[k], <<>>)
           /\ 0 = Cardinality(Preemptados(ts, <<>>, s))
<1>1. Vetor(ts, s) /\ \A k \in 1 .. Total(s) : Inteira(ts[k])
    BY SortPeriodOrdena
<1>2. DOMAIN ts = 1 .. Total(s)
    BY <1>1 DEF Vetor
<1>3. Chegados(ts, <<>>)
    BY DEF Chegados
<1>4. ASSUME NEW k \in 1 .. Total(s) PROVE Conta(ts[k], <<>>)
    <2>1. ts[k] \in Registro /\ Inteira(ts[k])
        BY <1>1 DEF Vetor
    <2>2. ts[k].a \in Nat /\ Len(<<>>) = 0
        BY <2>1, RegistroTipo
    <2>. QED
        BY <2>1, <2>2 DEF Conta, Inteira
<1>5. <<>> \in Seq(Nat) /\ Len(<<>>) = 0
    OBVIOUS
<1>. QED
    BY <1>1, <1>2, <1>3, <1>4, <1>5, PreemptadosTipo

LEMMA InitIInv == Init => IInv
<1>. SUFFICES ASSUME Init PROVE IInv
    OBVIOUS
<1>1. entrada \in Entradas /\ n = 1 /\ entrada # <<>>
    BY EntradasAssumption DEF Init
<1>2. entrada \in Seq(Casos) /\ 1 \in DOMAIN entrada
    <2>1. entrada \in Seq(Casos)
        BY <1>1, EntradasAssumption
    <2>. QED
        BY <1>1, <2>1
<1>3. caso \in Casos
    BY <1>1, <1>2, CasoAtual DEF caso
<1>4. /\ Vetor(tasks, caso) /\ Chegados(tasks, <<>>)
      /\ \A k \in DOMAIN tasks : Conta(tasks[k], <<>>)
      /\ 0 = Cardinality(Preemptados(tasks, <<>>, caso))
    BY <1>3, Comeco DEF Init
<1>5. caso.tempo \in Nat
    BY <1>3, CasoTipo
<1>6. Leitura
    BY <1>1, <1>2 DEF Init, Leitura
<1>7. Escala
    BY <1>4, <1>5 DEF Init, Escala
<1>. QED
    BY <1>4, <1>6, <1>7 DEF Init, IInv

\* What a tick makes of vector and chart.
LEMMA EscalaFica ==
    ASSUME NEW s \in Casos, NEW ts, Vetor(ts, s), NEW c \in Seq(0 .. Total(s)),
           NEW t, t = Len(c), NEW k, NEW vs, Trabalha(ts, t, k, vs),
           \A j \in DOMAIN ts : Conta(ts[j], c), Chegados(ts, c)
    PROVE  LET d == Append(c, Dono(ts, k)) IN
           /\ Vetor(vs, s) /\ d \in Seq(0 .. Total(s)) /\ Len(d) = t + 1
           /\ \A j \in DOMAIN vs : Conta(vs[j], d)
           /\ Chegados(vs, d)
<1>. DEFINE m == Total(s)  g == Dono(ts, k)  d == Append(c, g)
<1>1. /\ m \in Nat /\ t \in Nat /\ ts \in [1 .. m -> Registro]
      /\ \A j \in 1 .. m : Lida(ts[j], s)
    BY CasoTipo DEF Vetor
<1>2. /\ Escolha(ts, t, k) /\ vs \in [1 .. m -> Registro]
      /\ \A j \in 1 .. m :
            /\ Mesma(vs[j], ts[j])
            /\ vs[j].to_process = Resta(ts[j], t) - (IF j = k THEN 1 ELSE 0)
    BY <1>1 DEF Trabalha
<1>3. k \in 0 .. m /\ (k # 0 => (ts[k].aperiodic => ts[k].a <= t))
    BY <1>1, <1>2, EscolhaTem
<1>4. g \in 0 .. m
    BY <1>1, <1>3 DEF Dono, Lida, IDLE
<1>5. d \in Seq(0 .. m) /\ Len(d) = t + 1 /\ d[t + 1] = g
      /\ \A i \in 1 .. t : d[i] = c[i]
    BY <1>4
<1>6. \A j \in 1 .. m : g = ts[j].id <=> j = k
    <2>. SUFFICES ASSUME NEW j \in 1 .. m PROVE g = ts[j].id <=> j = k
        OBVIOUS
    <2>1. ts[j].id \in 1 .. m
        BY <1>1 DEF Lida
    <2>2. CASE k = 0
        BY <1>1, <2>1, <2>2 DEF Dono, IDLE
    <2>3. CASE k # 0
        <3>1. g = ts[k].id /\ k \in 1 .. m
            BY <1>1, <1>3, <2>3 DEF Dono
        <3>. QED
            BY <3>1, LugarUnico
    <2>. QED
        BY <2>2, <2>3
<1>. HIDE DEF d, g
<1>7. ASSUME NEW j \in 1 .. m PROVE Conta(vs[j], d)
    <2>. DEFINE x == ts[j]  y == vs[j]
    <2>1. x \in Registro /\ y \in Registro /\ Mesma(y, x) /\ Conta(x, c) /\ Lida(x, s)
        BY <1>1, <1>2
    <2>2. y.to_process = Resta(x, t) - (IF g = x.id THEN 1 ELSE 0)
        BY <1>2, <1>6
    <2>3. x.aperiodic /\ g = x.id => x.a <= t
        <3>1. g = x.id => j = k /\ k # 0
            BY <1>1, <1>6
        <3>. QED
            BY <3>1, <1>3
    <2>4. ~ x.aperiodic => x.a = 0
        BY <2>1 DEF Lida
    <2>. HIDE DEF x, y, m
    <2>5. c \in Seq(0 .. m) /\ g \in 0 .. m
        BY <1>4 DEF m
    <2>6. Conta(y, Append(c, g))
        BY <2>1, <2>2, <2>3, <2>4, <2>5, ContaFica
    <2>. QED
        BY <2>6 DEF d, y
<1>8. Chegados(vs, d)
    <2>. SUFFICES ASSUME NEW i \in 1 .. t + 1, NEW j \in 1 .. m,
                         d[i] = vs[j].id, vs[j].aperiodic
                  PROVE  vs[j].a < i
        BY <1>2, <1>5 DEF Chegados
    <2>1. vs[j].id = ts[j].id /\ vs[j].a = ts[j].a /\ ts[j].aperiodic /\ ts[j].a \in Nat
        BY <1>1, <1>2, RegistroTipo DEF Mesma
    <2>2. CASE i = t + 1
        <3>1. j = k /\ k # 0
            BY <1>1, <1>5, <1>6, <2>1, <2>2
        <3>2. ts[j].a <= t
            BY <1>3, <2>1, <3>1
        <3>. QED
            BY <1>1, <2>1, <2>2, <3>2
    <2>3. CASE i # t + 1
        <3>1. i \in 1 .. t /\ d[i] = c[i]
            BY <1>1, <1>5, <2>3
        <3>. QED
            BY <1>1, <2>1, <3>1 DEF Chegados
    <2>. QED
        BY <2>2, <2>3
<1>9. Vetor(vs, s)
    BY VetorFica
<1>. QED
    BY <1>2, <1>5, <1>7, <1>8, <1>9 DEF d, g

LEMMA EscalonarIInv == IInv /\ Escalonar => IInv'
<1>. SUFFICES ASSUME IInv, Escalonar PROVE IInv'
    OBVIOUS
<1>. DEFINE t == Len(scheduler_result)  m == Total(caso)
<1>1. caso \in Casos /\ Leitura /\ Escala
    BY CasoAtual DEF IInv, Leitura, caso
<1>2. /\ m \in Nat /\ t \in Nat /\ caso.tempo \in Nat /\ Vetor(tasks, caso)
      /\ scheduler_result \in Seq(0 .. m) /\ tasks \in [1 .. m -> Registro]
      /\ \A k \in DOMAIN tasks : Conta(tasks[k], scheduler_result)
      /\ Chegados(tasks, scheduler_result)
    BY <1>1, CasoTipo DEF Escala, Vetor
<1>3. preemption \in Nat
    BY <1>2, PreemptadosTipo DEF IInv
<1>4. /\ t < caso.tempo /\ UNCHANGED <<entrada, n, saida>>
      /\ \E k \in 0 .. m :
            /\ Trabalha(tasks, t, k, tasks')
            /\ scheduler_result' = Append(scheduler_result, Dono(tasks, k))
            /\ preemption' = preemption +
                  IF (\E j \in 1 .. m : Quer(tasks[j], t)) /\ t > 0
                  THEN doPreemptions(tasks', scheduler_result[t], Dono(tasks, k)) ELSE 0
    BY <1>2, <1>3, EscalonarFaz
<1>5. PICK k \in 0 .. m :
            /\ Trabalha(tasks, t, k, tasks')
            /\ scheduler_result' = Append(scheduler_result, Dono(tasks, k))
            /\ preemption' = preemption +
                  IF (\E j \in 1 .. m : Quer(tasks[j], t)) /\ t > 0
                  THEN doPreemptions(tasks', scheduler_result[t], Dono(tasks, k)) ELSE 0
    BY <1>4
<1>6. caso' = caso
    BY <1>4 DEF caso
<1>7. /\ Vetor(tasks', caso) /\ scheduler_result' \in Seq(0 .. m)
      /\ Len(scheduler_result') = t + 1
      /\ \A j \in DOMAIN tasks' : Conta(tasks'[j], scheduler_result')
      /\ Chegados(tasks', scheduler_result')
    BY <1>1, <1>2, <1>5, EscalaFica
<1>8. Escala'
    <2>1. t + 1 <= caso.tempo
        BY <1>2, <1>4
    <2>. QED
        BY <1>6, <1>7, <2>1 DEF Escala
<1>9. preemption' = Cardinality(Preemptados(tasks', scheduler_result', caso))
    <2>1. Cardinality(Preemptados(tasks', scheduler_result', caso)) =
              Cardinality(Preemptados(tasks, scheduler_result, caso)) +
                  IF (\E j \in 1 .. m : Quer(tasks[j], t)) /\ t > 0
                  THEN doPreemptions(tasks', scheduler_result[t], Dono(tasks, k)) ELSE 0
        BY <1>1, <1>2, <1>5, PreemptadosCrescem
    <2>. QED
        BY <1>5, <2>1 DEF IInv
<1>10. Leitura'
    BY <1>1, <1>4 DEF Leitura
<1>. QED
    BY <1>6, <1>8, <1>9, <1>10 DEF IInv

LEMMA TrocasTipo ==
    ASSUME NEW S, NEW c \in Seq(S)
    PROVE  getContextSwitch(c) \in Nat
<1>. DEFINE A == {i \in 1 .. Len(c) - 1 : c[i] # c[i + 1]}
<1>1. Len(c) - 1 \in Int
    OBVIOUS
<1>2. IsFiniteSet(1 .. Len(c) - 1)
    BY <1>1, FS_Interval
<1>3. IsFiniteSet(A)
    BY <1>2, FS_Subset
<1>. HIDE DEF A
<1>4. Cardinality(A) + 1 \in Nat
    BY <1>3, FS_CardinalityType
<1>. QED
    BY <1>4 DEF getContextSwitch, A

LEMMA CalculateMetricsIInv == IInv /\ calculateMetrics => IInv'
<1>. SUFFICES ASSUME IInv, calculateMetrics PROVE IInv'
    OBVIOUS
<1>. DEFINE um == [carta |-> scheduler_result, preempcoes |-> Final,
                   trocas |-> getContextSwitch(scheduler_result)]
<1>1. caso \in Casos /\ Leitura /\ Escala
    BY CasoAtual DEF IInv, Leitura, caso
<1>2. Total(caso) \in Nat /\ scheduler_result \in Seq(0 .. Total(caso))
    BY <1>1, CasoTipo DEF Escala
<1>3. um \in Impresso
    <2>1. scheduler_result \in Seq(Nat)
        BY <1>2
    <2>2. Final \in Nat
        BY <1>2, PreemptadosTipo DEF IInv, Final
    <2>3. getContextSwitch(scheduler_result) \in Nat
        BY <1>2, TrocasTipo
    <2>. QED
        BY <2>1, <2>2, <2>3 DEF Impresso
<1>. HIDE DEF um
<1>4. saida \in Seq(Impresso) /\ saida' = Append(saida, um) /\ entrada' = entrada
      /\ Len(saida) < n /\ Len(saida) \in {n - 1, n}
    BY <1>1 DEF calculateMetrics, Leitura, um
<1>5. /\ entrada \in Entradas /\ entrada \in Seq(Casos) /\ Len(entrada) \in Nat
      /\ n \in 1 .. Len(entrada)
    BY <1>1, CasoAtual DEF Leitura
<1>6. saida' \in Seq(Impresso) /\ Len(saida') = n
    BY <1>3, <1>4, <1>5
<1>7. CASE n = Len(entrada)
    <2>1. UNCHANGED <<n, tasks, scheduler_result, preemption>>
        BY <1>7 DEF calculateMetrics
    <2>2. caso' = caso
        BY <1>4, <2>1 DEF caso
    <2>3. Leitura'
        BY <1>1, <1>4, <1>6, <2>1 DEF Leitura
    <2>4. Escala'
        BY <1>1, <2>1, <2>2 DEF Escala
    <2>. QED
        BY <2>1, <2>2, <2>3, <2>4 DEF IInv
<1>8. CASE n # Len(entrada)
    <2>1. /\ n' = n + 1 /\ tasks' = sortPeriod(Lidas(entrada[n + 1]))
          /\ scheduler_result' = <<>> /\ preemption' = 0
        BY <1>8 DEF calculateMetrics
    <2>2. n + 1 \in DOMAIN entrada /\ (n + 1) - 1 = n
        BY <1>5, <1>8
    <2>3. caso' = entrada[n + 1] /\ entrada[n + 1] \in Casos
        BY <1>4, <1>5, <2>1, <2>2, CasoAtual DEF caso
    <2>4. /\ Vetor(tasks', caso') /\ Chegados(tasks', <<>>)
          /\ \A k \in DOMAIN tasks' : Conta(tasks'[k], <<>>)
          /\ 0 = Cardinality(Preemptados(tasks', <<>>, caso'))
        BY <2>1, <2>3, Comeco
    <2>5. caso'.tempo \in Nat
        BY <2>3, CasoTipo
    <2>6. Leitura'
        BY <1>4, <1>5, <1>6, <2>1, <2>2 DEF Leitura
    <2>7. Escala'
        <3>1. <<>> \in Seq(0 .. Total(caso')) /\ Len(<<>>) = 0
            OBVIOUS
        <3>. QED
            BY <2>1, <2>4, <2>5, <3>1 DEF Escala
    <2>. QED
        BY <2>1, <2>4, <2>6, <2>7 DEF IInv
<1>. QED
    BY <1>7, <1>8

LEMMA NextIInv == IInv /\ [Next]_vars => IInv'
<1>. SUFFICES ASSUME IInv, [Next]_vars PROVE IInv'
    OBVIOUS
<1>1. CASE Escalonar
    BY <1>1, EscalonarIInv
<1>2. CASE calculateMetrics
    BY <1>2, CalculateMetricsIInv
<1>3. CASE UNCHANGED vars
    BY <1>3 DEF vars, IInv, Leitura, Escala, caso
<1>. QED
    BY <1>1, <1>2, <1>3 DEF Next

LEMMA SpecIInv == Spec => []IInv
<1>. QED
    BY InitIInv, NextIInv, PTL DEF Spec

-----------------------------------------------------------------------------
(***************************************************************************)
(* The theorems.                                                           *)
(***************************************************************************)
LEMMA ContaTeto ==
    ASSUME NEW S, NEW c \in Seq(S), NEW x \in Registro, Conta(x, c)
    PROVE  x.to_process \in 0 .. x.c
<1>1. x.c \in Nat /\ x.a \in Nat /\ x.to_process \in Nat
    BY RegistroTipo
<1>2. Len(c) \in Nat /\ Len(c) - 1 \in Int /\ (Len(c) # 0 => Len(c) - 1 \in Nat)
    OBVIOUS
<1>3. Ticks(c, x.id, x.a, Len(c) - 1) \in Nat
    BY <1>1, <1>2, TicksTipo
<1>4. Len(c) # 0 => Ticks(c, x.id, Liberacao(x, Len(c) - 1), Len(c) - 1) \in Nat
    BY <1>2, LiberacaoTipo, TicksTipo
<1>5. x.to_process <= x.c
    BY <1>1, <1>3, <1>4 DEF Conta
<1>. QED
    BY <1>1, <1>5

\* The counters of work stay between nothing and all of it, unsigned as they are
\* (ps.c:19, 107, 140), and the chart, the vector and the count of preemptions within
\* what the case allows, whatever cases the file holds.
THEOREM Tipos == Spec => []TypeOK
<1>1. IInv => TypeOK
    <2>. SUFFICES ASSUME IInv PROVE TypeOK
        OBVIOUS
    <2>. DEFINE m == Total(caso)
    <2>1. caso \in Casos /\ Leitura /\ Escala
        BY CasoAtual DEF IInv, Leitura, caso
    <2>2. /\ m \in Nat /\ tasks \in [1 .. m -> Registro]
          /\ scheduler_result \in Seq(0 .. m) /\ Len(scheduler_result) <= caso.tempo
          /\ \A k \in 1 .. m : Conta(tasks[k], scheduler_result)
        BY <2>1, CasoTipo DEF Escala, Vetor
    <2>3. DOMAIN tasks = 1 .. m /\ Len(tasks) = m
        BY <2>2
    <2>4. ASSUME NEW k \in 1 .. m PROVE tasks[k].to_process \in 0 .. tasks[k].c
        BY <2>2, ContaTeto
    <2>5. /\ t_atual \in Nat /\ t_atual <= caso.tempo
          /\ \A i \in 1 .. t_atual : scheduler_result[i] \in 0 .. m
        BY <2>2 DEF t_atual
    <2>6. preemption \in 0 .. t_atual
        BY <2>2, PreemptadosTipo DEF IInv, t_atual
    <2>7. m = Len(caso.periodicas) + Len(caso.aperiodicas)
        BY DEF Total
    <2>. HIDE DEF m
    <2>. QED
        BY <2>1, <2>3, <2>4, <2>5, <2>6, <2>7 DEF TypeOK, Leitura
<1>. QED
    BY <1>1, SpecIInv, PTL

\* The preemptions that doPreemptions counts tick by tick, from counters and flags of
\* the task before (ps.c:75-96), are those that the chart shows.
THEOREM PreempcoesDaCarta == Spec => []Preempcoes
<1>1. IInv => Preempcoes
    BY PreempcoesConta DEF IInv
<1>. QED
    BY <1>1, SpecIInv, PTL

-----------------------------------------------------------------------------
(***************************************************************************)
(* PollingServer implements FixedPriority.                                 *)
(***************************************************************************)
\* The work left, by the number of the task.
FaltaDe(ts) == [x \in 1 .. Len(ts) |-> ts[SelectInSeq(ts, LAMBDA y : y.id = x)].to_process]

LEMMA FaltaDeTarefa ==
    ASSUME NEW s \in Casos, NEW ts, Vetor(ts, s)
    PROVE  /\ FaltaDe(ts) = [x \in 1 .. Total(s) |-> FaltaDe(ts)[x]]
           /\ \A k \in 1 .. Total(s) : FaltaDe(ts)[ts[k].id] = ts[k].to_process
<1>. DEFINE m == Total(s)
<1>1. m \in Nat /\ ts \in [1 .. m -> Registro]
    BY CasoTipo DEF Vetor
<1>2. Len(ts) = m
    BY <1>1
<1>3. \A x \in 1 .. m : FaltaDe(ts)[x] = ts[SelectInSeq(ts, LAMBDA y : y.id = x)].to_process
    BY <1>2 DEF FaltaDe
<1>4. ASSUME NEW k \in 1 .. m PROVE FaltaDe(ts)[ts[k].id] = ts[k].to_process
    <2>. DEFINE x == ts[k].id  I == {j \in 1 .. m : ts[j].id = x}
    <2>1. x \in 1 .. m
        BY DEF Vetor, Lida
    <2>2. I = {k}
        BY LugarUnico
    <2>3. Min(I) = k
        <3>1. I \in SUBSET Nat /\ I # {}
            BY <2>2
        <3>. HIDE DEF I
        <3>2. Min(I) \in I
            BY <3>1, Menor
        <3>. QED
            BY <2>2, <3>2
    <2>4. SelectInSeq(ts, LAMBDA y : y.id = x) = k
        BY <1>2, <2>2, <2>3 DEF SelectInSeq
    <2>. QED
        BY <1>3, <2>1, <2>4
<1>5. FaltaDe(ts) = [x \in 1 .. m |-> FaltaDe(ts)[x]]
    BY <1>2 DEF FaltaDe
<1>. QED
    BY <1>4, <1>5

LEMMA TarefasDoCaso ==
    ASSUME NEW s \in Casos
    PROVE  /\ Quadro!Periodica(s) = 1 .. Len(s.periodicas)
           /\ Quadro!Aperiodica(s) = Len(s.periodicas) + 1 .. Total(s)
           /\ Quadro!Tarefa(s) = 1 .. Total(s)
<1>1. Len(s.periodicas) \in Nat /\ Len(s.aperiodicas) \in Nat
      /\ Total(s) = Len(s.periodicas) + Len(s.aperiodicas)
    BY CasoTipo DEF Total
<1>2. \A a, b \in Nat : (1 .. a) \cup (a + 1 .. a + b) = 1 .. a + b
    OBVIOUS
<1>. QED
    BY <1>1, <1>2 DEF Quadro!Periodica, Quadro!Aperiodica, Quadro!Tarefa

\* A task of the vector and the data of the case.
LEMMA DadosDaTarefa ==
    ASSUME NEW s \in Casos, NEW x \in Registro, Lida(x, s), NEW t \in Nat
    PROVE  /\ x.id \in 1 .. Total(s)
           /\ x.id \in Quadro!Periodica(s) <=> ~ x.aperiodic
           /\ x.id \in Quadro!Aperiodica(s) <=> x.aperiodic
           /\ Quadro!Dados(s, x.id).c = x.c
           /\ ~ x.aperiodic => s.periodicas[x.id].p = x.p
           /\ Quadro!Chega(s, x.id, t) <=> Chegada(x, t)
<1>1. /\ x.id \in 1 .. Total(s) /\ x.id \in Nat /\ x.aperiodic \in BOOLEAN
      /\ x.aperiodic <=> x.id > Len(s.periodicas)
      /\ Len(s.periodicas) \in Nat /\ Total(s) \in Nat
    BY CasoTipo, RegistroTipo DEF Lida
<1>2. /\ x.id \in Quadro!Periodica(s) <=> ~ x.aperiodic
      /\ x.id \in Quadro!Aperiodica(s) <=> x.aperiodic
    BY <1>1, TarefasDoCaso
<1>3. Quadro!Dados(s, x.id) = IF ~ x.aperiodic THEN s.periodicas[x.id]
                              ELSE s.aperiodicas[x.id - Len(s.periodicas)]
    BY <1>2 DEF Quadro!Dados
<1>4. CASE x.aperiodic
    BY <1>1, <1>2, <1>3, <1>4 DEF Lida, Quadro!Chega, Chegada
<1>5. CASE ~ x.aperiodic
    <2>1. x.a = 0 /\ x.c = s.periodicas[x.id].c /\ x.p = s.periodicas[x.id].p
        BY <1>5 DEF Lida
    <2>2. 0 % x.p = 0
        BY RestoTipo, RegistroTipo
    <2>3. Quadro!Chega(s, x.id, t) <=> t % x.p = 0
        BY <1>2, <1>3, <1>5, <2>1 DEF Quadro!Chega
    <2>4. Chegada(x, t) <=> t % x.p = 0
        BY <1>5, <2>1, <2>2 DEF Chegada
    <2>. QED
        BY <1>1, <1>2, <1>3, <1>5, <2>1, <2>3, <2>4
<1>. QED
    BY <1>1, <1>4, <1>5

LEMMA FaltaInicial ==
    ASSUME NEW s \in Casos, NEW ts, Vetor(ts, s),
           \A k \in 1 .. Total(s) : Inteira(ts[k])
    PROVE  FaltaDe(ts) = Quadro!Inicial(s)
<1>. DEFINE m == Total(s)  f == Quadro!Inicial(s)
<1>1. ASSUME NEW x \in 1 .. m PROVE FaltaDe(ts)[x] = f[x]
    <2>1. PICK k \in 1 .. m : ts[k].id = x
        BY DEF Vetor
    <2>2. ts[k] \in Registro /\ Lida(ts[k], s) /\ Inteira(ts[k])
        BY DEF Vetor
    <2>3. x \in Quadro!Periodica(s) <=> ~ ts[k].aperiodic
        BY <2>1, <2>2, DadosDaTarefa
    <2>4. Quadro!Dados(s, x).c = ts[k].c
        <3>1. 0 \in Nat
            OBVIOUS
        <3>. QED
            BY <2>1, <2>2, <3>1, DadosDaTarefa
    <2>5. f[x] = IF ~ ts[k].aperiodic THEN ts[k].c ELSE 0
        BY <2>3, <2>4, TarefasDoCaso DEF Quadro!Inicial
    <2>6. FaltaDe(ts)[x] = ts[k].to_process
        BY <2>1, FaltaDeTarefa
    <2>. QED
        BY <2>2, <2>5, <2>6 DEF Inteira
<1>2. f = [x \in 1 .. m |-> f[x]]
    BY TarefasDoCaso DEF Quadro!Inicial
<1>3. FaltaDe(ts) = [x \in 1 .. m |-> FaltaDe(ts)[x]]
    BY FaltaDeTarefa
<1>. HIDE DEF f, m
<1>. QED
    BY <1>1, <1>2, <1>3 DEF f

\* The task the code chooses is the one that comes before the others.
LEMMA MesmaEscolha ==
    ASSUME caso \in Casos, NEW ts, Vetor(ts, caso), NEW t \in Nat, NEW k,
           Escolha(ts, t, k), NEW r,
           \A j \in 1 .. Total(caso) : r[ts[j].id] = Resta(ts[j], t),
           \A j \in 1 .. Total(caso) :
               ts[j].aperiodic /\ Resta(ts[j], t) > 0 => ts[j].a <= t
    PROVE  Quadro!Escolhida(t, r) = Dono(ts, k)
<1>. DEFINE m == Total(caso)
            P == {x \in Quadro!Periodica(caso) : r[x] > 0}
            A == {x \in Quadro!Aperiodica(caso) : r[x] > 0}
<1>1. /\ m \in Nat /\ caso.servidor \in Nat \ {0} /\ ts \in [1 .. m -> Registro]
      /\ \A j \in 1 .. m : Lida(ts[j], caso)
      /\ \A i, j \in 1 .. m : i < j => Antes(ts[i], ts[j])
      /\ \A x \in 1 .. m : \E j \in 1 .. m : ts[j].id = x
    BY CasoTipo DEF Vetor
<1>2. Quadro!Escolhida(t, r) =
          IF A # {} /\ (t % caso.servidor = 0 \/ P = {})
          THEN CHOOSE x \in A : \A y \in A \ {x} : x < y
          ELSE IF P # {}
          THEN CHOOSE x \in P : \A y \in P \ {x} :
                   \/ caso.periodicas[x].p < caso.periodicas[y].p
                   \/ caso.periodicas[x].p = caso.periodicas[y].p /\ x < y
          ELSE IDLE
    BY DEF Quadro!Escolhida, Quadro!Primeira, Quadro!PorPeriodo, Quadro!IDLE, IDLE
<1>3. ASSUME NEW j \in 1 .. m
      PROVE  /\ ts[j].id \in 1 .. m /\ ts[j].id \in Nat /\ ts[j].aperiodic \in BOOLEAN
             /\ ts[j].p \in Nat
             /\ ts[j].id \in P <=> ~ ts[j].aperiodic /\ Quer(ts[j], t)
             /\ ts[j].id \in A <=> Sobra(ts[j], t)
             /\ ts[j].aperiodic => ts[j].p = caso.servidor
             /\ ~ ts[j].aperiodic => ts[j].p = caso.periodicas[ts[j].id].p
    <2>. DEFINE x == ts[j]
    <2>1. x \in Registro /\ Lida(x, caso) /\ r[x.id] = Resta(x, t)
        BY <1>1
    <2>2. x.aperiodic /\ Resta(x, t) > 0 => x.a <= t
        OBVIOUS
    <2>. HIDE DEF x
    <2>3. /\ x.id \in 1 .. m
          /\ x.id \in Quadro!Periodica(caso) <=> ~ x.aperiodic
          /\ x.id \in Quadro!Aperiodica(caso) <=> x.aperiodic
        BY <2>1, DadosDaTarefa
    <2>4. x.id \in P <=> ~ x.aperiodic /\ Quer(x, t)
        BY <2>1, <2>3 DEF Quer
    <2>5. x.id \in A <=> Sobra(x, t)
        BY <2>1, <2>2, <2>3 DEF Sobra
    <2>6. x.id \in Nat /\ x.aperiodic \in BOOLEAN /\ x.p \in Nat
        BY <2>1, RegistroTipo
    <2>7. /\ x.aperiodic => x.p = caso.servidor
          /\ ~ x.aperiodic => x.p = caso.periodicas[x.id].p
        BY <2>1 DEF Lida
    <2>. HIDE DEF P, A
    <2>. QED
        BY <2>3, <2>4, <2>5, <2>6, <2>7 DEF x
<1>4. P \in SUBSET (1 .. m) /\ A \in SUBSET (1 .. m)
    <2>1. Len(caso.periodicas) \in Nat /\ Len(caso.aperiodicas) \in Nat
        BY CasoTipo
    <2>2. m = Len(caso.periodicas) + Len(caso.aperiodicas)
        BY DEF Total
    <2>3. \A a, b \in Nat : 1 .. a \subseteq 1 .. a + b /\ a + 1 .. a + b \subseteq 1 .. a + b
        OBVIOUS
    <2>4. Quadro!Periodica(caso) \subseteq 1 .. m /\ Quadro!Aperiodica(caso) \subseteq 1 .. m
        BY <2>1, <2>2, <2>3, TarefasDoCaso
    <2>. QED
        BY <2>4
<1>. HIDE DEF P, A, m
<1>5. \A x \in P : \E j \in 1 .. m : ts[j].id = x /\ ~ ts[j].aperiodic /\ Quer(ts[j], t)
    <2>. TAKE x \in P
    <2>1. PICK j \in 1 .. m : ts[j].id = x
        BY <1>1, <1>4
    <2>. QED
        BY <1>3, <2>1
<1>6. \A x \in A : \E j \in 1 .. m : ts[j].id = x /\ Sobra(ts[j], t)
    <2>. TAKE x \in A
    <2>1. PICK j \in 1 .. m : ts[j].id = x
        BY <1>1, <1>4
    <2>. QED
        BY <1>3, <2>1
<1>7. \A j \in 1 .. m : Sobra(ts[j], t) /\ t % caso.servidor = 0 <=>
                            ts[j].aperiodic /\ Quer(ts[j], t)
    BY <1>3 DEF Sobra, Quer
<1>. DEFINE querem == {j \in DOMAIN ts : Quer(ts[j], t)}
            servidas == {j \in querem : ts[j].aperiodic}
            sobram == {j \in DOMAIN ts : Sobra(ts[j], t)}
<1>8. /\ querem # {} => /\ k \in querem /\ (servidas # {} => k \in servidas)
                        /\ \A j \in querem : ts[j].aperiodic = ts[k].aperiodic => k <= j
      /\ querem = {} => Primeiro(k, sobram)
    BY DEF Escolha
<1>9. DOMAIN ts = 1 .. m
    BY <1>1
<1>10. CASE A # {} /\ (t % caso.servidor = 0 \/ P = {})
    <2>1. k \in 1 .. m /\ Sobra(ts[k], t) /\ \A j \in sobram : k <= j
        <3>1. CASE t % caso.servidor = 0
            <4>1. servidas # {}
                BY <1>6, <1>7, <1>9, <1>10, <3>1
            <4>2. k \in servidas
                BY <1>8, <4>1
            <4>3. k \in 1 .. m /\ ts[k].aperiodic /\ Quer(ts[k], t)
                BY <1>9, <4>2
            <4>4. Sobra(ts[k], t)
                BY <1>7, <4>3
            <4>5. \A j \in sobram : j \in querem /\ ts[j].aperiodic = ts[k].aperiodic
                BY <1>3, <1>7, <1>9, <3>1, <4>3
            <4>. QED
                BY <1>8, <4>3, <4>4, <4>5
        <3>2. CASE t % caso.servidor # 0
            <4>1. P = {}
                BY <1>10, <3>2
            <4>2. querem = {}
                BY <1>3, <1>7, <1>9, <4>1, <3>2
            <4>3. sobram # {}
                BY <1>6, <1>9, <1>10
            <4>. QED
                BY <1>8, <1>9, <4>2, <4>3 DEF Primeiro
        <3>. QED
            BY <3>1, <3>2
    <2>. DEFINE x == ts[k].id
    <2>2. x \in A /\ k # 0
        BY <1>1, <1>3, <2>1
    <2>3. \A y \in A \ {x} : x < y
        <3>. SUFFICES ASSUME NEW y \in A \ {x} PROVE x < y
            OBVIOUS
        <3>1. PICK j \in 1 .. m : ts[j].id = y /\ Sobra(ts[j], t)
            BY <1>6
        <3>2. k <= j /\ k # j
            BY <1>9, <2>1, <3>1
        <3>3. Antes(ts[k], ts[j])
            BY <1>1, <2>1, <3>2
        <3>4. ts[k].p = ts[j].p /\ ts[k].p \in Nat
            BY <1>3, <2>1, <3>1 DEF Sobra
        <3>. QED
            BY <3>1, <3>3, <3>4 DEF Antes
    <2>. HIDE DEF x
    <2>4. \A z \in A : (\A y \in A \ {z} : z < y) => z = x
        <3>. SUFFICES ASSUME NEW z \in A, \A y \in A \ {z} : z < y, z # x PROVE FALSE
            OBVIOUS
        <3>1. z < x /\ x < z /\ z \in Nat /\ x \in Nat
            BY <1>4, <2>2, <2>3
        <3>. QED
            BY <3>1
    <2>5. (CHOOSE z \in A : \A y \in A \ {z} : z < y) = x
        BY <2>2, <2>3, <2>4
    <2>. QED
        BY <1>2, <1>10, <2>2, <2>5 DEF Dono, x
<1>11. CASE ~ (A # {} /\ (t % caso.servidor = 0 \/ P = {})) /\ P # {}
    <2>1. servidas = {}
        BY <1>3, <1>7, <1>9, <1>11
    <2>2. querem # {}
        BY <1>5, <1>9, <1>11
    <2>3. k \in 1 .. m /\ Quer(ts[k], t) /\ ~ ts[k].aperiodic
        BY <1>8, <1>9, <2>1, <2>2
    <2>. DEFINE x == ts[k].id
                Vem(a, b) == \/ caso.periodicas[a].p < caso.periodicas[b].p
                             \/ caso.periodicas[a].p = caso.periodicas[b].p /\ a < b
    <2>4. x \in P /\ k # 0
        <3>1. ts[k].id \in P <=> ~ ts[k].aperiodic /\ Quer(ts[k], t)
            BY <1>3, <2>3
        <3>. QED
            BY <1>1, <2>3, <3>1
    <2>5. \A a \in P : a \in Nat /\ caso.periodicas[a].p \in Nat
        BY <1>3, <1>5
    <2>6. \A y \in P \ {x} : Vem(x, y)
        <3>. SUFFICES ASSUME NEW y \in P \ {x} PROVE Vem(x, y)
            OBVIOUS
        <3>1. PICK j \in 1 .. m : ts[j].id = y /\ ~ ts[j].aperiodic /\ Quer(ts[j], t)
            BY <1>5
        <3>2. k <= j /\ k # j
            <4>1. j \in querem /\ ts[j].aperiodic = ts[k].aperiodic
                BY <1>3, <1>9, <2>3, <3>1
            <4>. QED
                BY <1>8, <2>2, <3>1, <4>1
        <3>3. Antes(ts[k], ts[j])
            BY <1>1, <2>3, <3>2
        <3>4. ts[k].p = caso.periodicas[x].p /\ ts[j].p = caso.periodicas[y].p
            BY <1>3, <2>3, <3>1
        <3>. QED
            BY <3>1, <3>3, <3>4 DEF Antes
    <2>. HIDE DEF x
    <2>7. \A z \in P : (\A y \in P \ {z} : Vem(z, y)) => z = x
        <3>. SUFFICES ASSUME NEW z \in P, \A y \in P \ {z} : Vem(z, y), z # x PROVE FALSE
            OBVIOUS
        <3>1. Vem(z, x) /\ Vem(x, z)
            BY <2>4, <2>6
        <3>. QED
            BY <2>4, <2>5, <3>1
    <2>8. (CHOOSE z \in P : \A y \in P \ {z} : Vem(z, y)) = x
        BY <2>4, <2>6, <2>7
    <2>. QED
        BY <1>2, <1>11, <2>4, <2>8 DEF Dono, x
<1>12. CASE ~ (A # {} /\ (t % caso.servidor = 0 \/ P = {})) /\ P = {}
    <2>1. A = {}
        BY <1>12
    <2>2. sobram = {}
        BY <1>3, <1>9, <2>1
    <2>3. querem = {}
        BY <1>3, <1>7, <1>9, <1>12, <2>1
    <2>4. k = 0
        BY <1>8, <2>2, <2>3 DEF Primeiro
    <2>. QED
        BY <1>2, <1>12, <2>4 DEF Dono
<1>. QED
    BY <1>10, <1>11, <1>12

\* The work each task has for tick t.
RestaDe(ts, t) ==
    [x \in Quadro!Tarefa(caso) |->
        IF Quadro!Chega(caso, x, t) THEN Quadro!Dados(caso, x).c ELSE FaltaDe(ts)[x]]

LEMMA TiqueDoQuadro ==
    ASSUME caso \in Casos, NEW ts, Vetor(ts, caso), NEW c \in Seq(0 .. Total(caso)),
           NEW t, t = Len(c), NEW k, NEW vs, Trabalha(ts, t, k, vs),
           \A j \in DOMAIN ts : Conta(ts[j], c)
    PROVE  /\ Quadro!Escolhida(t, RestaDe(ts, t)) = Dono(ts, k)
           /\ FaltaDe(vs) = IF Dono(ts, k) = IDLE THEN RestaDe(ts, t)
                            ELSE [RestaDe(ts, t) EXCEPT ![Dono(ts, k)] = @ - 1]
<1>. DEFINE m == Total(caso)
            r == RestaDe(ts, t)
            g == Dono(ts, k)
<1>1. /\ m \in Nat /\ t \in Nat /\ ts \in [1 .. m -> Registro]
      /\ \A j \in 1 .. m : Lida(ts[j], caso)
      /\ \A x \in 1 .. m : \E j \in 1 .. m : ts[j].id = x
    BY CasoTipo DEF Vetor
<1>2. /\ Escolha(ts, t, k) /\ vs \in [1 .. m -> Registro]
      /\ \A j \in 1 .. m :
            /\ Mesma(vs[j], ts[j])
            /\ vs[j].to_process = Resta(ts[j], t) - (IF j = k THEN 1 ELSE 0)
    BY <1>1 DEF Trabalha
<1>3. k \in 0 .. m
    BY <1>1, <1>2, EscolhaTem
<1>4. r = [x \in 1 .. m |-> r[x]] /\ Quadro!Tarefa(caso) = 1 .. m
    BY TarefasDoCaso DEF RestaDe
<1>5. ASSUME NEW j \in 1 .. m
      PROVE  r[ts[j].id] = Resta(ts[j], t)
    <2>. DEFINE x == ts[j]
    <2>1. x \in Registro /\ Lida(x, caso)
        BY <1>1
    <2>5. FaltaDe(ts)[x.id] = x.to_process
        BY FaltaDeTarefa
    <2>2. /\ x.id \in 1 .. m /\ Quadro!Dados(caso, x.id).c = x.c
          /\ Quadro!Chega(caso, x.id, t) <=> Chegada(x, t)
        <3>. HIDE DEF x, r
        <3>. QED
            BY <1>1, <2>1, DadosDaTarefa
    <2>3. r[x.id] = IF Quadro!Chega(caso, x.id, t) THEN Quadro!Dados(caso, x.id).c
                    ELSE FaltaDe(ts)[x.id]
        BY <1>4, <2>2 DEF RestaDe
    <2>. HIDE DEF r, x
    <2>4. r[x.id] = Resta(x, t)
        BY <2>1, <2>2, <2>3, <2>5 DEF Resta
    <2>. QED
        BY <2>4 DEF x
<1>6. ASSUME NEW j \in 1 .. m, ts[j].aperiodic, Resta(ts[j], t) > 0
      PROVE  ts[j].a <= t
    <2>1. ts[j] \in Registro /\ Conta(ts[j], c)
        BY <1>1
    <2>2. ts[j].a \in Nat /\ ts[j].to_process \in Nat
        BY <2>1, RegistroTipo
    <2>3. t < ts[j].a => ts[j].to_process = 0 /\ ~ Chegada(ts[j], t)
        BY <1>1, <1>6, <2>1, <2>2 DEF Conta, Chegada
    <2>. QED
        BY <1>1, <1>6, <2>2, <2>3 DEF Resta
<1>. HIDE DEF r, m
<1>7. Quadro!Escolhida(t, r) = g
    BY <1>1, <1>2, <1>5, <1>6, MesmaEscolha DEF m
<1>8. Vetor(vs, caso)
    BY VetorFica
<1>9. /\ FaltaDe(vs) = [x \in 1 .. m |-> FaltaDe(vs)[x]]
      /\ \A j \in 1 .. m : FaltaDe(vs)[vs[j].id] = vs[j].to_process
    BY <1>8, FaltaDeTarefa DEF m
<1>. DEFINE q == IF g = IDLE THEN r ELSE [r EXCEPT ![g] = @ - 1]
<1>10. q = [x \in 1 .. m |-> q[x]]
    <2>1. DOMAIN r = 1 .. m
        BY <1>4
    <2>. QED
        BY <1>4, <2>1
<1>11. ASSUME NEW x \in 1 .. m PROVE FaltaDe(vs)[x] = q[x]
    <2>1. PICK j \in 1 .. m : ts[j].id = x
        BY <1>1
    <2>2. vs[j].id = x /\ vs[j].to_process = Resta(ts[j], t) - (IF j = k THEN 1 ELSE 0)
        BY <1>2, <2>1 DEF Mesma
    <2>3. x = g <=> j = k
        <3>1. CASE k = 0
            BY <1>1, <2>1, <3>1 DEF Dono, IDLE
        <3>2. CASE k # 0
            <4>1. g = ts[k].id /\ k \in 1 .. m
                BY <1>1, <1>3, <3>2 DEF Dono
            <4>. QED
                BY <2>1, <4>1, LugarUnico DEF m
        <3>. QED
            BY <3>1, <3>2
    <2>4. x # IDLE
        BY DEF IDLE
    <2>5. q[x] = r[x] - (IF x = g THEN 1 ELSE 0)
        <3>1. r[x] \in Int
            <4>1. ts[j] \in Registro
                BY <1>1
            <4>2. Resta(ts[j], t) \in Nat
                BY <4>1, RegistroTipo DEF Resta
            <4>. QED
                BY <1>5, <2>1, <4>2
        <3>2. DOMAIN r = 1 .. m
            BY <1>4
        <3>. QED
            BY <2>4, <3>1, <3>2
    <2>6. FaltaDe(vs)[x] = vs[j].to_process /\ r[x] = Resta(ts[j], t)
        BY <1>5, <1>9, <2>1, <2>2
    <2>. HIDE DEF q, g
    <2>. QED
        BY <2>2, <2>3, <2>5, <2>6
<1>12. FaltaDe(vs) = q
    BY <1>9, <1>10, <1>11
<1>. QED
    BY <1>7, <1>12 DEF r

LEMMA InitQuadro == Init => Quadro!Init
<1>. SUFFICES ASSUME Init PROVE Quadro!Init
    OBVIOUS
<1>1. IInv
    BY InitIInv
<1>2. caso \in Casos
    BY <1>1, CasoAtual DEF IInv, Leitura, caso
<1>3. Vetor(tasks, caso) /\ \A k \in 1 .. Total(caso) : Inteira(tasks[k])
    BY <1>2, SortPeriodOrdena DEF Init
<1>4. FaltaDe(tasks) = Quadro!Inicial(caso)
    BY <1>2, <1>3, FaltaInicial
<1>. QED
    BY <1>4 DEF Init, Quadro!Init, FaltaDe

LEMMA EscalonarQuadro == IInv /\ Escalonar => Quadro!Tique
<1>. SUFFICES ASSUME IInv, Escalonar PROVE Quadro!Tique
    OBVIOUS
<1>. DEFINE t == Len(scheduler_result)  m == Total(caso)
<1>1. caso \in Casos /\ Leitura /\ Escala
    BY CasoAtual DEF IInv, Leitura, caso
<1>2. /\ m \in Nat /\ t \in Nat /\ Vetor(tasks, caso)
      /\ scheduler_result \in Seq(0 .. m) /\ tasks \in [1 .. m -> Registro]
      /\ \A k \in DOMAIN tasks : Conta(tasks[k], scheduler_result)
    BY <1>1, CasoTipo DEF Escala, Vetor
<1>3. preemption \in Nat
    BY <1>2, PreemptadosTipo DEF IInv
<1>4. /\ t < caso.tempo /\ UNCHANGED <<entrada, n>>
      /\ \E k \in 0 .. m : /\ Trabalha(tasks, t, k, tasks')
                           /\ scheduler_result' = Append(scheduler_result, Dono(tasks, k))
    BY <1>2, <1>3, EscalonarFaz
<1>5. PICK k \in 0 .. m : /\ Trabalha(tasks, t, k, tasks')
                          /\ scheduler_result' = Append(scheduler_result, Dono(tasks, k))
    BY <1>4
<1>6. caso' = caso
    BY <1>4 DEF caso
<1>. DEFINE r == RestaDe(tasks, t)
            x == Quadro!Escolhida(t, r)
<1>7. /\ x = Dono(tasks, k)
      /\ FaltaDe(tasks') = IF x = IDLE THEN r ELSE [r EXCEPT ![x] = @ - 1]
    BY <1>1, <1>2, <1>5, TiqueDoQuadro
<1>8. /\ t < caso.tempo /\ caso' = caso
      /\ scheduler_result' = Append(scheduler_result, x)
      /\ FaltaDe(tasks') = IF x = IDLE THEN r ELSE [r EXCEPT ![x] = @ - 1]
    BY <1>4, <1>5, <1>6, <1>7
<1>. QED
    BY <1>8 DEF Quadro!Tique, RestaDe, FaltaDe, SelectInSeq, Quadro!IDLE, IDLE

LEMMA CalculateMetricsQuadro ==
    IInv /\ calculateMetrics =>
        \/ Quadro!Outro
        \/ UNCHANGED <<caso, FaltaDe(tasks), scheduler_result>>
<1>. SUFFICES ASSUME IInv, calculateMetrics
              PROVE  \/ Quadro!Outro
                     \/ UNCHANGED <<caso, FaltaDe(tasks), scheduler_result>>
    OBVIOUS
<1>1. entrada' = entrada /\ Len(scheduler_result) = caso.tempo
    BY DEF calculateMetrics
<1>2. CASE n = Len(entrada)
    <2>1. UNCHANGED <<n, tasks, scheduler_result>>
        BY <1>2 DEF calculateMetrics
    <2>. QED
        BY <1>1, <2>1 DEF caso, FaltaDe, SelectInSeq
<1>3. CASE n # Len(entrada)
    <2>1. /\ n' = n + 1 /\ tasks' = sortPeriod(Lidas(entrada[n + 1]))
          /\ scheduler_result' = <<>>
        BY <1>3 DEF calculateMetrics
    <2>2. /\ entrada \in Entradas /\ entrada \in Seq(Casos) /\ Len(entrada) \in Nat
          /\ n \in 1 .. Len(entrada)
        BY CasoAtual DEF IInv, Leitura
    <2>3. n + 1 \in DOMAIN entrada
        BY <1>3, <2>2
    <2>4. caso' = entrada[n + 1] /\ caso' \in Casos
        BY <1>1, <2>1, <2>2, <2>3, CasoAtual DEF caso
    <2>5. FaltaDe(tasks') = Quadro!Inicial(caso')
        BY <2>1, <2>4, SortPeriodOrdena, FaltaInicial
    <2>. QED
        BY <1>1, <2>1, <2>5 DEF Quadro!Outro, FaltaDe, SelectInSeq
<1>. QED
    BY <1>2, <1>3

\* The charts of ps.c are those of fixed priorities under a server: its vector, flags
\* and loops choose, tick by tick, the task that the rule of FixedPriority does.
THEOREM ImplementaPrioridades == Spec => QuadroSpec
<1>1. Init => Quadro!Init
    BY InitQuadro
<1>. DEFINE falta == [x \in 1 .. Len(tasks) |->
                         tasks[SelectInSeq(tasks, LAMBDA y : y.id = x)].to_process]
<1>2. IInv /\ [Next]_vars => [Quadro!Next]_<<caso, falta, scheduler_result>>
    <2>. SUFFICES ASSUME IInv, [Next]_vars
                  PROVE  [Quadro!Next]_<<caso, falta, scheduler_result>>
        OBVIOUS
    <2>1. CASE Escalonar
        BY <2>1, EscalonarQuadro DEF Quadro!Next
    <2>2. CASE calculateMetrics
        BY <2>2, CalculateMetricsQuadro DEF Quadro!Next, FaltaDe
    <2>3. CASE UNCHANGED vars
        BY <2>3 DEF vars, caso, SelectInSeq
    <2>. QED
        BY <2>1, <2>2, <2>3 DEF Next
<1>. QED
    BY <1>1, <1>2, SpecIInv, PTL DEF Spec, QuadroSpec, Quadro!Spec

-----------------------------------------------------------------------------
(***************************************************************************)
(* Periods and the ticks in them.                                          *)
(***************************************************************************)
\* The first tick of the period p that tick i belongs to.
Inicio(p, i) == i - (i % p)

LEMMA Multiplo ==
    ASSUME NEW p \in Nat \ {0}, NEW q \in Int
    PROVE  (p * q) % p = 0
<1>1. p * q + 0 = p * q /\ 0 \in 0 .. p - 1
    OBVIOUS
<1>. QED
    BY <1>1, RestoUnico

LEMMA InicioTipo ==
    ASSUME NEW p \in Nat \ {0}, NEW i \in Nat
    PROVE  /\ Inicio(p, i) \in 0 .. i /\ Inicio(p, i) % p = 0
           /\ i < Inicio(p, i) + p
<1>1. i % p \in 0 .. p - 1 /\ i - (i % p) \in 0 .. i
    BY RestoTipo
<1>2. i - (i % p) = p * (i \div p) /\ i \div p \in Int
    <2>1. i = p * (i \div p) + (i % p) /\ i \div p \in Int
        OBVIOUS
    <2>2. p * (i \div p) \in Int
        BY <2>1
    <2>. QED
        BY <1>1, <2>1, <2>2
<1>3. (i - (i % p)) % p = 0
    BY <1>2, Multiplo
<1>. QED
    BY <1>1, <1>3 DEF Inicio

\* A period is known by its first tick.
LEMMA InicioDe ==
    ASSUME NEW p \in Nat \ {0}, NEW v \in Nat, v % p = 0, NEW i \in Nat, v <= i, i < v + p
    PROVE  Inicio(p, i) = v
<1>1. v = p * (v \div p) /\ v \div p \in Int
    <2>1. v = p * (v \div p) + (v % p) /\ v \div p \in Int
        OBVIOUS
    <2>. QED
        BY <2>1
<1>2. i - v \in 0 .. p - 1
    OBVIOUS
<1>. DEFINE q == v \div p  d == i - v
<1>3. (p * q + d) % p = d
    BY <1>1, <1>2, RestoUnico
<1>4. p * q + d = i
    BY <1>1
<1>. QED
    BY <1>3, <1>4 DEF Inicio

\* Whatever is between the first tick of a period and a later one of it, is in it.
LEMMA MesmoInicio ==
    ASSUME NEW p \in Nat \ {0}, NEW i \in Nat, NEW u \in Nat, Inicio(p, i) <= u, u <= i
    PROVE  Inicio(p, u) = Inicio(p, i)
<1>1. Inicio(p, i) \in Nat /\ Inicio(p, i) % p = 0 /\ i < Inicio(p, i) + p
    BY InicioTipo
<1>2. u < Inicio(p, i) + p
    BY <1>1
<1>. QED
    BY <1>1, <1>2, InicioDe

\* Periods that begin in one stretch from b on are told apart by where the period
\* that would have begun with b is at that time.
LEMMA Deslocado ==
    ASSUME NEW p \in Nat \ {0}, NEW b \in Nat, NEW r \in Nat, NEW u \in b .. b + r - 1
    PROVE  Inicio(p, u - b) \in Multiplos(p, r)
<1>1. u - b \in Nat /\ u - b <= r - 1
    OBVIOUS
<1>2. Inicio(p, u - b) \in 0 .. u - b /\ Inicio(p, u - b) % p = 0
    BY <1>1, InicioTipo
<1>. QED
    BY <1>1, <1>2 DEF Multiplos

LEMMA DeslocadoUnico ==
    ASSUME NEW p \in Nat \ {0}, NEW b \in Nat, NEW u \in Nat, NEW w \in Nat,
           u % p = 0, w % p = 0, b <= u, b <= w, Inicio(p, u - b) = Inicio(p, w - b)
    PROVE  u = w
<1>1. \A v, x \in Nat : v % p = 0 /\ x % p = 0 /\ v <= x /\ x < v + p => v = x
    <2>. SUFFICES ASSUME NEW v \in Nat, NEW x \in Nat,
                         v % p = 0, x % p = 0, v <= x, x < v + p
                  PROVE  v = x
        OBVIOUS
    <2>1. Inicio(p, x) = v
        BY InicioDe
    <2>. QED
        BY <2>1 DEF Inicio
<1>2. u - b \in Nat /\ w - b \in Nat
    OBVIOUS
<1>. DEFINE f == Inicio(p, u - b)
<1>3. f \in Nat /\ f <= u - b /\ u - b < f + p /\ f <= w - b /\ w - b < f + p
    <2>1. /\ Inicio(p, u - b) \in 0 .. u - b /\ u - b < Inicio(p, u - b) + p
          /\ Inicio(p, w - b) \in 0 .. w - b /\ w - b < Inicio(p, w - b) + p
        BY <1>2, InicioTipo
    <2>. QED
        BY <2>1
<1>. HIDE DEF f
<1>4. u < w + p /\ w < u + p
    BY <1>3
<1>5. CASE u <= w
    BY <1>1, <1>4, <1>5
<1>6. CASE w <= u
    BY <1>1, <1>4, <1>6
<1>. QED
    BY <1>5, <1>6

\* More ticks, more work.
LEMMA TicksMais ==
    ASSUME NEW c, NEW x, NEW de \in Nat, NEW i \in Nat, NEW l \in Int, l < i, c[i + 1] = x, de <= i
    PROVE  Ticks(c, x, de, l) + 1 <= Ticks(c, x, de, i)
<1>. DEFINE A == {q \in de .. l : c[q + 1] = x}  B == {q \in de .. i : c[q + 1] = x}
<1>1. IsFiniteSet(de .. l) /\ IsFiniteSet(de .. i)
    BY FS_Interval
<1>2. IsFiniteSet(A) /\ IsFiniteSet(B)
    BY <1>1, FS_Subset
<1>3. A \cup {i} \in SUBSET B /\ i \notin A
    OBVIOUS
<1>. HIDE DEF A, B
<1>4. Cardinality(A \cup {i}) = Cardinality(A) + 1
    BY <1>2, <1>3, FS_AddElement
<1>5. Cardinality(A \cup {i}) <= Cardinality(B)
    BY <1>2, <1>3, FS_Subset
<1>. QED
    BY <1>4, <1>5 DEF Ticks, A, B

LEMMA TicksMenos ==
    ASSUME NEW c, NEW x, NEW de \in Nat, NEW i \in Int, NEW l \in Int, l <= i
    PROVE  Ticks(c, x, de, l) <= Ticks(c, x, de, i)
<1>. DEFINE A == {q \in de .. l : c[q + 1] = x}  B == {q \in de .. i : c[q + 1] = x}
<1>1. IsFiniteSet(de .. i)
    BY FS_Interval
<1>2. IsFiniteSet(B)
    BY <1>1, FS_Subset
<1>3. A \in SUBSET B
    OBVIOUS
<1>. HIDE DEF A, B
<1>4. Cardinality(A) <= Cardinality(B)
    BY <1>2, <1>3, FS_Subset
<1>. QED
    BY <1>4 DEF Ticks, A, B

-----------------------------------------------------------------------------
(***************************************************************************)
(* No accepted task misses a period, by the chart c of the case s.         *)
(***************************************************************************)
\* While x has work in its period, only those before it get ticks, and the server.
Prioridade(s, c) ==
    \A i \in 0 .. Len(c) - 1, x \in DOMAIN s.periodicas :
        Ticks(c, x, Inicio(s.periodicas[x].p, i), i - 1) < s.periodicas[x].c =>
            \/ c[i + 1] > Len(s.periodicas) /\ i % s.servidor = 0
            \/ c[i + 1] = x
            \/ c[i + 1] \in Maiores(s, x)

\* Nobody gets more ticks in a period than it has work.
Medida(s, c) ==
    \A i \in 0 .. Len(c) - 1, x \in DOMAIN s.periodicas :
        Ticks(c, x, Inicio(s.periodicas[x].p, i), i) <= s.periodicas[x].c

\* One before k has work left at tick u.
Ocupado(s, c, k, u) ==
    \E j \in Maiores(s, k) :
        Ticks(c, j, Inicio(s.periodicas[j].p, u), u - 1) < s.periodicas[j].c

LEMMA MultiplosFinitos ==
    ASSUME NEW y, NEW r \in Nat
    PROVE  IsFiniteSet(Multiplos(y, r)) /\ Cardinality(Multiplos(y, r)) \in Nat
<1>1. r - 1 \in Int
    OBVIOUS
<1>2. IsFiniteSet(0 .. r - 1)
    BY <1>1, FS_Interval
<1>3. IsFiniteSet(Multiplos(y, r))
    BY <1>2, FS_Subset DEF Multiplos
<1>. QED
    BY <1>3, FS_CardinalityType

LEMMA PedidosFinitos ==
    ASSUME NEW s \in Casos, NEW k \in DOMAIN s.periodicas, NEW r \in Nat
    PROVE  IsFiniteSet(Pedidos(s, k, r)) /\ Cardinality(Pedidos(s, k, r)) \in Nat
<1>. DEFINE M == Maiores(s, k)
            De(j) == {j} \X (Multiplos(s.periodicas[j].p, r) \X (1 .. s.periodicas[j].c))
            S == {De(j) : j \in M}
            f == [j \in M |-> De(j)]
<1>1. DOMAIN s.periodicas = 1 .. Len(s.periodicas) /\ Len(s.periodicas) \in Nat
    BY DEF Casos
<1>2. IsFiniteSet(M)
    <2>1. IsFiniteSet(1 .. Len(s.periodicas))
        BY <1>1, FS_Interval
    <2>. QED
        BY <1>1, <2>1, FS_Subset DEF Maiores
<1>3. ASSUME NEW j \in M PROVE IsFiniteSet(De(j))
    <2>1. s.periodicas[j].c \in Nat
        BY <1>1, CasoTipo DEF Maiores
    <2>2. IsFiniteSet(1 .. s.periodicas[j].c)
        BY <2>1, FS_Interval
    <2>3. IsFiniteSet(Multiplos(s.periodicas[j].p, r) \X (1 .. s.periodicas[j].c))
        BY <2>2, MultiplosFinitos, FS_Product
    <2>4. IsFiniteSet({j})
        BY FS_Singleton
    <2>. QED
        BY <2>3, <2>4, FS_Product
<1>4. f \in Surjection(M, S)
    BY DEF Surjection
<1>. HIDE DEF f
<1>5. IsFiniteSet(S)
    BY <1>2, <1>4, FS_Surjection
<1>6. \A T \in S : IsFiniteSet(T)
    BY <1>3
<1>7. Pedidos(s, k, r) = UNION S
    BY DEF Pedidos
<1>. HIDE DEF S
<1>8. IsFiniteSet(Pedidos(s, k, r))
    BY <1>5, <1>6, <1>7, FS_UNION
<1>. QED
    BY <1>8, FS_CardinalityType

\* Of r ticks from b on, no more belong to the server than if it had begun with b.
LEMMA ServidorCabe ==
    ASSUME NEW p \in Nat \ {0}, NEW b \in Nat, NEW r \in Nat
    PROVE  LET V == {i \in b .. b + r - 1 : i % p = 0} IN
           IsFiniteSet(V) /\ Cardinality(V) <= Cardinality(Multiplos(p, r))
<1>. DEFINE V == {i \in b .. b + r - 1 : i % p = 0}
            f == [i \in V |-> Inicio(p, i - b)]
<1>1. f \in [V -> Multiplos(p, r)]
    BY Deslocado
<1>2. \A u, w \in V : f[u] = f[w] => u = w
    <2>. SUFFICES ASSUME NEW u \in V, NEW w \in V, f[u] = f[w] PROVE u = w
        OBVIOUS
    <2>1. u \in Nat /\ w \in Nat /\ b <= u /\ b <= w /\ u % p = 0 /\ w % p = 0
        OBVIOUS
    <2>2. Inicio(p, u - b) = Inicio(p, w - b)
        OBVIOUS
    <2>. QED
        BY <2>1, <2>2, DeslocadoUnico
<1>. HIDE DEF f, V
<1>3. f \in Injection(V, Multiplos(p, r))
    BY <1>1, <1>2 DEF Injection, IsInjective
<1>4. IsFiniteSet(V) /\ Cardinality(V) <= Cardinality(Multiplos(p, r))
    BY <1>3, MultiplosFinitos, FS_Injection
<1>. QED
    BY <1>4 DEF V

\* If nobody before k has work left from before b, those before k get no more of
\* the r ticks from b on than they can ask for.
LEMMA MaioresCabem ==
    ASSUME NEW s \in Casos, NEW c \in Seq(Nat), Medida(s, c),
           NEW k \in DOMAIN s.periodicas, NEW b \in Nat, NEW r \in Nat, b + r <= Len(c),
           b > 0 => ~ Ocupado(s, c, k, b - 1)
    PROVE  LET V == {i \in b .. b + r - 1 : c[i + 1] \in Maiores(s, k)} IN
           IsFiniteSet(V) /\ Cardinality(V) <= Cardinality(Pedidos(s, k, r))
<1>. DEFINE P == s.periodicas
            V == {i \in b .. b + r - 1 : c[i + 1] \in Maiores(s, k)}
            I(i) == Inicio(P[c[i + 1]].p, i)
            f == [i \in V |-> <<c[i + 1], <<Inicio(P[c[i + 1]].p, I(i) - b),
                                            Ticks(c, c[i + 1], I(i), i)>> >>]
<1>1. Len(c) \in Nat /\ V \in SUBSET (0 .. Len(c) - 1)
    OBVIOUS
<1>2. ASSUME NEW j \in Maiores(s, k)
      PROVE  j \in DOMAIN P /\ P[j].p \in Nat \ {0} /\ P[j].c \in Nat
    <2>1. j \in DOMAIN P /\ DOMAIN P = 1 .. Len(P)
        BY DEF Maiores, Casos
    <2>. QED
        BY <2>1, CasoTipo
<1>3. ASSUME NEW i \in V
      PROVE  /\ i \in Nat /\ b <= i /\ i <= b + r - 1 /\ c[i + 1] \in Maiores(s, k)
             /\ I(i) \in b .. i /\ I(i) \in Nat /\ I(i) % P[c[i + 1]].p = 0
             /\ Ticks(c, c[i + 1], I(i), i) \in 1 .. P[c[i + 1]].c
    <2>. DEFINE j == c[i + 1]  p == P[j].p
    <2>1. i \in Nat /\ b <= i /\ i <= b + r - 1 /\ j \in Maiores(s, k)
        OBVIOUS
    <2>2. j \in DOMAIN P /\ p \in Nat \ {0} /\ P[j].c \in Nat
        BY <1>2, <2>1
    <2>. HIDE DEF j
    <2>. HIDE DEF p
    <2>3. Inicio(p, i) \in 0 .. i /\ Inicio(p, i) \in Nat /\ Inicio(p, i) % p = 0
        <3>1. Inicio(p, i) \in 0 .. i /\ Inicio(p, i) % p = 0
            BY <2>1, <2>2, InicioTipo
        <3>. QED
            BY <3>1
    <2>4. Ticks(c, j, Inicio(p, i), i) <= P[j].c
        BY <1>1, <2>2 DEF Medida, p
    <2>5. Ticks(c, j, Inicio(p, i), i) \in Nat /\ Ticks(c, j, Inicio(p, i), i) > 0
        <3>1. i \in Inicio(p, i) .. i /\ Inicio(p, i) \in Int /\ i \in Int
            BY <2>1, <2>3
        <3>2. \A l \in Inicio(p, i) .. i : c[l + 1] = j => Ticks(c, j, Inicio(p, i), i) > 0
            BY <3>1, TicksTipo
        <3>3. c[i + 1] = j
            BY DEF j
        <3>. QED
            BY <3>1, <3>2, <3>3, TicksTipo
    <2>6. Inicio(p, i) >= b
        <3>. SUFFICES ASSUME Inicio(p, i) < b PROVE FALSE
            BY <2>3
        <3>1. b > 0 /\ b - 1 \in Nat /\ Inicio(p, i) <= b - 1 /\ b - 1 <= i
            BY <2>1, <2>3
        <3>2. Inicio(p, b - 1) = Inicio(p, i)
            BY <2>1, <2>2, <3>1, MesmoInicio
        <3>3. ~ (Ticks(c, j, Inicio(p, b - 1), (b - 1) - 1) < P[j].c)
            BY <2>1, <3>1 DEF Ocupado, p
        <3>4. Ticks(c, j, Inicio(p, i), (b - 1) - 1) + 1 <= Ticks(c, j, Inicio(p, i), i)
            <4>1. (b - 1) - 1 \in Int /\ (b - 1) - 1 < i /\ c[i + 1] = j
                BY <2>1, <3>1 DEF j
            <4>. QED
                BY <2>1, <2>3, <4>1, TicksMais
        <3>5. Ticks(c, j, Inicio(p, i), (b - 1) - 1) \in Nat
            <4>1. (b - 1) - 1 \in Int /\ Inicio(p, i) \in Int
                BY <2>3
            <4>. QED
                BY <4>1, TicksTipo
        <3>. QED
            BY <2>2, <2>4, <2>5, <3>2, <3>3, <3>4, <3>5
    <2>. QED
        BY <2>1, <2>3, <2>4, <2>5, <2>6, <2>2 DEF j, p
<1>4. f \in [V -> Pedidos(s, k, r)]
    <2>. SUFFICES ASSUME NEW i \in V
                  PROVE  <<c[i + 1], <<Inicio(P[c[i + 1]].p, I(i) - b),
                                       Ticks(c, c[i + 1], I(i), i)>> >> \in Pedidos(s, k, r)
        OBVIOUS
    <2>. DEFINE j == c[i + 1]
    <2>1. j \in Maiores(s, k) /\ I(i) \in b .. b + r - 1
        <3>1. i \in Nat /\ i <= b + r - 1 /\ j \in Maiores(s, k) /\ I(i) \in b .. i
            BY <1>3
        <3>. HIDE DEF I
        <3>. QED
            BY <3>1
    <2>2. Inicio(P[j].p, I(i) - b) \in Multiplos(P[j].p, r)
        BY <1>2, <2>1, Deslocado
    <2>3. Ticks(c, j, I(i), i) \in 1 .. P[j].c
        BY <1>3
    <2>. HIDE DEF j, I
    <2>4. <<j, <<Inicio(P[j].p, I(i) - b), Ticks(c, j, I(i), i)>> >>
              \in {j} \X (Multiplos(P[j].p, r) \X (1 .. P[j].c))
        BY <2>2, <2>3
    <2>. QED
        BY <2>1, <2>4 DEF Pedidos, j
<1>5. \A u, w \in V : f[u] = f[w] => u = w
    <2>. SUFFICES ASSUME NEW u \in V, NEW w \in V, f[u] = f[w] PROVE u = w
        OBVIOUS
    <2>. DEFINE j == c[u + 1]  p == P[j].p
    <2>1. c[w + 1] = j /\ Inicio(p, I(u) - b) = Inicio(p, I(w) - b)
          /\ Ticks(c, j, I(u), u) = Ticks(c, j, I(w), w)
        OBVIOUS
    <2>2. p \in Nat \ {0}
        BY <1>2, <1>3
    <2>3. /\ I(u) \in Nat /\ I(w) \in Nat /\ b <= I(u) /\ b <= I(w)
          /\ I(u) <= u /\ I(w) <= w /\ u \in Nat /\ w \in Nat
          /\ I(u) % p = 0 /\ I(w) % p = 0
        <3>1. /\ u \in Nat /\ I(u) \in b .. u /\ I(u) \in Nat
              /\ I(u) % P[c[u + 1]].p = 0
            BY <1>3
        <3>2. /\ w \in Nat /\ I(w) \in b .. w /\ I(w) \in Nat
              /\ I(w) % P[c[w + 1]].p = 0
            BY <1>3
        <3>. HIDE DEF I, f
        <3>. QED
            BY <2>1, <3>1, <3>2
    <2>4. c[u + 1] = j
        OBVIOUS
    <2>. HIDE DEF I, j, f
    <2>5. I(u) = I(w)
        BY <2>1, <2>2, <2>3, DeslocadoUnico
    <2>6. \A x, y \in Nat : I(u) <= y /\ x < y /\ c[y + 1] = j =>
              Ticks(c, j, I(u), x) + 1 <= Ticks(c, j, I(u), y)
        BY <2>3, TicksMais
    <2>7. Ticks(c, j, I(u), u) \in Nat /\ Ticks(c, j, I(u), w) \in Nat
        <3>1. I(u) \in Int /\ u \in Int /\ w \in Int
            BY <2>3
        <3>. QED
            BY <3>1, TicksTipo
    <2>8. u < w => Ticks(c, j, I(u), u) + 1 <= Ticks(c, j, I(u), w)
        BY <2>1, <2>3, <2>5, <2>6
    <2>9. w < u => Ticks(c, j, I(u), w) + 1 <= Ticks(c, j, I(u), u)
        BY <2>3, <2>4, <2>6
    <2>10. Ticks(c, j, I(u), u) = Ticks(c, j, I(u), w)
        BY <2>1, <2>5
    <2>. DEFINE m == Ticks(c, j, I(u), u)  l == Ticks(c, j, I(u), w)
    <2>11. m \in Nat /\ l \in Nat /\ m = l /\ (u < w => m + 1 <= l) /\ (w < u => l + 1 <= m)
        BY <2>7, <2>8, <2>9, <2>10
    <2>12. u \in Nat /\ w \in Nat
        BY <2>3
    <2>. HIDE DEF m, l
    <2>. QED
        BY <2>11, <2>12
<1>. HIDE DEF f, V
<1>6. f \in Injection(V, Pedidos(s, k, r))
    BY <1>4, <1>5 DEF Injection, IsInjective
<1>7. IsFiniteSet(V) /\ Cardinality(V) <= Cardinality(Pedidos(s, k, r))
    BY <1>6, PedidosFinitos, FS_Injection
<1>. QED
    BY <1>7 DEF V

\* One before another that is before k is before k.
LEMMA MaioresTransitivo ==
    ASSUME NEW s \in Casos, NEW k \in DOMAIN s.periodicas, NEW j \in Maiores(s, k),
           NEW l \in Maiores(s, j)
    PROVE  l \in Maiores(s, k)
<1>1. \A x \in DOMAIN s.periodicas : x \in Nat /\ s.periodicas[x].p \in Nat
    <2>1. DOMAIN s.periodicas = 1 .. Len(s.periodicas) /\ Len(s.periodicas) \in Nat
        BY DEF Casos
    <2>. QED
        BY <2>1, CasoTipo
<1>2. j \in DOMAIN s.periodicas /\ l \in DOMAIN s.periodicas
    BY DEF Maiores
<1>. QED
    BY <1>1, <1>2 DEF Maiores

\* From when one before k is at work without a break, up to tick a.
LEMMA Arranque ==
    ASSUME NEW s, NEW c, NEW k, NEW a \in Nat
    PROVE  \E b \in 0 .. a : /\ \A u \in b .. a - 1 : Ocupado(s, c, k, u)
                             /\ b > 0 => ~ Ocupado(s, c, k, b - 1)
<1>. DEFINE T == {b \in 0 .. a : \A u \in b .. a - 1 : Ocupado(s, c, k, u)}
            b == Min(T)
<1>1. T \in SUBSET Nat /\ a \in T
    OBVIOUS
<1>2. b \in T /\ \A m \in T : b <= m
    <2>. HIDE DEF T
    <2>. QED
        BY <1>1, Menor
<1>. HIDE DEF b
<1>3. b > 0 => ~ Ocupado(s, c, k, b - 1)
    <2>. SUFFICES ASSUME b > 0, Ocupado(s, c, k, b - 1) PROVE FALSE
        OBVIOUS
    <2>1. b \in 1 .. a /\ \A u \in b .. a - 1 : Ocupado(s, c, k, u)
        BY <1>2
    <2>2. \A u \in b - 1 .. a - 1 : u = b - 1 \/ u \in b .. a - 1
        BY <2>1
    <2>3. b - 1 \in T
        BY <2>1, <2>2
    <2>. HIDE DEF T
    <2>. QED
        BY <1>2, <2>1, <2>3
<1>. QED
    BY <1>2, <1>3

\* When a period of k ends it has had all its ticks, if some r within the period
\* passes the test: else the r ticks from b on belong to the server, to those
\* before k, and to k, and are too few.
LEMMA Prazo ==
    ASSUME NEW s \in Casos, NEW c \in Seq(Nat), Prioridade(s, c), Medida(s, c),
           NEW k \in DOMAIN s.periodicas, NEW r \in 1 .. s.periodicas[k].p,
           TempoDeResposta(s, k, r),
           NEW t, t = Len(c), t > 0, t % s.periodicas[k].p = 0
    PROVE  /\ Inicio(s.periodicas[k].p, t - 1) = t - s.periodicas[k].p
           /\ Ticks(c, k, t - s.periodicas[k].p, t - 1) >= s.periodicas[k].c
<1>. DEFINE P == s.periodicas  p == P[k].p  C == P[k].c  a == t - p
<1>1. t \in Nat /\ p \in Nat \ {0} /\ C \in Nat /\ s.servidor \in Nat \ {0}
    <2>1. DOMAIN P = 1 .. Len(P)
        BY DEF Casos
    <2>. QED
        BY <2>1, CasoTipo
<1>. HIDE DEF p, C
<1>2. a \in Nat /\ a % p = 0 /\ Inicio(p, t - 1) = a
    <2>1. t = p * (t \div p) /\ t \div p \in Int
        <3>1. t = p * (t \div p) + (t % p) /\ t \div p \in Int
            BY <1>1
        <3>. QED
            BY <1>1, <3>1 DEF p
    <2>2. t \div p >= 1
        <3>. SUFFICES ASSUME t \div p <= 0 PROVE FALSE
            BY <2>1
        <3>1. p * (t \div p) <= 0
            BY <1>1, <2>1
        <3>. QED
            BY <2>1, <3>1
    <2>3. a = p * (t \div p - 1) /\ t \div p - 1 \in Nat
        BY <1>1, <2>1, <2>2
    <2>4. a \in Nat
        BY <1>1, <2>3
    <2>5. a % p = 0
        <3>. DEFINE q == t \div p - 1
        <3>1. q \in Int /\ a = p * q
            BY <2>3
        <3>. HIDE DEF q, a
        <3>2. (p * q) % p = 0
            BY <1>1, <3>1, Multiplo
        <3>. QED
            BY <3>1, <3>2
    <2>6. t - 1 \in Nat /\ a <= t - 1 /\ t - 1 < a + p
        BY <1>1
    <2>. HIDE DEF a
    <2>. QED
        BY <1>1, <2>4, <2>5, <2>6, InicioDe
<1>3. Ticks(c, k, a, t - 1) \in Nat
    BY <1>1, <1>2, TicksTipo
<1>. SUFFICES ASSUME Ticks(c, k, a, t - 1) < C PROVE FALSE
    BY <1>1, <1>2, <1>3 DEF p, C
<1>4. PICK b \in 0 .. a : /\ \A u \in b .. a - 1 : Ocupado(s, c, k, u)
                          /\ b > 0 => ~ Ocupado(s, c, k, b - 1)
    BY <1>2, Arranque
<1>5. b \in Nat /\ r \in Nat /\ b + r <= t /\ r <= p
    BY <1>1, <1>2, <1>4 DEF p
<1>. DEFINE W == b .. b + r - 1
            V1 == {i \in W : i % s.servidor = 0}
            V2 == {i \in W : c[i + 1] \in Maiores(s, k)}
            V3 == {i \in a .. t - 1 : c[i + 1] = k}
<1>6. ASSUME NEW i \in W PROVE i \in V1 \cup V2 \cup V3
    <2>1. i \in 0 .. t - 1 /\ i \in Nat
        BY <1>1, <1>5
    <2>2. CASE i >= a
        <3>1. Inicio(p, i) = a
            <4>1. i < a + p
                BY <1>1, <2>1
            <4>. HIDE DEF a
            <4>. QED
                BY <1>1, <1>2, <2>1, <2>2, <4>1, InicioDe
        <3>2. Ticks(c, k, a, i - 1) <= Ticks(c, k, a, t - 1)
            <4>1. i - 1 <= t - 1 /\ i - 1 \in Int /\ t - 1 \in Int
                BY <1>1, <2>1
            <4>. QED
                BY <1>2, <4>1, TicksMenos
        <3>3. Ticks(c, k, Inicio(p, i), i - 1) < C
            <4>1. i - 1 \in Int /\ a \in Int
                BY <1>2, <2>1
            <4>2. Ticks(c, k, a, i - 1) \in Nat
                BY <4>1, TicksTipo
            <4>. QED
                BY <1>1, <1>3, <3>1, <3>2, <4>2
        <3>4. \/ i % s.servidor = 0
              \/ c[i + 1] = k
              \/ c[i + 1] \in Maiores(s, k)
            BY <1>1, <2>1, <3>3 DEF Prioridade, p, C
        <3>. QED
            BY <2>1, <2>2, <3>4
    <2>3. CASE i < a
        <3>1. Ocupado(s, c, k, i)
            BY <1>2, <1>4, <1>5, <2>1, <2>3
        <3>2. PICK j \in Maiores(s, k) : Ticks(c, j, Inicio(P[j].p, i), i - 1) < P[j].c
            BY <3>1 DEF Ocupado
        <3>3. j \in DOMAIN P
            BY DEF Maiores
        <3>4. \/ i % s.servidor = 0
              \/ c[i + 1] = j
              \/ c[i + 1] \in Maiores(s, j)
            BY <1>1, <2>1, <3>2, <3>3 DEF Prioridade
        <3>5. i % s.servidor = 0 \/ c[i + 1] \in Maiores(s, k)
            BY <3>4, MaioresTransitivo
        <3>. QED
            BY <3>5
    <2>. QED
        BY <1>2, <2>1, <2>2, <2>3
<1>7. IsFiniteSet(V1) /\ Cardinality(V1) <= Cardinality(Multiplos(s.servidor, r))
    BY <1>1, <1>5, ServidorCabe
<1>8. IsFiniteSet(V2) /\ Cardinality(V2) <= Cardinality(Pedidos(s, k, r))
    BY <1>1, <1>4, <1>5, MaioresCabem
<1>9. IsFiniteSet(V3) /\ Cardinality(V3) = Ticks(c, k, a, t - 1)
    <2>1. a \in Int /\ t - 1 \in Int
        BY <1>1, <1>2
    <2>2. IsFiniteSet(a .. t - 1)
        BY <2>1, FS_Interval
    <2>3. IsFiniteSet(V3)
        BY <2>2, FS_Subset
    <2>. QED
        BY <2>3 DEF Ticks
<1>10. IsFiniteSet(W) /\ Cardinality(W) = r
    <2>1. b \in Int /\ b + r - 1 \in Int
        BY <1>5
    <2>2. IsFiniteSet(b .. b + r - 1)
          /\ Cardinality(b .. b + r - 1) = IF b > b + r - 1 THEN 0 ELSE (b + r - 1) - b + 1
        BY <2>1, FS_Interval
    <2>. QED
        BY <1>5, <2>2
<1>. HIDE DEF W, V1, V2, V3, a
<1>11. IsFiniteSet(V1 \cup V2 \cup V3)
       /\ Cardinality(V1 \cup V2 \cup V3) <= Cardinality(V1) + Cardinality(V2) + Cardinality(V3)
    <2>1. IsFiniteSet(V1 \cup V2)
          /\ Cardinality(V1 \cup V2) = Cardinality(V1) + Cardinality(V2) - Cardinality(V1 \cap V2)
        BY <1>7, <1>8, FS_Union
    <2>2. IsFiniteSet((V1 \cup V2) \cup V3)
          /\ Cardinality((V1 \cup V2) \cup V3) =
                Cardinality(V1 \cup V2) + Cardinality(V3) - Cardinality((V1 \cup V2) \cap V3)
        BY <1>9, <2>1, FS_Union
    <2>3. IsFiniteSet(V1 \cap V2) /\ IsFiniteSet((V1 \cup V2) \cap V3)
        <3>1. V1 \cap V2 \in SUBSET V1 /\ (V1 \cup V2) \cap V3 \in SUBSET V3
            OBVIOUS
        <3>. QED
            BY <1>7, <1>9, <3>1, FS_Subset
    <2>4. /\ Cardinality(V1) \in Nat /\ Cardinality(V2) \in Nat /\ Cardinality(V3) \in Nat
          /\ Cardinality(V1 \cap V2) \in Nat /\ Cardinality((V1 \cup V2) \cap V3) \in Nat
        BY <1>7, <1>8, <1>9, <2>3, FS_CardinalityType
    <2>. QED
        BY <2>1, <2>2, <2>4
<1>12. Cardinality(W) <= Cardinality(V1 \cup V2 \cup V3)
    <2>1. W \in SUBSET (V1 \cup V2 \cup V3)
        BY <1>6
    <2>. QED
        BY <1>11, <2>1, FS_Subset
<1>13. C + Cardinality(Multiplos(s.servidor, r)) + Cardinality(Pedidos(s, k, r)) <= r
    BY DEF TempoDeResposta, C
<1>14. /\ Cardinality(Multiplos(s.servidor, r)) \in Nat
       /\ Cardinality(Pedidos(s, k, r)) \in Nat
       /\ Cardinality(V1) \in Nat /\ Cardinality(V2) \in Nat /\ Cardinality(V3) \in Nat
       /\ Cardinality(V1 \cup V2 \cup V3) \in Nat
    BY <1>5, <1>7, <1>8, <1>9, <1>11, MultiplosFinitos, PedidosFinitos, FS_CardinalityType
<1>. QED
    BY <1>1, <1>5, <1>7, <1>8, <1>9, <1>10, <1>11, <1>12, <1>13, <1>14

\* What a periodic task has left for tick t is its work less its ticks in this period.
LEMMA RestaDaCarta ==
    ASSUME NEW S, NEW c \in Seq(S), NEW t, t = Len(c), NEW x \in Registro,
           ~ x.aperiodic, x.a = 0, Conta(x, c)
    PROVE  /\ Resta(x, t) = x.c - Ticks(c, x.id, Inicio(x.p, t), t - 1)
           /\ Ticks(c, x.id, Inicio(x.p, t), t - 1) \in Nat
           /\ Resta(x, t) \in Nat
<1>1. t \in Nat /\ x.c \in Nat /\ x.p \in Nat \ {0} /\ x.to_process \in Nat
    BY RegistroTipo
<1>. DEFINE f == Ticks(c, x.id, Inicio(x.p, t), t - 1)
<1>2. f \in Nat
    <2>1. Inicio(x.p, t) \in 0 .. t
        BY <1>1, InicioTipo
    <2>2. Inicio(x.p, t) \in Int /\ t - 1 \in Int
        BY <1>1, <2>1
    <2>. QED
        BY <2>2, TicksTipo
<1>3. Resta(x, t) \in Nat
    BY <1>1 DEF Resta
<1>4. CASE t % x.p = 0
    <2>1. Inicio(x.p, t) = t
        BY <1>1, <1>4 DEF Inicio
    <2>2. f = 0
        <3>1. t \in Int /\ t - 1 \in Int /\ t > t - 1
            BY <1>1
        <3>. QED
            BY <2>1, <3>1, TicksTipo
    <2>3. Resta(x, t) = x.c
        BY <1>1, <1>4 DEF Resta, Chegada
    <2>. HIDE DEF f
    <2>4. Resta(x, t) = x.c - f
        BY <1>1, <2>2, <2>3
    <2>. QED
        BY <1>2, <1>3, <2>4 DEF f
<1>5. CASE t % x.p # 0
    <2>1. t > 0 /\ (t - 1) % x.p = (t % x.p) - 1 /\ t % x.p \in 0 .. x.p - 1
        BY <1>1, <1>5, MesmoPeriodo
    <2>2. Liberacao(x, t - 1) = Inicio(x.p, t)
        <3>1. (t - 1) - ((t - 1) % x.p) = t - (t % x.p)
            BY <1>1, <2>1
        <3>. QED
            BY <3>1 DEF Liberacao, Inicio
    <2>3. Resta(x, t) = x.to_process
        BY <1>5, <2>1 DEF Resta, Chegada
    <2>4. Resta(x, t) = x.c - f
        BY <1>1, <2>1, <2>2, <2>3 DEF Conta
    <2>. HIDE DEF f
    <2>. QED
        BY <1>2, <1>3, <2>4 DEF f
<1>. QED
    BY <1>4, <1>5

\* A tick given by ps.c keeps priorities, and is given to work.
LEMMA JustaFica ==
    ASSUME NEW s \in Casos, NEW ts, Vetor(ts, s), NEW c \in Seq(0 .. Total(s)),
           NEW t, t = Len(c), NEW k, Escolha(ts, t, k),
           \A j \in DOMAIN ts : Conta(ts[j], c), Prioridade(s, c), Medida(s, c)
    PROVE  /\ Prioridade(s, Append(c, Dono(ts, k)))
           /\ Medida(s, Append(c, Dono(ts, k)))
<1>. DEFINE P == s.periodicas  m == Total(s)  g == Dono(ts, k)  d == Append(c, g)
            Antiga(i, x) == Ticks(c, x, Inicio(P[x].p, i), i - 1)
            Feita(i, x) == Ticks(c, x, Inicio(P[x].p, i), i)
<1>1. /\ m \in Nat /\ t \in Nat /\ ts \in [1 .. m -> Registro] /\ DOMAIN ts = 1 .. m
      /\ \A j \in 1 .. m : Lida(ts[j], s)
      /\ \A i, j \in 1 .. m : i < j => Antes(ts[i], ts[j])
    BY CasoTipo DEF Vetor
<1>2. k \in 0 .. m /\ (k # 0 => Resta(ts[k], t) > 0)
    BY <1>1, EscolhaTem
<1>3. g \in 0 .. m /\ c \in Seq(0 .. m)
    BY <1>1, <1>2 DEF Dono, Lida, IDLE
<1>. DEFINE S == 0 .. m
<1>4. Len(d) = t + 1 /\ d[t + 1] = g /\ \A i \in 0 .. t - 1 : d[i + 1] = c[i + 1]
    BY <1>1, <1>3
<1>5. ASSUME NEW x \in DOMAIN P
      PROVE  /\ x \in 1 .. m /\ x \in Nat /\ x <= Len(P)
             /\ P[x].p \in Nat \ {0} /\ P[x].c \in Nat
    <2>1. DOMAIN P = 1 .. Len(P) /\ Len(P) \in Nat /\ Len(s.aperiodicas) \in Nat
        BY DEF Casos
    <2>2. m = Len(P) + Len(s.aperiodicas)
        BY DEF Total
    <2>3. P[x].p \in Nat \ {0} /\ P[x].c \in Nat
        BY <2>1, CasoTipo
    <2>. HIDE DEF m, P
    <2>. QED
        BY <2>1, <2>2, <2>3
<1>. HIDE DEF d, g, m
<1>6. g \in S /\ c \in Seq(S)
    BY <1>3
<1>. HIDE DEF S
<1>7. ASSUME NEW x \in DOMAIN P
      PROVE  \E j \in 1 .. m : /\ ts[j].id = x /\ ts[j].c = P[x].c /\ ts[j].p = P[x].p
                               /\ ~ ts[j].aperiodic
                               /\ Resta(ts[j], t) = P[x].c - Antiga(t, x)
                               /\ Antiga(t, x) \in Nat /\ Resta(ts[j], t) \in Nat
    <2>1. PICK j \in 1 .. m : ts[j].id = x
        BY <1>5 DEF Vetor, m
    <2>2. ts[j] \in Registro /\ Lida(ts[j], s) /\ Conta(ts[j], c)
        BY <1>1
    <2>3. ~ ts[j].aperiodic
        BY <1>5, <2>1, <2>2, RegistroTipo DEF Lida, Casos
    <2>4. ts[j].c = P[x].c /\ ts[j].p = P[x].p /\ ts[j].a = 0
        BY <2>1, <2>2, <2>3 DEF Lida
    <2>5. /\ Resta(ts[j], t) = ts[j].c - Ticks(c, ts[j].id, Inicio(ts[j].p, t), t - 1)
          /\ Ticks(c, ts[j].id, Inicio(ts[j].p, t), t - 1) \in Nat
          /\ Resta(ts[j], t) \in Nat
        BY <2>2, <2>3, <2>4, RestaDaCarta
    <2>. QED
        BY <2>1, <2>3, <2>4, <2>5
\* The ticks before count as they did.
<1>8. ASSUME NEW i \in 0 .. t, NEW x \in DOMAIN P
      PROVE  /\ Inicio(P[x].p, i) \in Nat /\ Inicio(P[x].p, i) <= i
             /\ Ticks(d, x, Inicio(P[x].p, i), i - 1) = Antiga(i, x)
             /\ i < t => Ticks(d, x, Inicio(P[x].p, i), i) = Feita(i, x)
    <2>1. i \in Nat /\ i - 1 \in Int /\ i - 1 < Len(c)
        BY <1>1
    <2>2. Inicio(P[x].p, i) \in 0 .. i
        BY <1>5, <2>1, InicioTipo
    <2>3. Inicio(P[x].p, i) \in Nat /\ Inicio(P[x].p, i) <= i
        BY <2>1, <2>2
    <2>. DEFINE v == Inicio(P[x].p, i)
    <2>. HIDE DEF v
    <2>4. v \in Nat
        BY <2>3 DEF v
    <2>5. Ticks(Append(c, g), x, v, i - 1) = Ticks(c, x, v, i - 1)
        BY <1>6, <2>1, <2>4, TicksIguais
    <2>6. i < t => Ticks(Append(c, g), x, v, i) = Ticks(c, x, v, i)
        BY <1>6, <2>1, <2>4, TicksIguais
    <2>. QED
        BY <2>3, <2>5, <2>6 DEF d, v
<1>9. ASSUME NEW x \in DOMAIN P, Antiga(t, x) < P[x].c
      PROVE  \/ g > Len(P) /\ t % s.servidor = 0
             \/ g = x
             \/ g \in Maiores(s, x)
    <2>1. PICK j \in 1 .. m : /\ ts[j].id = x /\ ts[j].c = P[x].c /\ ts[j].p = P[x].p
                              /\ ~ ts[j].aperiodic
                              /\ Resta(ts[j], t) = P[x].c - Antiga(t, x)
                              /\ Antiga(t, x) \in Nat
        BY <1>7
    <2>2. Quer(ts[j], t)
        <3>1. P[x].c \in Nat
            BY <1>5
        <3>2. Resta(ts[j], t) > 0
            BY <1>9, <2>1, <3>1
        <3>. QED
            BY <2>1, <3>2 DEF Quer
    <2>3. /\ k \in 1 .. m /\ Quer(ts[k], t)
          /\ ts[j].aperiodic = ts[k].aperiodic => k <= j
        BY <1>1, <2>2 DEF Escolha
    <2>4. /\ g = ts[k].id /\ ts[k] \in Registro /\ Lida(ts[k], s)
          /\ ts[k].aperiodic \in BOOLEAN /\ ts[k].id \in Nat /\ ts[k].p \in Nat
        BY <1>1, <2>3, RegistroTipo DEF Dono, g
    <2>5. CASE ts[k].aperiodic
        <3>1. ts[k].p = s.servidor /\ ts[k].id > Len(P)
            BY <2>4, <2>5 DEF Lida
        <3>2. t % s.servidor = 0
            BY <2>3, <2>5, <3>1 DEF Quer
        <3>. QED
            BY <2>4, <3>1, <3>2
    <2>6. CASE ~ ts[k].aperiodic
        <3>1. k <= j
            <4>1. ts[j].aperiodic \in BOOLEAN
                BY <1>1, RegistroTipo
            <4>. QED
                BY <2>1, <2>3, <2>4, <2>6, <4>1
        <3>2. g \in DOMAIN P /\ ts[k].p = P[g].p
            <4>1. ~ (ts[k].id > Len(P)) /\ ts[k].id \in 1 .. Total(s)
                BY <2>4, <2>6 DEF Lida
            <4>2. DOMAIN P = 1 .. Len(P) /\ Len(P) \in Nat
                BY DEF Casos
            <4>3. ts[k].p = P[ts[k].id].p
                BY <2>4, <2>6 DEF Lida
            <4>4. ts[k].id \in DOMAIN P
                BY <2>4, <4>1, <4>2
            <4>. QED
                BY <2>4, <4>3, <4>4
        <3>3. CASE k = j
            BY <2>1, <2>4, <3>3
        <3>4. CASE k # j
            <4>1. Antes(ts[k], ts[j])
                BY <1>1, <2>1, <2>3, <3>1, <3>4
            <4>2. P[g].p < P[x].p \/ (P[g].p = P[x].p /\ g < x)
                BY <2>1, <2>4, <3>2, <4>1 DEF Antes
            <4>. QED
                BY <3>2, <4>2 DEF Maiores
        <3>. QED
            BY <3>3, <3>4
    <2>. QED
        BY <2>4, <2>5, <2>6
<1>10. ASSUME NEW x \in DOMAIN P
      PROVE  Ticks(d, x, Inicio(P[x].p, t), t) <= P[x].c
    <2>1. PICK j \in 1 .. m : /\ ts[j].id = x /\ ts[j].c = P[x].c
                              /\ Resta(ts[j], t) = P[x].c - Antiga(t, x)
                              /\ Antiga(t, x) \in Nat /\ Resta(ts[j], t) \in Nat
        BY <1>7
    <2>2. Ticks(d, x, Inicio(P[x].p, t), t) = Antiga(t, x) + (IF g = x THEN 1 ELSE 0)
        <3>1. t \in 0 .. t
            BY <1>1
        <3>2. Inicio(P[x].p, t) \in Nat /\ Inicio(P[x].p, t) <= t
            BY <1>8, <3>1
        <3>. QED
            BY <1>6, <3>2, TicksCrescem DEF d
    <2>3. g = x => Resta(ts[j], t) > 0
        <3>. SUFFICES ASSUME g = x PROVE Resta(ts[j], t) > 0
            OBVIOUS
        <3>1. k # 0 /\ g = ts[k].id
            BY <1>5 DEF Dono, IDLE, g
        <3>2. k \in 1 .. m
            BY <1>1, <1>2, <3>1
        <3>3. k = j
            BY <2>1, <3>1, <3>2, LugarUnico DEF m
        <3>. QED
            BY <1>2, <3>1, <3>3
    <2>4. P[x].c \in Nat
        BY <1>5
    <2>. QED
        BY <2>1, <2>2, <2>3, <2>4
<1>11. \A i \in 0 .. Len(d) - 1 : i \in 0 .. t /\ (i = t \/ i \in 0 .. Len(c) - 1)
    BY <1>1, <1>4
<1>12. Prioridade(s, d)
    <2>. SUFFICES ASSUME NEW i \in 0 .. Len(d) - 1, NEW x \in DOMAIN P,
                         Ticks(d, x, Inicio(P[x].p, i), i - 1) < P[x].c
                  PROVE  \/ d[i + 1] > Len(P) /\ i % s.servidor = 0
                         \/ d[i + 1] = x
                         \/ d[i + 1] \in Maiores(s, x)
        BY DEF Prioridade
    <2>1. i \in 0 .. t /\ Antiga(i, x) < P[x].c
        BY <1>8, <1>11
    <2>2. CASE i = t
        BY <1>4, <1>9, <2>1, <2>2
    <2>3. CASE i \in 0 .. Len(c) - 1
        BY <1>4, <2>1, <2>3 DEF Prioridade
    <2>. QED
        BY <1>11, <2>2, <2>3
<1>13. Medida(s, d)
    <2>. SUFFICES ASSUME NEW i \in 0 .. Len(d) - 1, NEW x \in DOMAIN P
                  PROVE  Ticks(d, x, Inicio(P[x].p, i), i) <= P[x].c
        BY DEF Medida
    <2>1. CASE i = t
        BY <1>10, <2>1
    <2>2. CASE i \in 0 .. Len(c) - 1
        <3>1. i \in 0 .. t /\ i < t
            BY <1>1, <2>2
        <3>2. Ticks(d, x, Inicio(P[x].p, i), i) = Feita(i, x)
            BY <1>8, <3>1
        <3>. QED
            BY <2>2, <3>2 DEF Medida
    <2>. QED
        BY <1>11, <2>1, <2>2
<1>. QED
    BY <1>12, <1>13 DEF d, g

\* The chart so far keeps priorities and measure.
Justa == Prioridade(caso, scheduler_result) /\ Medida(caso, scheduler_result)

LEMMA JustaSempre == Spec => [](IInv /\ Justa)
<1>1. ASSUME NEW s, NEW c, c = <<>> PROVE Prioridade(s, c) /\ Medida(s, c)
    BY <1>1 DEF Prioridade, Medida
<1>2. Init => IInv /\ Justa
    BY <1>1, InitIInv DEF Init, Justa
<1>3. ASSUME IInv, Justa, Escalonar PROVE Justa'
    <2>. DEFINE t == Len(scheduler_result)  m == Total(caso)
    <2>1. caso \in Casos /\ Leitura /\ Escala
        BY <1>3, CasoAtual DEF IInv, Leitura, caso
    <2>2. /\ m \in Nat /\ t \in Nat /\ Vetor(tasks, caso)
          /\ scheduler_result \in Seq(0 .. m) /\ tasks \in [1 .. m -> Registro]
          /\ \A k \in DOMAIN tasks : Conta(tasks[k], scheduler_result)
        BY <2>1, CasoTipo DEF Escala, Vetor
    <2>3. preemption \in Nat
        BY <1>3, <2>2, PreemptadosTipo DEF IInv
    <2>4. UNCHANGED <<entrada, n>>
          /\ \E k \in 0 .. m :
                /\ Trabalha(tasks, t, k, tasks')
                /\ scheduler_result' = Append(scheduler_result, Dono(tasks, k))
        BY <1>3, <2>2, <2>3, EscalonarFaz
    <2>5. PICK k \in 0 .. m :
              /\ Trabalha(tasks, t, k, tasks')
              /\ scheduler_result' = Append(scheduler_result, Dono(tasks, k))
        BY <2>4
    <2>6. caso' = caso
        BY <2>4 DEF caso
    <2>7. Escolha(tasks, t, k)
        BY <2>5 DEF Trabalha
    <2>8. Prioridade(caso, scheduler_result') /\ Medida(caso, scheduler_result')
        BY <1>3, <2>1, <2>2, <2>5, <2>7, JustaFica DEF Justa
    <2>. QED
        BY <2>6, <2>8 DEF Justa
<1>4. ASSUME IInv, Justa, calculateMetrics PROVE Justa'
    <2>1. CASE n = Len(entrada)
        BY <1>4, <2>1 DEF calculateMetrics, Justa, caso
    <2>2. CASE n # Len(entrada)
        <3>1. scheduler_result' = <<>>
            BY <1>4, <2>2 DEF calculateMetrics
        <3>. QED
            BY <1>1, <3>1 DEF Justa
    <2>. QED
        BY <2>1, <2>2
<1>5. ASSUME IInv, Justa, [Next]_vars PROVE (IInv /\ Justa)'
    <2>1. IInv'
        BY <1>5, NextIInv
    <2>2. ASSUME UNCHANGED vars PROVE Justa'
        BY <1>5, <2>2 DEF vars, Justa, caso
    <2>3. Justa'
        BY <1>3, <1>4, <1>5, <2>2 DEF Next
    <2>. QED
        BY <2>1, <2>3
<1>. QED
    BY <1>2, <1>5, PTL DEF Spec

\* When the response time test accepts a set, no periodic task has work left as its
\* next period begins, so verifyPeriod (ps.c:54) overwrites nothing: for any set of
\* tasks and any arrivals of aperiodic ones.
THEOREM PrazosDeTodos == Spec => []PrazosCumpridos
<1>1. IInv /\ Justa => PrazosCumpridos
    <2>. SUFFICES ASSUME IInv, Justa, Escalonavel, NEW k \in DOMAIN tasks,
                         ~ tasks[k].aperiodic, t_atual > 0, t_atual % tasks[k].p = 0
                  PROVE  tasks[k].to_process = 0
        BY DEF PrazosCumpridos
    <2>. DEFINE t == Len(scheduler_result)  x == tasks[k]  P == caso.periodicas
    <2>1. caso \in Casos /\ Leitura /\ Escala
        BY CasoAtual DEF IInv, Leitura, caso
    <2>2. /\ Total(caso) \in Nat /\ x \in Registro /\ Lida(x, caso)
          /\ Conta(x, scheduler_result) /\ scheduler_result \in Seq(0 .. Total(caso))
        BY <2>1, CasoTipo DEF Escala, Vetor
    <2>3. scheduler_result \in Seq(Nat) /\ t \in Nat
        BY <2>2
    <2>4. x.id \in DOMAIN P /\ x.c = P[x.id].c /\ x.p = P[x.id].p
        <3>1. ~ (x.id > Len(P)) /\ x.id \in 1 .. Total(caso) /\ x.id \in Nat
            BY <2>2, RegistroTipo DEF Lida
        <3>2. DOMAIN P = 1 .. Len(P) /\ Len(P) \in Nat
            BY <2>1 DEF Casos
        <3>3. x.c = P[x.id].c /\ x.p = P[x.id].p
            BY <2>2 DEF Lida
        <3>. HIDE DEF P, x
        <3>. QED
            BY <3>1, <3>2, <3>3
    <2>5. PICK r \in 1 .. P[x.id].p : TempoDeResposta(caso, x.id, r)
        BY <2>4 DEF Escalonavel
    <2>6. t > 0 /\ t % x.p = 0
        BY DEF t_atual
    <2>. HIDE DEF x, t, P
    <2>7. /\ Inicio(x.p, t - 1) = t - x.p
          /\ Ticks(scheduler_result, x.id, t - x.p, t - 1) >= x.c
        BY <2>1, <2>3, <2>4, <2>5, <2>6, Prazo DEF Justa, P, t
    <2>8. x.to_process = x.c - Ticks(scheduler_result, x.id, t - x.p, t - 1)
        BY <2>2, <2>3, <2>6, <2>7 DEF Conta, Liberacao, Inicio, x, t
    <2>9. x.to_process \in Nat /\ x.c \in Nat
        BY <2>2, RegistroTipo
    <2>10. Ticks(scheduler_result, x.id, t - x.p, t - 1) \in Nat
        <3>1. x.p \in Nat
            BY <2>2, RegistroTipo
        <3>2. t - x.p \in Int /\ t - 1 \in Int
            BY <2>3, <3>1
        <3>. QED
            BY <3>2, TicksTipo
    <2>. QED
        BY <2>7, <2>8, <2>9, <2>10 DEF x
<1>. QED
    BY <1>1, JustaSempre, PTL
=============================================================================
