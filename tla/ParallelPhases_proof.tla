------------------------ MODULE ParallelPhases_proof ------------------------
(***************************************************************************)
(* Proofs about the bubble sort in slices: it keeps its types, the two     *)
(* copies of every border agree at the barriers, no value is lost, nobody  *)
(* leaves the loop before the whole vector is in order, and the program    *)
(* implements Sorter; for any even number of processes, any vector, any    *)
(* width of the borders up to that of a slice and any room of the library. *)
(*                                                                         *)
(* The argument.  The steps of a round are counted from 1 to 8 as in the   *)
(* loop of a rank with two neighbours (Etapa).  Barriers and reduction     *)
(* keep all in the same part of it (MesmoTrecho), so a channel holds the   *)
(* border its sender has passed and its receiver has not, and nothing else *)
(* (Correio, Causa).  Each border has two copies; which of them counts     *)
(* depends on the step the odd rank is at (Vale), and the values that      *)
(* count are at every step a rearrangement of those dealt out (Valores):   *)
(* a sort rearranges those of one buffer, and a border received replaces a *)
(* copy that no longer counts.  Where the copies must be equal is Devem,   *)
(* and there they are (Concordam).  A flag that is set says that the       *)
(* buffer is in order (Ordenados).  At the reduction, then, when all flags *)
(* are set, the copies are equal although nothing was sent since the odd   *)
(* ranks sorted, because they had nothing to change; overlapping slices in *)
(* order are a vector in order; and there is one such rearrangement only   *)
(* (Sorter_proof).                                                         *)
(*                                                                         *)
(* Before the loop each slice is in one of three places (Distribuindo);    *)
(* after it the channels hold the token and the time, whose places follow  *)
(* from how many have printed (Saindo).  The invariant is the disjunction  *)
(* of the three.                                                           *)
(***************************************************************************)
EXTENDS ParallelPhases, Sorter_proof

-----------------------------------------------------------------------------
(***************************************************************************)
(* Rearrangements.                                                         *)
(***************************************************************************)
\* w holds the values v has at the places D, each as often.
Permuta(D, v, w) ==
    \E f \in [D -> D] : /\ \A x, y \in D : f[x] = f[y] => x = y
                        /\ \A x \in D : w[x] = v[f[x]]

LEMMA PermutaIgual ==
    ASSUME NEW D, NEW v, NEW w, \A x \in D : w[x] = v[x]
    PROVE  Permuta(D, v, w)
<1>. DEFINE f == [x \in D |-> x]
<1>1. /\ f \in [D -> D] /\ \A x \in D : f[x] = x
    OBVIOUS
<1>. HIDE DEF f
<1>. QED
    BY <1>1 DEF Permuta

LEMMA PermutaCadeia ==
    ASSUME NEW D, NEW u, NEW v, NEW w, Permuta(D, u, v), Permuta(D, v, w)
    PROVE  Permuta(D, u, w)
<1>1. PICK f \in [D -> D] : /\ \A x, y \in D : f[x] = f[y] => x = y
                            /\ \A x \in D : v[x] = u[f[x]]
    BY DEF Permuta
<1>2. PICK g \in [D -> D] : /\ \A x, y \in D : g[x] = g[y] => x = y
                            /\ \A x \in D : w[x] = v[g[x]]
    BY DEF Permuta
<1>. DEFINE h == [x \in D |-> f[g[x]]]
<1>3. /\ h \in [D -> D] /\ \A x \in D : g[x] \in D /\ h[x] = f[g[x]]
    BY <1>1, <1>2
<1>. HIDE DEF h
<1>4. \A x, y \in D : h[x] = h[y] => x = y
    BY <1>1, <1>2, <1>3
<1>5. \A x \in D : w[x] = u[h[x]]
    BY <1>1, <1>2, <1>3
<1>. QED
    BY <1>3, <1>4, <1>5 DEF Permuta

\* What is rearranged in a part of the places, the others keeping their values:
\* m[I] is that part.
LEMMA PermutaParte ==
    ASSUME NEW D, NEW I, NEW v, NEW w, NEW a, NEW b, NEW m \in [I -> D],
           \A i, j \in I : m[i] = m[j] => i = j,
           \A i \in I : v[m[i]] = a[i] /\ w[m[i]] = b[i],
           \A x \in D : (\A i \in I : m[i] # x) => w[x] = v[x],
           Permuta(I, a, b)
    PROVE  Permuta(D, v, w)
<1>1. PICK f \in [I -> I] : /\ \A x, y \in I : f[x] = f[y] => x = y
                            /\ \A x \in I : b[x] = a[f[x]]
    BY DEF Permuta
<1>. DEFINE Dentro(x) == \E i \in I : m[i] = x
            De(x) == CHOOSE i \in I : m[i] = x
            h == [x \in D |-> IF Dentro(x) THEN m[f[De(x)]] ELSE x]
<1>2. \A x \in D : Dentro(x) => De(x) \in I /\ m[De(x)] = x
    OBVIOUS
<1>3. \A x \in D : h[x] = IF Dentro(x) THEN m[f[De(x)]] ELSE x
    OBVIOUS
<1>4. \A x \in D : Dentro(x) => f[De(x)] \in I /\ Dentro(h[x])
    BY <1>1, <1>2, <1>3
<1>5. \A x \in D : ~ Dentro(x) => h[x] = x /\ w[x] = v[x]
    BY <1>3
<1>6. h \in [D -> D]
    BY <1>2, <1>4
<1>. HIDE DEF h, De
<1>7. \A x, y \in D : h[x] = h[y] => x = y
    <2>. SUFFICES ASSUME NEW x \in D, NEW y \in D, h[x] = h[y] PROVE x = y
        OBVIOUS
    <2>1. Dentro(x) <=> Dentro(y)
        BY <1>4, <1>5
    <2>2. CASE Dentro(x)
        <3>1. f[De(x)] = f[De(y)]
            BY <1>3, <1>4, <2>1, <2>2
        <3>2. De(x) = De(y)
            BY <1>1, <1>2, <2>1, <2>2, <3>1
        <3>. QED
            BY <1>2, <2>1, <2>2, <3>2
    <2>. QED
        BY <1>5, <2>1, <2>2
<1>8. \A x \in D : w[x] = v[h[x]]
    <2>. SUFFICES ASSUME NEW x \in D PROVE w[x] = v[h[x]]
        OBVIOUS
    <2>1. CASE Dentro(x)
        <3>1. De(x) \in I /\ f[De(x)] \in I /\ h[x] = m[f[De(x)]] /\ m[De(x)] = x
            BY <1>2, <1>3, <1>4, <2>1
        <3>2. w[x] = b[De(x)] /\ v[h[x]] = a[f[De(x)]]
            BY <3>1
        <3>. QED
            BY <1>1, <3>1, <3>2
    <2>. QED
        BY <1>5, <2>1
<1>. QED
    BY <1>6, <1>7, <1>8 DEF Permuta

-----------------------------------------------------------------------------
(***************************************************************************)
(* The bubble sort: it rearranges the vector, and a pass that changes      *)
(* nothing has met no pair out of order.                                   *)
(***************************************************************************)
Cresce(v) == \A k \in 1 .. Len(v) - 1 : v[k] <= v[k + 1]

Rearranja(v, w) == w \in Seq(Int) /\ Len(w) = Len(v) /\ Permuta(DOMAIN v, v, w)

LEMMA RearranjaIgual == ASSUME NEW v \in Seq(Int) PROVE Rearranja(v, v)
BY PermutaIgual DEF Rearranja

LEMMA RearranjaCadeia ==
    ASSUME NEW u \in Seq(Int), NEW v, NEW w, Rearranja(u, v), Rearranja(v, w)
    PROVE  Rearranja(u, w)
<1>1. DOMAIN u = DOMAIN v
    BY DEF Rearranja
<1>. QED
    BY <1>1, PermutaCadeia DEF Rearranja

LEMMA TrocaValores ==
    ASSUME NEW v \in Seq(Int), NEW i \in 1 .. Len(v) - 1
    PROVE  /\ Troca(v, i) \in Seq(Int) /\ Len(Troca(v, i)) = Len(v)
           /\ v[i] <= v[i + 1] => Troca(v, i) = v
           /\ v[i] > v[i + 1] =>
                 \A k \in 1 .. Len(v) :
                    Troca(v, i)[k] = IF k = i THEN v[i + 1] ELSE IF k = i + 1 THEN v[i] ELSE v[k]
<1>1. /\ i \in 1 .. Len(v) /\ i + 1 \in 1 .. Len(v) /\ i # i + 1 /\ DOMAIN v = 1 .. Len(v)
      /\ v[i] \in Int /\ v[i + 1] \in Int
    OBVIOUS
<1>2. CASE v[i] <= v[i + 1]
    BY <1>1, <1>2 DEF Troca
<1>3. CASE v[i] > v[i + 1]
    <2>1. Troca(v, i) = [v EXCEPT ![i] = v[i + 1], ![i + 1] = v[i]]
        BY <1>3 DEF Troca
    <2>. DEFINE u == [v EXCEPT ![i] = v[i + 1]]
                w == [u EXCEPT ![i + 1] = v[i]]
    <2>2. Troca(v, i) = w
        BY <2>1
    <2>3. u \in Seq(Int) /\ Len(u) = Len(v)
        BY <1>1
    <2>4. w \in Seq(Int) /\ Len(w) = Len(v)
        <3>. HIDE DEF u
        <3>. QED
            BY <1>1, <2>3
    <2>5. \A k \in 1 .. Len(v) : w[k] = IF k = i THEN v[i + 1] ELSE IF k = i + 1 THEN v[i] ELSE v[k]
        BY <1>1
    <2>. HIDE DEF w
    <2>. QED
        BY <1>1, <1>3, <2>2, <2>4, <2>5
<1>. QED
    BY <1>1, <1>2, <1>3

LEMMA TrocaRearranja ==
    ASSUME NEW v \in Seq(Int), NEW i \in 1 .. Len(v) - 1
    PROVE  Rearranja(v, Troca(v, i))
<1>. DEFINE D == DOMAIN v
            w == Troca(v, i)
            f == [k \in D |-> IF k = i THEN i + 1 ELSE IF k = i + 1 THEN i ELSE k]
<1>1. D = 1 .. Len(v) /\ i \in D /\ i + 1 \in D /\ i # i + 1 /\ v[i] \in Int /\ v[i + 1] \in Int
    OBVIOUS
<1>2. w \in Seq(Int) /\ Len(w) = Len(v)
    BY TrocaValores
<1>3. CASE v[i] <= v[i + 1]
    BY <1>3, TrocaValores, RearranjaIgual
<1>4. CASE v[i] > v[i + 1]
    <2>1. \A k \in D : w[k] = IF k = i THEN v[i + 1] ELSE IF k = i + 1 THEN v[i] ELSE v[k]
        BY <1>1, <1>4, TrocaValores
    <2>2. /\ f \in [D -> D]
          /\ \A k \in D : f[k] = IF k = i THEN i + 1 ELSE IF k = i + 1 THEN i ELSE k
        BY <1>1
    <2>. HIDE DEF f, w, D
    <2>3. \A k, l \in D : f[k] = f[l] => k = l
        BY <1>1, <2>2
    <2>4. \A k \in D : w[k] = v[f[k]]
        BY <1>1, <2>1, <2>2
    <2>5. Permuta(D, v, w)
        BY <2>2, <2>3, <2>4 DEF Permuta
    <2>. QED
        BY <1>2, <2>5 DEF Rearranja, D, w
<1>. QED
    BY <1>1, <1>3, <1>4
\* The value of a round, whatever set it is taken from.
LEMMA Unico == \A y : (CHOOSE w \in {y} : TRUE) = y
<1>. SUFFICES ASSUME NEW y PROVE (CHOOSE w \in {y} : TRUE) = y
    OBVIOUS
<1>1. (CHOOSE w \in {y} : TRUE) \in {y}
    OBVIOUS
<1>. QED
    BY <1>1

\* Round i of a pass, as Iterar has it.
RodadaTroca(x, i) == CHOOSE w \in {Troca(u, i) : u \in {x}} : TRUE
RodadaPassada(x, i) == CHOOSE w \in {Passada(u) : u \in {x}} : TRUE

LEMMA Rodadas ==
    /\ \A x, i : RodadaTroca(x, i) = Troca(x, i)
    /\ \A x, i : RodadaPassada(x, i) = Passada(x)
<1>1. ASSUME NEW x, NEW i PROVE RodadaTroca(x, i) = Troca(x, i)
    <2>1. {Troca(u, i) : u \in {x}} = {Troca(x, i)}
        OBVIOUS
    <2>. QED
        BY <2>1, Unico DEF RodadaTroca
<1>2. ASSUME NEW x, NEW i PROVE RodadaPassada(x, i) = Passada(x)
    <2>1. {Passada(u) : u \in {x}} = {Passada(x)}
        OBVIOUS
    <2>. QED
        BY <2>1, Unico DEF RodadaPassada
<1>. QED
    BY <1>1, <1>2

LEMMA PassadaExiste ==
    ASSUME NEW v, Len(v) - 1 \in Nat
    PROVE  \E f : /\ Passada(v) = f[Len(v) - 1]
                  /\ f[0] = v
                  /\ \A i \in 1 .. Len(v) - 1 : f[i] = Troca(f[i - 1], i)
<1>. DEFINE n == Len(v) - 1
            Ate(k, f) == f = [i \in 0 .. k |-> IF i = 0 THEN v ELSE RodadaTroca(f[i - 1], i)]
            P == {k \in 0 .. n : \E f : Ate(k, f)}
<1>1. n \in Nat
    OBVIOUS
<1>2. 0 \in P
    <2>. DEFINE g == [i \in 0 .. 0 |-> v]
    <2>1. Ate(0, g)
        OBVIOUS
    <2>2. \E f : Ate(0, f)
        <3>. HIDE DEF Ate, g
        <3>. QED
            BY <2>1
    <2>. QED
        BY <1>1, <2>2
<1>3. ASSUME NEW k \in 1 .. n, k - 1 \in P PROVE k \in P
    <2>1. PICK h : Ate(k - 1, h)
        BY <1>3
    <2>. DEFINE g == [i \in 0 .. k |-> IF i = k THEN RodadaTroca(h[k - 1], k) ELSE h[i]]
    <2>2. \A i \in 0 .. k : g[i] = IF i = k THEN RodadaTroca(h[k - 1], k) ELSE h[i]
        OBVIOUS
    <2>3. \A i \in 0 .. k - 1 : h[i] = IF i = 0 THEN v ELSE RodadaTroca(h[i - 1], i)
        BY <2>1
    <2>4. \A i \in 0 .. k : g[i] = IF i = 0 THEN v ELSE RodadaTroca(g[i - 1], i)
        <3>. SUFFICES ASSUME NEW i \in 0 .. k
                      PROVE  g[i] = IF i = 0 THEN v ELSE RodadaTroca(g[i - 1], i)
            OBVIOUS
        <3>1. CASE i = k
            <4>1. k # 0 /\ k - 1 \in 0 .. k /\ k - 1 # k
                OBVIOUS
            <4>2. g[k - 1] = h[k - 1]
                BY <2>2, <4>1
            <4>. QED
                BY <2>2, <3>1, <4>1, <4>2
        <3>2. CASE i # k
            <4>1. i \in 0 .. k - 1 /\ (i # 0 => i - 1 \in 0 .. k /\ i - 1 # k)
                BY <3>2
            <4>2. g[i] = h[i] /\ (i # 0 => g[i - 1] = h[i - 1])
                BY <2>2, <3>2, <4>1
            <4>. QED
                BY <2>3, <4>1, <4>2
        <3>. QED
            BY <3>1, <3>2
    <2>5. Ate(k, g)
        BY <2>4
    <2>6. \E f : Ate(k, f)
        <3>. HIDE DEF Ate, g
        <3>. QED
            BY <2>5
    <2>. QED
        BY <1>1, <2>6
<1>4. n \in P
    <2>. HIDE DEF P, n
    <2>1. 0 .. n \subseteq P
        BY <1>1, <1>2, <1>3, Inducao
    <2>. QED
        BY <1>1, <2>1
<1>5. \E f : Ate(n, f)
    BY <1>4
<1>. DEFINE f == CHOOSE g : Ate(n, g)
<1>6. Ate(n, f)
    BY <1>5
<1>7. Passada(v) = f[n]
    BY DEF Passada, Iterar, RodadaTroca
<1>. HIDE DEF f
<1>8. \A i \in 0 .. n : f[i] = IF i = 0 THEN v ELSE RodadaTroca(f[i - 1], i)
    BY <1>6
<1>9. f[0] = v /\ \A i \in 1 .. n : f[i] = Troca(f[i - 1], i)
    <2>1. 0 \in 0 .. n /\ \A i \in 1 .. n : i \in 0 .. n /\ i # 0
        BY <1>1
    <2>. QED
        BY <1>8, <2>1, Rodadas
<1>. QED
    BY <1>7, <1>9

LEMMA BolhasExiste ==
    ASSUME NEW v, Len(v) \in Nat
    PROVE  \E f : /\ bubbleSort(v) = f[Len(v)]
                  /\ f[0] = v
                  /\ \A i \in 1 .. Len(v) : f[i] = Passada(f[i - 1])
<1>. DEFINE n == Len(v)
            Ate(k, f) == f = [i \in 0 .. k |-> IF i = 0 THEN v ELSE RodadaPassada(f[i - 1], i)]
            P == {k \in 0 .. n : \E f : Ate(k, f)}
<1>1. n \in Nat
    OBVIOUS
<1>2. 0 \in P
    <2>. DEFINE g == [i \in 0 .. 0 |-> v]
    <2>1. Ate(0, g)
        OBVIOUS
    <2>2. \E f : Ate(0, f)
        <3>. HIDE DEF Ate, g
        <3>. QED
            BY <2>1
    <2>. QED
        BY <1>1, <2>2
<1>3. ASSUME NEW k \in 1 .. n, k - 1 \in P PROVE k \in P
    <2>1. PICK h : Ate(k - 1, h)
        BY <1>3
    <2>. DEFINE g == [i \in 0 .. k |-> IF i = k THEN RodadaPassada(h[k - 1], k) ELSE h[i]]
    <2>2. \A i \in 0 .. k : g[i] = IF i = k THEN RodadaPassada(h[k - 1], k) ELSE h[i]
        OBVIOUS
    <2>3. \A i \in 0 .. k - 1 : h[i] = IF i = 0 THEN v ELSE RodadaPassada(h[i - 1], i)
        BY <2>1
    <2>4. \A i \in 0 .. k : g[i] = IF i = 0 THEN v ELSE RodadaPassada(g[i - 1], i)
        <3>. SUFFICES ASSUME NEW i \in 0 .. k
                      PROVE  g[i] = IF i = 0 THEN v ELSE RodadaPassada(g[i - 1], i)
            OBVIOUS
        <3>1. CASE i = k
            <4>1. k # 0 /\ k - 1 \in 0 .. k /\ k - 1 # k
                OBVIOUS
            <4>2. g[k - 1] = h[k - 1]
                BY <2>2, <4>1
            <4>. QED
                BY <2>2, <3>1, <4>1, <4>2
        <3>2. CASE i # k
            <4>1. i \in 0 .. k - 1 /\ (i # 0 => i - 1 \in 0 .. k /\ i - 1 # k)
                BY <3>2
            <4>2. g[i] = h[i] /\ (i # 0 => g[i - 1] = h[i - 1])
                BY <2>2, <3>2, <4>1
            <4>. QED
                BY <2>3, <4>1, <4>2
        <3>. QED
            BY <3>1, <3>2
    <2>5. Ate(k, g)
        BY <2>4
    <2>6. \E f : Ate(k, f)
        <3>. HIDE DEF Ate, g
        <3>. QED
            BY <2>5
    <2>. QED
        BY <1>1, <2>6
<1>4. n \in P
    <2>. HIDE DEF P, n
    <2>1. 0 .. n \subseteq P
        BY <1>1, <1>2, <1>3, Inducao
    <2>. QED
        BY <1>1, <2>1
<1>5. \E f : Ate(n, f)
    BY <1>4
<1>. DEFINE f == CHOOSE g : Ate(n, g)
<1>6. Ate(n, f)
    BY <1>5
<1>7. bubbleSort(v) = f[n]
    BY DEF bubbleSort, Iterar, RodadaPassada
<1>. HIDE DEF f
<1>8. \A i \in 0 .. n : f[i] = IF i = 0 THEN v ELSE RodadaPassada(f[i - 1], i)
    BY <1>6
<1>9. f[0] = v /\ \A i \in 1 .. n : f[i] = Passada(f[i - 1])
    <2>1. 0 \in 0 .. n /\ \A i \in 1 .. n : i \in 0 .. n /\ i # 0
        BY <1>1
    <2>. QED
        BY <1>8, <2>1, Rodadas
<1>. QED
    BY <1>7, <1>9

LEMMA PassadaRearranja ==
    ASSUME NEW v \in Seq(Int), Len(v) > 0
    PROVE  Rearranja(v, Passada(v))
<1>. DEFINE n == Len(v) - 1
<1>1. n \in Nat
    OBVIOUS
<1>2. PICK f : /\ Passada(v) = f[n] /\ f[0] = v
               /\ \A i \in 1 .. n : f[i] = Troca(f[i - 1], i)
    BY <1>1, PassadaExiste
<1>. DEFINE P == {i \in 0 .. n : Rearranja(v, f[i])}
<1>3. 0 \in P
    BY <1>1, <1>2, RearranjaIgual
<1>4. ASSUME NEW i \in 1 .. n, i - 1 \in P PROVE i \in P
    <2>1. Rearranja(v, f[i - 1])
        BY <1>4
    <2>2. f[i - 1] \in Seq(Int) /\ i \in 1 .. Len(f[i - 1]) - 1
        BY <2>1 DEF Rearranja
    <2>3. Rearranja(f[i - 1], f[i])
        BY <1>2, <2>2, TrocaRearranja
    <2>. QED
        BY <2>1, <2>3, RearranjaCadeia
<1>5. 0 .. n \subseteq P
    <2>. HIDE DEF P, n
    <2>. QED
        BY <1>1, <1>3, <1>4, Inducao
<1>6. n \in 0 .. n
    BY <1>1
<1>. QED
    BY <1>2, <1>5, <1>6

\* The first pair out of order that a pass meets is swapped, and its first place
\* is not touched again.
LEMMA PassadaParada ==
    ASSUME NEW v \in Seq(Int), Len(v) > 0, Passada(v) = v
    PROVE  Cresce(v)
<1>. DEFINE n == Len(v) - 1
<1>1. n \in Nat
    OBVIOUS
<1>2. PICK f : /\ Passada(v) = f[n] /\ f[0] = v
               /\ \A i \in 1 .. n : f[i] = Troca(f[i - 1], i)
    BY <1>1, PassadaExiste
<1>. DEFINE Parado(i) == f[i] = v /\ \A k \in 1 .. i : v[k] <= v[k + 1]
            Mudado(i) == \E k \in 1 .. i : f[i][k] # v[k]
            P == {i \in 0 .. n : f[i] \in Seq(Int) /\ Len(f[i]) = Len(v) /\ (Parado(i) \/ Mudado(i))}
<1>3. 0 \in P
    BY <1>1, <1>2
<1>4. ASSUME NEW i \in 1 .. n, i - 1 \in P PROVE i \in P
    <2>. DEFINE u == f[i - 1]
    <2>1. /\ u \in Seq(Int) /\ Len(u) = Len(v) /\ f[i] = Troca(u, i)
          /\ i \in 1 .. Len(u) - 1 /\ i \in 1 .. Len(v) /\ i + 1 \in 1 .. Len(v)
        BY <1>2, <1>4
    <2>2. /\ f[i] \in Seq(Int) /\ Len(f[i]) = Len(v)
          /\ u[i] <= u[i + 1] => f[i] = u
          /\ u[i] > u[i + 1] =>
                \A k \in 1 .. Len(v) :
                   f[i][k] = IF k = i THEN u[i + 1] ELSE IF k = i + 1 THEN u[i] ELSE u[k]
        <3>. HIDE DEF u
        <3>. QED
            BY <2>1, TrocaValores
    <2>3. u[i] \in Int /\ u[i + 1] \in Int
        BY <2>1
    <2>4. CASE Parado(i - 1)
        <3>1. u = v /\ \A k \in 1 .. i - 1 : v[k] <= v[k + 1]
            BY <2>4
        <3>2. CASE u[i] <= u[i + 1]
            <4>1. Parado(i)
                BY <2>2, <3>1, <3>2
            <4>. QED
                BY <2>2, <4>1
        <3>3. CASE u[i] > u[i + 1]
            <4>1. f[i][i] = u[i + 1] /\ u[i + 1] # v[i] /\ i \in 1 .. i
                BY <2>1, <2>2, <2>3, <3>1, <3>3
            <4>2. Mudado(i)
                BY <4>1
            <4>. QED
                BY <2>2, <4>2
        <3>. QED
            BY <2>3, <3>2, <3>3
    <2>5. CASE Mudado(i - 1)
        <3>1. PICK k \in 1 .. i - 1 : u[k] # v[k]
            BY <2>5
        <3>2. k \in 1 .. i /\ k # i /\ k # i + 1 /\ k \in 1 .. Len(v)
            BY <2>1
        <3>3. f[i][k] = u[k]
            <4>. HIDE DEF u
            <4>1. CASE u[i] <= u[i + 1]
                BY <2>2, <4>1
            <4>2. CASE u[i] > u[i + 1]
                BY <2>2, <3>2, <4>2
            <4>. QED
                BY <2>3, <4>1, <4>2
        <3>4. Mudado(i)
            BY <3>1, <3>2, <3>3
        <3>5. i \in 0 .. n /\ (Parado(i) \/ Mudado(i))
            BY <1>1, <3>4
        <3>. HIDE DEF Parado, Mudado
        <3>. QED
            BY <2>2, <3>5
    <2>6. Parado(i - 1) \/ Mudado(i - 1)
        BY <1>4
    <2>. QED
        BY <2>4, <2>5, <2>6
<1>5. 0 .. n \subseteq P
    <2>. HIDE DEF P, n
    <2>. QED
        BY <1>1, <1>3, <1>4, Inducao
<1>6. Parado(n) \/ Mudado(n)
    <2>1. n \in 0 .. n
        BY <1>1
    <2>. QED
        BY <1>5, <2>1
<1>7. ~ Mudado(n)
    BY <1>2
<1>. QED
    BY <1>6, <1>7 DEF Cresce

LEMMA bubbleSortRearranja ==
    ASSUME NEW v \in Seq(Int), Len(v) > 0
    PROVE  Rearranja(v, bubbleSort(v))
<1>. DEFINE n == Len(v)
<1>1. n \in Nat
    OBVIOUS
<1>2. PICK f : /\ bubbleSort(v) = f[n] /\ f[0] = v
               /\ \A i \in 1 .. n : f[i] = Passada(f[i - 1])
    BY <1>1, BolhasExiste
<1>. DEFINE P == {i \in 0 .. n : Rearranja(v, f[i])}
<1>3. 0 \in P
    BY <1>1, <1>2, RearranjaIgual
<1>4. ASSUME NEW i \in 1 .. n, i - 1 \in P PROVE i \in P
    <2>1. Rearranja(v, f[i - 1])
        BY <1>4
    <2>2. f[i - 1] \in Seq(Int) /\ Len(f[i - 1]) > 0
        BY <2>1 DEF Rearranja
    <2>3. Rearranja(f[i - 1], f[i])
        BY <1>2, <2>2, PassadaRearranja
    <2>. QED
        BY <2>1, <2>3, RearranjaCadeia
<1>5. 0 .. n \subseteq P
    <2>. HIDE DEF P, n
    <2>. QED
        BY <1>1, <1>3, <1>4, Inducao
<1>6. n \in 0 .. n
    BY <1>1
<1>. QED
    BY <1>2, <1>5, <1>6

LEMMA bubbleSortParado ==
    ASSUME NEW v \in Seq(Int), Passada(v) = v
    PROVE  bubbleSort(v) = v
<1>. DEFINE n == Len(v)
<1>1. n \in Nat
    OBVIOUS
<1>2. PICK f : /\ bubbleSort(v) = f[n] /\ f[0] = v
               /\ \A i \in 1 .. n : f[i] = Passada(f[i - 1])
    BY <1>1, BolhasExiste
<1>. DEFINE P == {i \in 0 .. n : f[i] = v}
<1>3. 0 \in P
    BY <1>1, <1>2
<1>4. ASSUME NEW i \in 1 .. n, i - 1 \in P PROVE i \in P
    BY <1>2, <1>4
<1>5. 0 .. n \subseteq P
    <2>. HIDE DEF P, n
    <2>. QED
        BY <1>1, <1>3, <1>4, Inducao
<1>6. n \in 0 .. n
    BY <1>1
<1>. QED
    BY <1>2, <1>5, <1>6

-----------------------------------------------------------------------------
(***************************************************************************)
(* Numbers.                                                                *)
(***************************************************************************)
\* What never changes after the start.
Medidas == connected_integers \in Conexoes /\ entrada \in Entradas /\ c <= task_size

LEMMA Numeros ==
    /\ np \in Nat /\ np > 1 /\ np % 2 = 0
    /\ FIRST_PHASE = 0 /\ FIRST_PHASE \in Processo /\ FIRST_PHASE % 2 = 0
    /\ REMAINING_PHASE = np - 1 /\ REMAINING_PHASE \in Processo /\ REMAINING_PHASE % 2 = 1
    /\ FIRST_PHASE # REMAINING_PHASE
    /\ Processo \subseteq Nat
    /\ \A p \in Processo : /\ p \in Int /\ 0 <= p /\ p < np /\ p % 2 \in {0, 1}
                           /\ p # REMAINING_PHASE => p + 1 \in Processo /\ (p + 1) % 2 = 1 - (p % 2)
                           /\ p # FIRST_PHASE => p - 1 \in Processo /\ (p - 1) % 2 = 1 - (p % 2)
BY NpAssumption, NpParAssumption DEF Processo, FIRST_PHASE, REMAINING_PHASE

\* The division of the vector: so many for each, and some left over.
LEMMA Quociente ==
    ASSUME NEW t \in Nat, NEW n \in Nat, n > 0
    PROVE  t \div n \in Nat /\ n * (t \div n) <= t
<1>. DEFINE d == t \div n
            r == t % n
            e == n * d
<1>1. t = n * d + r /\ r \in 0 .. n - 1 /\ d \in Int
    OBVIOUS
<1>2. d < 0 => d <= -1
    BY <1>1
<1>3. d <= -1 => e <= n * (-1)
    BY <1>1
<1>4. n * (-1) = - n /\ e \in Int /\ r \in Int /\ 0 <= r /\ r < n /\ t = e + r
    BY <1>1
<1>5. ~ (d <= -1)
    <2>. HIDE DEF d, e, r
    <2>. QED
        BY <1>3, <1>4
<1>6. d \in Nat
    <2>. HIDE DEF d
    <2>. QED
        BY <1>1, <1>2, <1>5
<1>7. e <= t
    <2>. HIDE DEF d, e, r
    <2>. QED
        BY <1>4
<1>. QED
    BY <1>6, <1>7

LEMMA Produto ==
    ASSUME NEW t \in Nat
    PROVE  /\ \A a \in Nat : t * a \in Nat /\ t * (a + 1) = t * a + t
           /\ \A a, b \in Nat : a <= b => t * a <= t * b
OBVIOUS

\* Slice p ends before the vector does.
LEMMA Lugares ==
    ASSUME NEW t \in Nat, NEW p \in Processo
    PROVE  /\ t * p \in Nat /\ np * t \in Nat /\ t * p + t <= np * t
           /\ t * (p + 1) = t * p + t
           /\ p # REMAINING_PHASE => t * p + 2 * t <= np * t
<1>1. p \in Nat /\ p + 1 <= np /\ np \in Nat /\ p + 1 \in Nat
    BY Numeros
<1>2. t * (p + 1) <= t * np /\ t * p \in Nat /\ t * (p + 1) = t * p + t
    BY <1>1, Produto
<1>3. t * np = np * t /\ np * t \in Nat
    BY <1>1, Produto
<1>4. ASSUME p # REMAINING_PHASE PROVE t * p + 2 * t <= np * t
    <2>. DEFINE q == p + 1
    <2>1. q + 1 <= np /\ q \in Nat /\ q + 1 \in Nat
        BY <1>1, <1>4, Numeros
    <2>2. t * (q + 1) <= t * np /\ t * (q + 1) = t * q + t
        <3>. HIDE DEF q
        <3>. QED
            BY <1>1, <2>1, Produto
    <2>3. t * q = t * p + t
        BY <1>2
    <2>. HIDE DEF q
    <2>. QED
        BY <1>2, <1>3, <2>2, <2>3
<1>. QED
    BY <1>1, <1>2, <1>3, <1>4

LEMMA Tamanhos ==
    ASSUME Medidas
    PROVE  /\ c \in Nat /\ c >= 1 /\ c <= task_size /\ task_size \in Nat /\ task_size >= 1
           /\ entrada \in Seq(Int) /\ Len(entrada) \in Nat /\ np * task_size <= Len(entrada)
           /\ \A p \in Processo : /\ Largura(p) \in Nat /\ Largura(p) >= 1
                                  /\ task_size <= Largura(p) /\ c <= Largura(p)
                                  /\ p # REMAINING_PHASE => Largura(p) = task_size + c
                                  /\ p = REMAINING_PHASE => Largura(p) = task_size
                                  /\ task_size * p + Largura(p) <= Len(entrada)
                                  /\ task_size * p \in Nat
<1>1. c \in Nat /\ c >= 1 /\ entrada \in Seq(Int) /\ c <= task_size
    BY ConexoesAssumption, EntradasAssumption DEF Medidas, c
<1>2. Len(entrada) \in Nat
    BY <1>1
<1>3. task_size \in Nat /\ np * task_size <= Len(entrada)
    BY <1>2, Numeros, Quociente DEF task_size
<1>4. ASSUME NEW p \in Processo
      PROVE  /\ task_size * p \in Nat /\ task_size * p + task_size <= Len(entrada)
             /\ p # REMAINING_PHASE => task_size * p + (task_size + c) <= Len(entrada)
    <2>. DEFINE t == task_size
                m == np * t
    <2>1. /\ t * p \in Nat /\ m \in Nat /\ t * p + t <= m
          /\ p # REMAINING_PHASE => t * p + 2 * t <= m
        BY <1>3, Lugares
    <2>2. m <= Len(entrada) /\ t \in Nat /\ c <= t /\ c \in Nat
        BY <1>1, <1>3
    <2>. HIDE DEF m, t
    <2>. DEFINE a == t * p
    <2>3. /\ a \in Nat /\ a + t <= m /\ (p # REMAINING_PHASE => a + 2 * t <= m)
        BY <2>1
    <2>. HIDE DEF a
    <2>. DEFINE l == Len(entrada)
    <2>4. l \in Nat /\ m \in Nat /\ m <= l
        BY <1>2, <2>1, <2>2
    <2>. HIDE DEF l
    <2>5. /\ a \in Nat /\ a + t <= l
          /\ p # REMAINING_PHASE => a + (t + c) <= l
        BY <2>2, <2>3, <2>4
    <2>. QED
        BY <2>5 DEF a, t, l
<1>5. task_size >= 1
    BY <1>1, <1>3
<1>. QED
    BY <1>1, <1>2, <1>3, <1>4, <1>5 DEF Largura

-----------------------------------------------------------------------------
(***************************************************************************)
(* The steps of a round.                                                   *)
(***************************************************************************)
\* The step process p is at, counted in the loop of a rank with two neighbours.
Etapa(p) ==
    IF p = FIRST_PHASE THEN <<1, 3, 4, 5, 7, 8>>[ponto[p]]
    ELSE IF p = REMAINING_PHASE THEN <<2, 3, 4, 5, 7, 8>>[ponto[p]]
    ELSE ponto[p]

\* The step after that.
Depois(p) ==
    IF Etapa(p) = 8 THEN IF p = REMAINING_PHASE THEN 2 ELSE 1
    ELSE IF p = FIRST_PHASE /\ Etapa(p) \in {1, 5} THEN Etapa(p) + 2
    ELSE IF p = REMAINING_PHASE /\ Etapa(p) = 5 THEN 7
    ELSE Etapa(p) + 1

Pontos == \A p \in Processo : fase[p] = "laco" /\ ponto[p] \in DOMAIN Roteiro(p)

LEMMA Roteiros ==
    ASSUME NEW p \in Processo
    PROVE  /\ p = FIRST_PHASE =>
                Roteiro(p) = <<"ordenar", "enviarProximo", "barreira", "reduzir",
                               "receberProximo", "barreira">>
           /\ p = REMAINING_PHASE =>
                Roteiro(p) = <<"receberAnterior", "barreira", "ordenar", "reduzir",
                               "enviarAnterior", "barreira">>
           /\ p \notin {FIRST_PHASE, REMAINING_PHASE} /\ p % 2 = 0 =>
                Roteiro(p) = <<"ordenar", "enviarAnterior", "enviarProximo", "barreira", "reduzir",
                               "receberAnterior", "receberProximo", "barreira">>
           /\ p \notin {FIRST_PHASE, REMAINING_PHASE} /\ p % 2 = 1 =>
                Roteiro(p) = <<"receberProximo", "receberAnterior", "barreira", "ordenar",
                               "reduzir", "enviarProximo", "enviarAnterior", "barreira">>
<1>1. p % 2 \in {0, 1} /\ FIRST_PHASE # REMAINING_PHASE
    BY Numeros
<1>2. CASE p = FIRST_PHASE
    BY <1>1, <1>2 DEF Roteiro
<1>3. CASE p = REMAINING_PHASE
    BY <1>1, <1>3 DEF Roteiro
<1>4. CASE p \notin {FIRST_PHASE, REMAINING_PHASE} /\ p % 2 = 0
    BY <1>1, <1>4 DEF Roteiro
<1>5. CASE p \notin {FIRST_PHASE, REMAINING_PHASE} /\ p % 2 = 1
    BY <1>1, <1>5 DEF Roteiro
<1>. QED
    BY <1>1, <1>2, <1>3, <1>4, <1>5

\* A rank at an end has six steps, the others have eight.
Passos(p) == IF p \in {FIRST_PHASE, REMAINING_PHASE} THEN 6 ELSE 8

LEMMA Formas ==
    ASSUME NEW p \in Processo
    PROVE  /\ Len(Roteiro(p)) = Passos(p) /\ DOMAIN Roteiro(p) = 1 .. Passos(p)
           /\ ponto[p] \in DOMAIN Roteiro(p) =>
                /\ Seguinte(p) = IF ponto[p] = Passos(p) THEN 1 ELSE ponto[p] + 1
                /\ Seguinte(p) \in DOMAIN Roteiro(p)
<1>1. Len(Roteiro(p)) = Passos(p) /\ DOMAIN Roteiro(p) = 1 .. Passos(p)
    <2>0. p % 2 \in {0, 1}
        BY Numeros
    <2>1. CASE p = FIRST_PHASE
        BY <2>1, Roteiros DEF Passos
    <2>2. CASE p = REMAINING_PHASE
        BY <2>2, Roteiros DEF Passos
    <2>3. CASE p \notin {FIRST_PHASE, REMAINING_PHASE} /\ p % 2 = 0
        BY <2>3, Roteiros DEF Passos
    <2>4. CASE p \notin {FIRST_PHASE, REMAINING_PHASE} /\ p % 2 = 1
        BY <2>4, Roteiros DEF Passos
    <2>. QED
        BY <2>0, <2>1, <2>2, <2>3, <2>4
<1>2. ASSUME NEW k \in 1 .. 6 PROVE (k % 6) + 1 = IF k = 6 THEN 1 ELSE k + 1
    OBVIOUS
<1>3. ASSUME NEW k \in 1 .. 8 PROVE (k % 8) + 1 = IF k = 8 THEN 1 ELSE k + 1
    OBVIOUS
<1>4. ASSUME ponto[p] \in DOMAIN Roteiro(p)
      PROVE  Seguinte(p) = IF ponto[p] = Passos(p) THEN 1 ELSE ponto[p] + 1
    <2>1. CASE Passos(p) = 6
        BY <1>1, <1>2, <1>4, <2>1 DEF Seguinte
    <2>2. CASE Passos(p) = 8
        BY <1>1, <1>3, <1>4, <2>2 DEF Seguinte
    <2>. QED
        BY <2>1, <2>2 DEF Passos
<1>5. Passos(p) \in {6, 8}
    BY DEF Passos
<1>. QED
    BY <1>1, <1>4, <1>5

\* Etapa as a function of the place in the script.
LEMMA Escadas ==
    /\ \A k \in 1 .. 6 : /\ <<1, 3, 4, 5, 7, 8>>[k] =
                              IF k = 1 THEN 1 ELSE IF k <= 4 THEN k + 1 ELSE k + 2
                         /\ <<2, 3, 4, 5, 7, 8>>[k] = IF k <= 4 THEN k + 1 ELSE k + 2
OBVIOUS

LEMMA EtapaPonto ==
    ASSUME Pontos, NEW p \in Processo
    PROVE  /\ ponto[p] \in 1 .. Passos(p)
           /\ p = FIRST_PHASE =>
                Etapa(p) = IF ponto[p] = 1 THEN 1 ELSE IF ponto[p] <= 4 THEN ponto[p] + 1 ELSE ponto[p] + 2
           /\ p = REMAINING_PHASE =>
                Etapa(p) = IF ponto[p] <= 4 THEN ponto[p] + 1 ELSE ponto[p] + 2
           /\ p \notin {FIRST_PHASE, REMAINING_PHASE} => Etapa(p) = ponto[p]
<1>1. ponto[p] \in 1 .. Passos(p)
    BY Formas DEF Pontos
<1>2. p \in {FIRST_PHASE, REMAINING_PHASE} => ponto[p] \in 1 .. 6
    BY <1>1 DEF Passos
<1>. QED
    BY <1>1, <1>2, Escadas, Numeros DEF Etapa

LEMMA Etapas ==
    ASSUME Pontos, NEW p \in Processo
    PROVE  /\ Etapa(p) \in 1 .. 8
           /\ p = FIRST_PHASE => Etapa(p) \notin {2, 6}
           /\ p = REMAINING_PHASE => Etapa(p) \notin {1, 6}
<1>. DEFINE k == ponto[p]
<1>1. k \in 1 .. Passos(p)
    BY EtapaPonto
<1>2. CASE p \in {FIRST_PHASE, REMAINING_PHASE}
    <2>1. k \in 1 .. 6
        BY <1>1, <1>2 DEF Passos
    <2>. HIDE DEF k
    <2>. QED
        BY <1>2, <2>1, EtapaPonto, Numeros DEF k
<1>3. CASE p \notin {FIRST_PHASE, REMAINING_PHASE}
    BY <1>1, <1>3, EtapaPonto DEF Passos
<1>. QED
    BY <1>2, <1>3

\* Which step is which.
LEMMA Nomes ==
    ASSUME Pontos, NEW p \in Processo
    PROVE  /\ (Roteiro(p)[ponto[p]] = "ordenar") => Etapa(p) = (IF p % 2 = 0 THEN 1 ELSE 4)
           /\ (Roteiro(p)[ponto[p]] = "enviarAnterior") =>
                 p # FIRST_PHASE /\ Etapa(p) = (IF p % 2 = 0 THEN 2 ELSE 7)
           /\ (Roteiro(p)[ponto[p]] = "enviarProximo") =>
                 p # REMAINING_PHASE /\ Etapa(p) = (IF p % 2 = 0 THEN 3 ELSE 6)
           /\ (Roteiro(p)[ponto[p]] = "receberAnterior") =>
                 p # FIRST_PHASE /\ Etapa(p) = (IF p % 2 = 0 THEN 6 ELSE 2)
           /\ (Roteiro(p)[ponto[p]] = "receberProximo") =>
                 p # REMAINING_PHASE /\ Etapa(p) = (IF p % 2 = 0 THEN 7 ELSE 1)
           /\ (Roteiro(p)[ponto[p]] = "reduzir") => Etapa(p) = 5
           /\ (Roteiro(p)[ponto[p]] = "barreira") =>
                 Etapa(p) = 8 \/ Etapa(p) = (IF p % 2 = 0 THEN 4 ELSE 3)
<1>1. ponto[p] \in 1 .. Passos(p) /\ p % 2 \in {0, 1}
    BY EtapaPonto, Numeros
<1>2. CASE p = FIRST_PHASE
    <2>1. ponto[p] \in 1 .. 6 /\ p % 2 = 0 /\ p # REMAINING_PHASE
        BY <1>1, <1>2, Numeros DEF Passos
    <2>. QED
        BY <1>2, <2>1, Roteiros, EtapaPonto
<1>3. CASE p = REMAINING_PHASE
    <2>1. ponto[p] \in 1 .. 6 /\ p % 2 = 1 /\ p # FIRST_PHASE
        BY <1>1, <1>3, Numeros DEF Passos
    <2>. QED
        BY <1>3, <2>1, Roteiros, EtapaPonto
<1>4. CASE p \notin {FIRST_PHASE, REMAINING_PHASE}
    <2>1. ponto[p] \in 1 .. 8 /\ Etapa(p) = ponto[p]
        BY <1>1, <1>4, EtapaPonto DEF Passos
    <2>2. CASE p % 2 = 0
        BY <1>4, <2>1, <2>2, Roteiros
    <2>3. CASE p % 2 = 1
        BY <1>4, <2>1, <2>3, Roteiros
    <2>. QED
        BY <1>1, <2>2, <2>3
<1>. QED
    BY <1>2, <1>3, <1>4

LEMMA EtapaSeguinte ==
    ASSUME Pontos, NEW p \in Processo, ponto'[p] = Seguinte(p)
    PROVE  Etapa(p)' = Depois(p)
<1>. DEFINE k == ponto[p]
            l == ponto'[p]
<1>1. k \in 1 .. Passos(p) /\ l = (IF k = Passos(p) THEN 1 ELSE k + 1)
    BY EtapaPonto, Formas DEF Pontos
<1>2. CASE p \in {FIRST_PHASE, REMAINING_PHASE}
    <2>1. k \in 1 .. 6 /\ l = (IF k = 6 THEN 1 ELSE k + 1) /\ l \in 1 .. 6
        BY <1>1, <1>2 DEF Passos
    <2>2. Etapa(p)' = IF p = FIRST_PHASE
                      THEN IF l = 1 THEN 1 ELSE IF l <= 4 THEN l + 1 ELSE l + 2
                      ELSE IF l <= 4 THEN l + 1 ELSE l + 2
        BY <1>2, <2>1, Escadas DEF Etapa, FIRST_PHASE, REMAINING_PHASE
    <2>3. Etapa(p) = IF p = FIRST_PHASE
                     THEN IF k = 1 THEN 1 ELSE IF k <= 4 THEN k + 1 ELSE k + 2
                     ELSE IF k <= 4 THEN k + 1 ELSE k + 2
        BY <1>2, EtapaPonto
    <2>. HIDE DEF k, l
    <2>. QED
        BY <1>2, <2>1, <2>2, <2>3, Numeros DEF Depois
<1>3. CASE p \notin {FIRST_PHASE, REMAINING_PHASE}
    <2>1. k \in 1 .. 8 /\ l = (IF k = 8 THEN 1 ELSE k + 1) /\ Etapa(p) = k
        BY <1>1, <1>3, EtapaPonto DEF Passos
    <2>2. Etapa(p)' = l
        BY <1>3 DEF Etapa, FIRST_PHASE, REMAINING_PHASE
    <2>. HIDE DEF k, l
    <2>. QED
        BY <1>3, <2>1, <2>2 DEF Depois
<1>. QED
    BY <1>2, <1>3

-----------------------------------------------------------------------------
(***************************************************************************)
(* The invariant of the loop.                                              *)
(***************************************************************************)
Vizinhos(p, q) == p = q + 1 \/ q = p + 1

\* The step at which p sends to its neighbour q, and at which it receives from it.
Envia(p, q) == IF p % 2 = 0 THEN IF q > p THEN 3 ELSE 2 ELSE IF q > p THEN 6 ELSE 7
Recebe(p, q) == IF p % 2 = 0 THEN IF q > p THEN 7 ELSE 6 ELSE IF q > p THEN 1 ELSE 2

\* The part of the round: up to the first barrier, to the reduction, to the second
\* barrier.
Trecho(p) ==
    IF Etapa(p) <= (IF p % 2 = 0 THEN 4 ELSE 3) THEN 1 ELSE IF Etapa(p) <= 5 THEN 2 ELSE 3

\* What p and its neighbour q share, as p has it.
Borda(p, q) == IF q > p THEN Direita(p) ELSE Esquerda(p)

Tipos ==
    /\ canal \in [Processo -> [Processo -> Seq(Seq(Int))]]
    /\ folga \in Folgas
    /\ Medidas
    /\ fase \in [Processo -> {"distribuir", "laco", "imprimir", "tempo", "fim"}]
    /\ ponto \in [Processo -> Nat]
    /\ buffer \in [Processo -> Seq(Int)]
    /\ sorted \in [Processo -> BOOLEAN]
    /\ saida \in Seq(Int)

Cheios == \A p \in Processo : Len(buffer[p]) = Largura(p)

\* All are in the same part of the round.
MesmoTrecho == \A p, q \in Processo : Trecho(p) = Trecho(q)

\* There is a border under way when one has sent it and the other has not received
\* it, and nothing else.
Viaja(p, q) == Vizinhos(p, q) /\ Etapa(p) > Envia(p, q) /\ Etapa(q) <= Recebe(q, p)
Correio ==
    \A p, q \in Processo : canal[p][q] = IF Viaja(p, q) THEN <<Borda(p, q)>> ELSE <<>>

\* Nobody has received what was not sent.
Causa ==
    \A p, q \in Processo :
        Vizinhos(p, q) /\ Etapa(p) > Recebe(p, q) => Etapa(q) > Envia(q, p)

\* When the even rank e and the odd rank o have the same border: until e sorts;
\* once o has received it, until o sorts, and after that if o had nothing to
\* change; and once e has received it.
Devem(e, o) ==
    \/ Etapa(e) = 1
    \/ Recebe(o, e) < Etapa(o) /\ Etapa(o) <= 4
    \/ Etapa(o) = 5 /\ sorted[o]
    \/ Etapa(e) > Recebe(e, o)

Concordam ==
    \A e, o \in Processo :
        e % 2 = 0 /\ o % 2 = 1 /\ Vizinhos(e, o) /\ Devem(e, o) => Borda(e, o) = Borda(o, e)

\* The flag tells, from the sort to the reduction, that the buffer is in order.
Ordenou(p) ==
    Etapa(p) <= 5 /\ (p % 2 = 0 => Etapa(p) >= 2) /\ (p % 2 = 1 => Etapa(p) = 5)
Ordenados == \A p \in Processo : sorted[p] /\ Ordenou(p) => Cresce(buffer[p])

\* The places of the slices, what was dealt out to each, and what it is worth: in
\* the border of q and the rank before, the even one's value counts until the odd
\* one has sorted, and the odd one's from then to the end of the round.
Casas == Processo \X (1 .. task_size)
Dadas == [x \in Casas |-> entrada[task_size * x[1] + x[2]]]
Impar(q) == IF q % 2 = 1 THEN q ELSE q - 1
DoVizinho(q, j) == q > 0 /\ j <= c /\ (q % 2 = 1 <=> Etapa(Impar(q)) <= 4)
Vale(q, j) == IF DoVizinho(q, j) THEN buffer[q - 1][task_size + j] ELSE buffer[q][j]
Valem == [x \in Casas |-> Vale(x[1], x[2])]
Valores == Permuta(Casas, Dadas, Valem)

Rodando ==
    /\ Pontos /\ Cheios /\ saida = <<>>
    /\ MesmoTrecho /\ Correio /\ Causa /\ Concordam /\ Ordenados /\ Valores

-----------------------------------------------------------------------------
\* What the sizes and the slices are does not change.
Constante == connected_integers' = connected_integers /\ entrada' = entrada

LEMMA Constantes ==
    ASSUME Constante
    PROVE  /\ c' = c /\ task_size' = task_size /\ (Medidas => Medidas')
           /\ \A p : Largura(p)' = Largura(p)
           /\ Casas' = Casas /\ Dadas' = Dadas
           /\ Repartidos' = Repartidos
BY DEF Constante, c, task_size, Medidas, Largura, Casas, Dadas, Repartidos

\* Process p goes on to its next step, and no other does.
Avancou(p) ==
    /\ Pontos' /\ fase' = fase
    /\ Etapa(p)' = Depois(p)
    /\ \A q \in Processo : q # p => Etapa(q)' = Etapa(q)

LEMMA AvancarAvancou ==
    ASSUME Pontos, Tipos, NEW p \in Processo, Avancar(p), fase' = fase
    PROVE  Avancou(p) /\ ponto' \in [Processo -> Nat]
<1>1. /\ ponto \in [Processo -> Nat] /\ ponto' = [ponto EXCEPT ![p] = Seguinte(p)]
    BY DEF Tipos, Avancar
<1>2. Seguinte(p) \in DOMAIN Roteiro(p) /\ Passos(p) \in Nat
    BY Formas DEF Pontos, Passos
<1>3. Seguinte(p) \in Nat
    BY <1>2, Formas
<1>4. /\ ponto' \in [Processo -> Nat] /\ ponto'[p] = Seguinte(p)
      /\ \A q \in Processo : q # p => ponto'[q] = ponto[q]
    BY <1>1, <1>3
<1>5. ASSUME NEW q \in Processo PROVE Roteiro(q)' = Roteiro(q)
    BY DEF Roteiro, FIRST_PHASE, REMAINING_PHASE
<1>6. Pontos'
    BY <1>2, <1>4, <1>5 DEF Pontos
<1>7. Etapa(p)' = Depois(p)
    BY <1>4, EtapaSeguinte
<1>8. ASSUME NEW q \in Processo, q # p PROVE Etapa(q)' = Etapa(q)
    BY <1>4, <1>8 DEF Etapa, FIRST_PHASE, REMAINING_PHASE
<1>. QED
    BY <1>4, <1>6, <1>7, <1>8 DEF Avancou

\* All do, at a barrier or the reduction.
Avancaram == Pontos' /\ \A p \in Processo : Etapa(p)' = Depois(p)

LEMMA JuntosAvancaram ==
    ASSUME Pontos, ponto' = [p \in Processo |-> Seguinte(p)], fase' = fase
    PROVE  Avancaram /\ ponto' \in [Processo -> Nat]
<1>1. ASSUME NEW p \in Processo
      PROVE  /\ ponto'[p] = Seguinte(p) /\ Seguinte(p) \in DOMAIN Roteiro(p) /\ Seguinte(p) \in Nat
             /\ Roteiro(p)' = Roteiro(p)
    <2>1. Seguinte(p) \in DOMAIN Roteiro(p) /\ Passos(p) \in Nat
        BY Formas DEF Pontos, Passos
    <2>2. Roteiro(p)' = Roteiro(p)
        BY DEF Roteiro, FIRST_PHASE, REMAINING_PHASE
    <2>. QED
        BY <2>1, <2>2, Formas
<1>2. Pontos'
    BY <1>1 DEF Pontos
<1>. QED
    BY <1>1, <1>2, EtapaSeguinte DEF Avancaram

-----------------------------------------------------------------------------
(***************************************************************************)
(* The steps of one process, by what they do to a border.                  *)
(***************************************************************************)
Igual == folga' = folga /\ Constante /\ saida' = saida

Ordenando(p) ==
    /\ Etapa(p) = (IF p % 2 = 0 THEN 1 ELSE 4)
    /\ buffer' = [buffer EXCEPT ![p] = bubbleSort(buffer[p])]
    /\ sorted' = [sorted EXCEPT ![p] = Passada(buffer[p]) = buffer[p]]
    /\ canal' = canal

Enviando(p, q) ==
    /\ q \in Processo /\ Vizinhos(p, q) /\ Etapa(p) = Envia(p, q)
    /\ canal' = MPI_Send(canal, p, q, Borda(p, q))
    /\ buffer' = buffer /\ sorted' = sorted

\* Where p keeps the border it shares with q.
Lugar(p, q) == IF q > p THEN task_size ELSE 0

Recebendo(p, q) ==
    /\ q \in Processo /\ Vizinhos(p, q) /\ Etapa(p) = Recebe(p, q)
    /\ Chegou(q, p)
    /\ canal' = MPI_Recv(canal, q, p)
    /\ buffer' = [buffer EXCEPT ![p] =
                     [k \in DOMAIN buffer[p] |->
                         IF k - Lugar(p, q) \in DOMAIN Head(canal[q][p])
                         THEN Head(canal[q][p])[k - Lugar(p, q)] ELSE buffer[p][k]]]
    /\ sorted' = sorted

LEMMA OrdenarEfeito ==
    ASSUME Tipos, Pontos, NEW p \in Processo, Ordenar(p)
    PROVE  Avancou(p) /\ ponto' \in [Processo -> Nat] /\ Igual /\ Ordenando(p)
<1>1. Em(p, "ordenar") /\ Avancar(p) /\ fase' = fase
    BY DEF Ordenar
<1>2. Etapa(p) = (IF p % 2 = 0 THEN 1 ELSE 4)
    BY <1>1, Nomes DEF Em
<1>. QED
    BY <1>1, <1>2, AvancarAvancou DEF Ordenar, Igual, Constante, Ordenando

LEMMA EnviarEfeito ==
    ASSUME Tipos, Pontos, NEW p \in Processo, EnviarAnterior(p) \/ EnviarProximo(p)
    PROVE  Avancou(p) /\ ponto' \in [Processo -> Nat] /\ Igual /\ \E q : Enviando(p, q)
<1>1. CASE EnviarAnterior(p)
    <2>1. Em(p, "enviarAnterior") /\ Avancar(p) /\ fase' = fase
        BY <1>1 DEF EnviarAnterior
    <2>2. p - 1 \in Processo /\ p \in Int /\ Etapa(p) = (IF p % 2 = 0 THEN 2 ELSE 7)
        BY <2>1, Nomes, Numeros DEF Em
    <2>3. Enviando(p, p - 1)
        BY <1>1, <2>2 DEF EnviarAnterior, Enviando, Envia, Borda, Vizinhos
    <2>. QED
        BY <1>1, <2>1, <2>3, AvancarAvancou DEF EnviarAnterior, Igual, Constante
<1>2. CASE EnviarProximo(p)
    <2>1. Em(p, "enviarProximo") /\ Avancar(p) /\ fase' = fase
        BY <1>2 DEF EnviarProximo
    <2>2. p + 1 \in Processo /\ p \in Int /\ Etapa(p) = (IF p % 2 = 0 THEN 3 ELSE 6)
        BY <2>1, Nomes, Numeros DEF Em
    <2>3. Enviando(p, p + 1)
        BY <1>2, <2>2 DEF EnviarProximo, Enviando, Envia, Borda, Vizinhos
    <2>. QED
        BY <1>2, <2>1, <2>3, AvancarAvancou DEF EnviarProximo, Igual, Constante
<1>. QED
    BY <1>1, <1>2

LEMMA ReceberEfeito ==
    ASSUME Tipos, Pontos, NEW p \in Processo, ReceberAnterior(p) \/ ReceberProximo(p)
    PROVE  Avancou(p) /\ ponto' \in [Processo -> Nat] /\ Igual /\ \E q : Recebendo(p, q)
<1>0. buffer[p] \in Seq(Int) /\ buffer \in [Processo -> Seq(Int)]
    BY DEF Tipos
<1>1. CASE ReceberAnterior(p)
    <2>1. Em(p, "receberAnterior") /\ ReceberBorda(p, p - 1, 0)
        BY <1>1 DEF ReceberAnterior
    <2>2. p - 1 \in Processo /\ p \in Int /\ Etapa(p) = (IF p % 2 = 0 THEN 6 ELSE 2)
        BY <2>1, Nomes, Numeros DEF Em
    <2>3. Vizinhos(p, p - 1) /\ Etapa(p) = Recebe(p, p - 1) /\ Lugar(p, p - 1) = 0
        BY <2>2 DEF Vizinhos, Recebe, Lugar
    <2>4. Recebendo(p, p - 1)
        BY <1>0, <2>1, <2>2, <2>3 DEF ReceberBorda, Recebendo
    <2>. QED
        BY <2>1, <2>4, AvancarAvancou DEF ReceberBorda, Igual, Constante
<1>2. CASE ReceberProximo(p)
    <2>1. Em(p, "receberProximo") /\ ReceberBorda(p, p + 1, task_size)
        BY <1>2 DEF ReceberProximo
    <2>2. p + 1 \in Processo /\ p \in Int /\ Etapa(p) = (IF p % 2 = 0 THEN 7 ELSE 1)
        BY <2>1, Nomes, Numeros DEF Em
    <2>3. Vizinhos(p, p + 1) /\ Etapa(p) = Recebe(p, p + 1) /\ Lugar(p, p + 1) = task_size
        BY <2>2 DEF Vizinhos, Recebe, Lugar
    <2>4. Recebendo(p, p + 1)
        BY <1>0, <2>1, <2>2, <2>3 DEF ReceberBorda, Recebendo
    <2>. QED
        BY <2>1, <2>4, AvancarAvancou DEF ReceberBorda, Igual, Constante
<1>. QED
    BY <1>1, <1>2

-----------------------------------------------------------------------------
LEMMA Recorte ==
    ASSUME NEW v \in Seq(Int), NEW b \in Nat, NEW m \in Nat, b + m <= Len(v)
    PROVE  /\ SubSeq(v, b + 1, b + m) \in Seq(Int) /\ Len(SubSeq(v, b + 1, b + m)) = m
           /\ \A j \in 1 .. m : SubSeq(v, b + 1, b + m)[j] = v[b + j] /\ b + j \in DOMAIN v
<1>1. SubSeq(v, b + 1, b + m) = [j \in 1 .. m |-> v[b + j]]
    OBVIOUS
<1>2. \A j \in 1 .. m : b + j \in DOMAIN v /\ v[b + j] \in Int
    OBVIOUS
<1>3. [j \in 1 .. m |-> v[b + j]] \in Seq(Int) /\ Len([j \in 1 .. m |-> v[b + j]]) = m
    BY <1>2
<1>. QED
    BY <1>1, <1>2, <1>3

\* Two sequences with the same elements.
LEMMA Mesmas ==
    ASSUME NEW v \in Seq(Int), NEW w \in Seq(Int), Len(v) = Len(w),
           \A j \in 1 .. Len(v) : v[j] = w[j]
    PROVE  v = w
OBVIOUS

Canais == [Processo -> [Processo -> Seq(Seq(Int))]]

LEMMA Mandada ==
    ASSUME canal \in Canais, NEW p \in Processo, NEW q \in Processo, NEW s \in Seq(Int),
           canal' = MPI_Send(canal, p, q, s)
    PROVE  /\ canal' \in Canais /\ canal'[p][q] = Append(canal[p][q], s)
           /\ \A x, y \in Processo : x # p \/ y # q => canal'[x][y] = canal[x][y]
<1>1. Append(canal[p][q], s) \in Seq(Seq(Int))
    BY DEF Canais
<1>. QED
    BY <1>1 DEF MPI_Send, Canais

LEMMA Tomada ==
    ASSUME canal \in Canais, NEW p \in Processo, NEW q \in Processo, canal[p][q] # <<>>,
           canal' = MPI_Recv(canal, p, q)
    PROVE  /\ canal' \in Canais /\ canal'[p][q] = Tail(canal[p][q])
           /\ Head(canal[p][q]) \in Seq(Int)
           /\ \A x, y \in Processo : x # p \/ y # q => canal'[x][y] = canal[x][y]
<1>1. Tail(canal[p][q]) \in Seq(Seq(Int)) /\ Head(canal[p][q]) \in Seq(Int)
    BY DEF Canais
<1>. QED
    BY <1>1 DEF MPI_Recv, Canais

LEMMA Lados ==
    ASSUME NEW p \in Processo, NEW q \in Processo, Vizinhos(p, q)
    PROVE  /\ p \in Nat /\ q \in Nat /\ p # q /\ (p % 2 = 0 <=> q % 2 = 1) /\ (q > p <=> ~ (p > q))
           /\ p % 2 \in {0, 1} /\ q % 2 \in {0, 1} /\ Vizinhos(q, p)
           /\ q > p => q = p + 1 /\ p # REMAINING_PHASE /\ q # FIRST_PHASE
           /\ p > q => p = q + 1 /\ q # REMAINING_PHASE /\ p # FIRST_PHASE
<1>1. CASE p = q + 1
    BY <1>1, Numeros DEF Vizinhos
<1>2. CASE q = p + 1
    BY <1>2, Numeros DEF Vizinhos
<1>. QED
    BY <1>1, <1>2 DEF Vizinhos

\* The border with q that a buffer of p has.
BordaDe(b, p, q) ==
    IF q > p THEN SubSeq(b, task_size + 1, task_size + c) ELSE SubSeq(b, 1, c)

LEMMA BordasDe ==
    ASSUME Medidas, NEW p \in Processo, NEW q \in Processo, Vizinhos(p, q),
           NEW b \in Seq(Int), Len(b) = Largura(p)
    PROVE  /\ BordaDe(b, p, q) \in Seq(Int) /\ Len(BordaDe(b, p, q)) = c
           /\ Lugar(p, q) \in Nat /\ Lugar(p, q) + c <= Len(b)
           /\ \A j \in 1 .. c : /\ BordaDe(b, p, q)[j] = b[Lugar(p, q) + j]
                                /\ Lugar(p, q) + j \in DOMAIN b
<1>1. CASE q > p
    <2>1. p # REMAINING_PHASE
        BY <1>1, Lados
    <2>2. task_size \in Nat /\ c \in Nat /\ task_size + c <= Len(b)
        BY <2>1, Tamanhos
    <2>. DEFINE w == SubSeq(b, task_size + 1, task_size + c)
    <2>3. /\ w \in Seq(Int) /\ Len(w) = c
          /\ \A j \in 1 .. c : w[j] = b[task_size + j] /\ task_size + j \in DOMAIN b
        BY <2>2, Recorte
    <2>4. BordaDe(b, p, q) = w /\ Lugar(p, q) = task_size
        BY <1>1 DEF BordaDe, Lugar
    <2>. HIDE DEF w
    <2>. QED
        BY <2>2, <2>3, <2>4
<1>2. CASE ~ (q > p)
    <2>1. 0 \in Nat /\ c \in Nat /\ 0 + c <= Len(b) /\ 0 + 1 = 1 /\ 0 + c = c
        BY Tamanhos
    <2>2. BordaDe(b, p, q) = SubSeq(b, 0 + 1, 0 + c) /\ Lugar(p, q) = 0
        BY <1>2, <2>1 DEF BordaDe, Lugar
    <2>. QED
        BY <2>1, <2>2, Recorte
<1>. QED
    BY <1>1, <1>2

LEMMA Bordas ==
    ASSUME Medidas, NEW p \in Processo, NEW q \in Processo, Vizinhos(p, q),
           buffer[p] \in Seq(Int), Len(buffer[p]) = Largura(p)
    PROVE  /\ Borda(p, q) \in Seq(Int) /\ Len(Borda(p, q)) = c
           /\ Lugar(p, q) \in Nat /\ Lugar(p, q) + c <= Len(buffer[p])
           /\ \A j \in 1 .. c : /\ Borda(p, q)[j] = buffer[p][Lugar(p, q) + j]
                                /\ Lugar(p, q) + j \in DOMAIN buffer[p]
<1>1. Borda(p, q) = BordaDe(buffer[p], p, q)
    BY DEF Borda, BordaDe, Direita, Esquerda
<1>. QED
    BY <1>1, BordasDe

LEMMA BordaDepois ==
    ASSUME Constante, NEW p, NEW q
    PROVE  Borda(p, q)' = BordaDe(buffer'[p], p, q)
BY Constantes DEF Borda, BordaDe, Direita, Esquerda

LEMMA BordaParada ==
    ASSUME Constante, NEW p \in Processo, NEW q \in Processo, buffer'[p] = buffer[p]
    PROVE  Borda(p, q)' = Borda(p, q)
BY Constantes DEF Borda, Direita, Esquerda

\* The next step, with what is known of the ends.
LEMMA Proximos ==
    ASSUME Pontos, NEW p \in Processo
    PROVE  /\ Etapa(p) \in 1 .. 8 /\ p % 2 \in {0, 1}
           /\ Etapa(p) \in {2, 3, 4, 6, 7} => Depois(p) = Etapa(p) + 1
           /\ Etapa(p) = 1 /\ p % 2 = 1 => Depois(p) = 2
           /\ Etapa(p) = 1 /\ p % 2 = 0 => Depois(p) \in {2, 3} /\ (p = FIRST_PHASE => Depois(p) = 3)
           /\ Etapa(p) = 5 => /\ Depois(p) \in {6, 7}
                              /\ p \in {FIRST_PHASE, REMAINING_PHASE} => Depois(p) = 7
           /\ Etapa(p) = 8 => /\ Depois(p) \in {1, 2} /\ (p % 2 = 0 => Depois(p) = 1)
                              /\ Depois(p) = 2 => p = REMAINING_PHASE
BY Etapas, Numeros DEF Depois

-----------------------------------------------------------------------------
(***************************************************************************)
(* A step of one process keeps the invariant.                              *)
(***************************************************************************)
UmPasso(p) ==
    /\ Avancou(p) /\ ponto' \in [Processo -> Nat] /\ Igual
    /\ Ordenando(p) \/ (\E q : Enviando(p, q)) \/ (\E q : Recebendo(p, q))

LEMMA UmPassoEtapas ==
    ASSUME Pontos, NEW p \in Processo, UmPasso(p)
    PROVE  /\ Etapa(p) \in {1, 2, 3, 4, 6, 7}
           /\ Etapa(p)' = Depois(p) /\ Trecho(p)' = Trecho(p) /\ Depois(p) > Etapa(p)
           /\ Etapa(p) <= 4 <=> Depois(p) <= 4 \/ (p % 2 = 1 /\ Ordenando(p))
           /\ \A q \in Processo : q # p => Etapa(q)' = Etapa(q) /\ Trecho(q)' = Trecho(q)
<1>1. Etapa(p)' = Depois(p) /\ \A q \in Processo : q # p => Etapa(q)' = Etapa(q)
    BY DEF UmPasso, Avancou
<1>2. CASE Ordenando(p)
    <2>1. Etapa(p) = (IF p % 2 = 0 THEN 1 ELSE 4)
        BY <1>2 DEF Ordenando
    <2>. QED
        BY <1>1, <1>2, <2>1, Proximos DEF Trecho
<1>3. ASSUME NEW q, Enviando(p, q)
      PROVE  /\ Etapa(p) = (IF p % 2 = 0 THEN 2 ELSE 6) \/ Etapa(p) = (IF p % 2 = 0 THEN 3 ELSE 7)
             /\ ~ Ordenando(p)
    BY <1>3, Numeros DEF Enviando, Envia, Ordenando
<1>4. ASSUME NEW q, Recebendo(p, q)
      PROVE  /\ Etapa(p) = (IF p % 2 = 0 THEN 6 ELSE 1) \/ Etapa(p) = (IF p % 2 = 0 THEN 7 ELSE 2)
             /\ ~ Ordenando(p)
    BY <1>4, Numeros DEF Recebendo, Recebe, Ordenando
<1>5. CASE \E q : Enviando(p, q)
    BY <1>1, <1>3, <1>5, Proximos DEF Trecho
<1>6. CASE \E q : Recebendo(p, q)
    BY <1>1, <1>4, <1>6, Proximos DEF Trecho
<1>. QED
    BY <1>2, <1>5, <1>6 DEF UmPasso

LEMMA UmPassoTrecho ==
    ASSUME Pontos, MesmoTrecho, NEW p \in Processo, UmPasso(p)
    PROVE  MesmoTrecho'
<1>1. \A q \in Processo : Trecho(q)' = Trecho(q)
    BY UmPassoEtapas
<1>. QED
    BY <1>1 DEF MesmoTrecho

\* What the part of the round says of the steps.
LEMMA TrechoEtapas ==
    ASSUME Pontos, MesmoTrecho, NEW p \in Processo, NEW q \in Processo
    PROVE  /\ Etapa(p) \in 1 .. 8 /\ Etapa(q) \in 1 .. 8 /\ p % 2 \in {0, 1} /\ q % 2 \in {0, 1}
           /\ Etapa(p) >= 6 <=> Etapa(q) >= 6
           /\ Etapa(p) <= (IF p % 2 = 0 THEN 4 ELSE 3) <=> Etapa(q) <= (IF q % 2 = 0 THEN 4 ELSE 3)
<1>1. Trecho(p) = Trecho(q)
    BY DEF MesmoTrecho
<1>2. Etapa(p) \in 1 .. 8 /\ Etapa(q) \in 1 .. 8 /\ p % 2 \in {0, 1} /\ q % 2 \in {0, 1}
    BY Proximos
<1>. QED
    BY <1>1, <1>2 DEF Trecho

LEMMA UmPassoCausa ==
    ASSUME Tipos, Pontos, MesmoTrecho, Correio, Causa, NEW p \in Processo, UmPasso(p)
    PROVE  Causa'
<1>. SUFFICES ASSUME NEW x \in Processo, NEW y \in Processo,
                     Vizinhos(x, y), Etapa(x)' > Recebe(x, y)
              PROVE  Etapa(y)' > Envia(y, x)
    BY DEF Causa, Vizinhos, Recebe, Envia
<1>1. /\ \A q \in Processo : q # p => Etapa(q)' = Etapa(q)
      /\ Etapa(p)' = Depois(p) /\ Depois(p) > Etapa(p)
    BY UmPassoEtapas
<1>2. \A q \in Processo : Etapa(q) \in 1 .. 8 /\ Etapa(q)' >= Etapa(q)
    BY <1>1, Proximos
<1>3. x # y /\ Envia(y, x) \in {2, 3, 6, 7} /\ Recebe(x, y) \in {1, 2, 6, 7}
    BY Lados DEF Envia, Recebe
<1>4. CASE Etapa(x) > Recebe(x, y)
    <2>1. Etapa(y) > Envia(y, x)
        BY <1>4 DEF Causa
    <2>. QED
        BY <1>2, <1>3, <2>1, UmPassoEtapas, Proximos
<1>5. CASE ~ (Etapa(x) > Recebe(x, y))
    <2>1. x = p /\ Etapa(p) <= Recebe(p, y) /\ Depois(p) > Recebe(p, y)
        BY <1>1, <1>2, <1>3, <1>5
    <2>2. \E q : Recebendo(p, q) /\ q = y
        <3>0. y # p /\ p % 2 \in {0, 1}
            BY <1>3, <2>1, Proximos
        <3>1. ~ Ordenando(p)
            <4>. SUFFICES ASSUME Ordenando(p) PROVE FALSE
                OBVIOUS
            <4>1. Etapa(p) = (IF p % 2 = 0 THEN 1 ELSE 4)
                BY DEF Ordenando
            <4>. QED
                BY <2>1, <3>0, <4>1, Proximos DEF Recebe
        <3>2. ASSUME NEW q, Enviando(p, q) PROVE FALSE
            <4>1. Etapa(p) = Envia(p, q)
                BY <3>2 DEF Enviando
            <4>. QED
                BY <2>1, <3>0, <4>1, Proximos DEF Recebe, Envia
        <3>3. PICK q : Recebendo(p, q)
            BY <3>1, <3>2 DEF UmPasso
        <3>4. Etapa(p) = Recebe(p, q) /\ q \in Processo /\ Vizinhos(p, q)
            BY <3>3 DEF Recebendo
        <3>5. q > p <=> y > p
            BY <2>1, <3>0, <3>4, Proximos DEF Recebe
        <3>6. q = y
            BY <2>1, <3>4, <3>5, Lados
        <3>. QED
            BY <3>3, <3>6
    <2>3. canal[y][x] # <<>>
        BY <2>1, <2>2 DEF Recebendo, Chegou
    <2>4. Viaja(y, x)
        BY <2>3 DEF Correio
    <2>5. Etapa(y) > Envia(y, x) /\ y # p
        BY <1>3, <2>1, <2>4 DEF Viaja
    <2>. QED
        BY <1>1, <2>5
<1>. QED
    BY <1>4, <1>5

\* What p receives is the border as its neighbour has it, written over its own.
LEMMA Recebida ==
    ASSUME Tipos, Pontos, Cheios, Correio, Constante, NEW p \in Processo, NEW q, Recebendo(p, q)
    PROVE  /\ q \in Processo /\ Vizinhos(p, q) /\ p # q
           /\ canal[q][p] = <<Borda(q, p)>> /\ canal'[q][p] = <<>> /\ canal' \in Canais
           /\ \A x, y \in Processo : x # q \/ y # p => canal'[x][y] = canal[x][y]
           /\ buffer' \in [Processo -> Seq(Int)] /\ Len(buffer'[p]) = Len(buffer[p])
           /\ \A x \in Processo : x # p => buffer'[x] = buffer[x]
           /\ \A k \in 1 .. Len(buffer[p]) :
                 buffer'[p][k] = IF k - Lugar(p, q) \in 1 .. c
                                 THEN Borda(q, p)[k - Lugar(p, q)] ELSE buffer[p][k]
<1>. DEFINE m == Borda(q, p)
<1>1. /\ q \in Processo /\ Vizinhos(p, q) /\ canal[q][p] # <<>>
      /\ canal' = MPI_Recv(canal, q, p)
      /\ buffer' = [buffer EXCEPT ![p] =
                     [k \in DOMAIN buffer[p] |->
                         IF k - Lugar(p, q) \in DOMAIN Head(canal[q][p])
                         THEN Head(canal[q][p])[k - Lugar(p, q)] ELSE buffer[p][k]]]
    BY DEF Recebendo, Chegou
<1>2. /\ Medidas /\ canal \in Canais /\ buffer \in [Processo -> Seq(Int)]
      /\ \A x \in Processo : buffer[x] \in Seq(Int) /\ Len(buffer[x]) = Largura(x)
    BY DEF Tipos, Cheios, Canais
<1>3. canal[q][p] = <<m>>
    BY <1>1 DEF Correio
<1>4. Vizinhos(q, p) /\ p # q
    BY <1>1, Lados
<1>5. m \in Seq(Int) /\ Len(m) = c /\ c \in Nat /\ DOMAIN m = 1 .. c
    BY <1>1, <1>2, <1>4, Bordas, Tamanhos
<1>. HIDE DEF m
<1>6. Head(canal[q][p]) = m /\ Tail(canal[q][p]) = <<>>
    BY <1>3
<1>7. /\ canal'[q][p] = <<>> /\ canal' \in Canais
      /\ \A x, y \in Processo : x # q \/ y # p => canal'[x][y] = canal[x][y]
    BY <1>1, <1>2, <1>6, Tomada
<1>. DEFINE l == Lugar(p, q)
            b == [k \in DOMAIN buffer[p] |-> IF k - l \in 1 .. c THEN m[k - l] ELSE buffer[p][k]]
<1>8. buffer' = [buffer EXCEPT ![p] = b]
    BY <1>1, <1>5, <1>6
<1>9. l \in Nat
    BY Tamanhos, <1>2 DEF Lugar
<1>10. b \in Seq(Int) /\ Len(b) = Len(buffer[p])
    <2>1. \A k \in DOMAIN buffer[p] : b[k] \in Int
        <3>. SUFFICES ASSUME NEW k \in DOMAIN buffer[p] PROVE b[k] \in Int
            OBVIOUS
        <3>1. buffer[p][k] \in Int
            BY <1>2
        <3>2. \A j \in 1 .. c : m[j] \in Int
            BY <1>5
        <3>. QED
            BY <3>1, <3>2
    <2>2. DOMAIN buffer[p] = 1 .. Len(buffer[p]) /\ Len(buffer[p]) \in Nat /\ DOMAIN b = DOMAIN buffer[p]
        BY <1>2
    <2>. HIDE DEF b
    <2>3. b \in [1 .. Len(buffer[p]) -> Int]
        <3>1. b = [k \in DOMAIN b |-> b[k]]
            BY DEF b
        <3>. QED
            BY <2>1, <2>2, <3>1
    <2>. QED
        BY <2>2, <2>3
<1>11. \A k \in 1 .. Len(buffer[p]) : b[k] = IF k - l \in 1 .. c THEN m[k - l] ELSE buffer[p][k]
    BY <1>2
<1>. HIDE DEF b, l
<1>12. /\ buffer' \in [Processo -> Seq(Int)] /\ buffer'[p] = b
       /\ \A x \in Processo : x # p => buffer'[x] = buffer[x]
    BY <1>2, <1>8, <1>10
<1>. QED
    BY <1>1, <1>3, <1>4, <1>7, <1>10, <1>11, <1>12 DEF m, l

LEMMA Ordenada ==
    ASSUME Tipos, Cheios, NEW p \in Processo, Ordenando(p)
    PROVE  /\ buffer' \in [Processo -> Seq(Int)] /\ buffer'[p] = bubbleSort(buffer[p])
           /\ Rearranja(buffer[p], buffer'[p])
           /\ \A x \in Processo : x # p => buffer'[x] = buffer[x]
           /\ sorted' \in [Processo -> BOOLEAN]
           /\ \A x \in Processo : x # p => sorted'[x] = sorted[x]
           /\ sorted'[p] => Cresce(buffer[p]) /\ buffer'[p] = buffer[p]
<1>1. /\ buffer[p] \in Seq(Int) /\ Len(buffer[p]) > 0 /\ buffer \in [Processo -> Seq(Int)]
      /\ sorted \in [Processo -> BOOLEAN]
    <2>1. Len(buffer[p]) = Largura(p) /\ Medidas
        BY DEF Cheios, Tipos
    <2>2. Largura(p) \in Nat /\ Largura(p) >= 1
        BY <2>1, Tamanhos
    <2>. QED
        BY <2>1, <2>2 DEF Tipos
<1>2. Rearranja(buffer[p], bubbleSort(buffer[p]))
    BY <1>1, bubbleSortRearranja
<1>3. buffer' = [buffer EXCEPT ![p] = bubbleSort(buffer[p])]
    BY DEF Ordenando
<1>4. bubbleSort(buffer[p]) \in Seq(Int)
    BY <1>2 DEF Rearranja
<1>5. /\ buffer' \in [Processo -> Seq(Int)] /\ buffer'[p] = bubbleSort(buffer[p])
      /\ \A x \in Processo : x # p => buffer'[x] = buffer[x]
    BY <1>1, <1>3, <1>4
<1>6. /\ sorted' \in [Processo -> BOOLEAN] /\ sorted'[p] = (Passada(buffer[p]) = buffer[p])
      /\ \A x \in Processo : x # p => sorted'[x] = sorted[x]
    BY <1>1 DEF Ordenando
<1>7. ASSUME sorted'[p] PROVE Cresce(buffer[p]) /\ buffer'[p] = buffer[p]
    <2>1. Passada(buffer[p]) = buffer[p]
        BY <1>6, <1>7
    <2>. QED
        BY <1>1, <1>5, <2>1, PassadaParada, bubbleSortParado
<1>. QED
    BY <1>2, <1>5, <1>6, <1>7

LEMMA Enviada ==
    ASSUME Tipos, Cheios, NEW p \in Processo, NEW q, Enviando(p, q)
    PROVE  /\ q \in Processo /\ Vizinhos(p, q) /\ p # q
           /\ canal' \in Canais /\ canal'[p][q] = Append(canal[p][q], Borda(p, q))
           /\ \A x, y \in Processo : x # p \/ y # q => canal'[x][y] = canal[x][y]
           /\ buffer' = buffer /\ sorted' = sorted
<1>1. /\ q \in Processo /\ Vizinhos(p, q) /\ canal' = MPI_Send(canal, p, q, Borda(p, q))
      /\ buffer' = buffer /\ sorted' = sorted
    BY DEF Enviando
<1>2. /\ Medidas /\ canal \in Canais /\ buffer[p] \in Seq(Int) /\ Len(buffer[p]) = Largura(p)
    BY DEF Tipos, Cheios, Canais
<1>3. Borda(p, q) \in Seq(Int)
    BY <1>1, <1>2, Bordas
<1>. QED
    BY <1>1, <1>2, <1>3, Mandada, Lados

LEMMA UmPassoTipos ==
    ASSUME Tipos, Pontos, Cheios, Correio, NEW p \in Processo, UmPasso(p)
    PROVE  Tipos' /\ Cheios' /\ Pontos' /\ saida' = saida
<1>1. /\ Pontos' /\ fase' = fase /\ ponto' \in [Processo -> Nat] /\ folga' = folga
      /\ Constante /\ saida' = saida
    BY DEF UmPasso, Avancou, Igual
<1>2. \A q \in Processo : Largura(q)' = Largura(q)
    BY <1>1, Constantes
<1>3. \A q \in Processo : Len(buffer[q]) = Largura(q)
    BY DEF Cheios
<1>4. /\ canal' \in Canais /\ buffer' \in [Processo -> Seq(Int)] /\ sorted' \in [Processo -> BOOLEAN]
      /\ \A q \in Processo : Len(buffer'[q]) = Len(buffer[q])
    <2>1. CASE Ordenando(p)
        <3>1. /\ buffer' \in [Processo -> Seq(Int)] /\ sorted' \in [Processo -> BOOLEAN]
              /\ Len(buffer'[p]) = Len(buffer[p])
              /\ \A x \in Processo : x # p => buffer'[x] = buffer[x]
            BY <2>1, Ordenada DEF Rearranja
        <3>. QED
            BY <2>1, <3>1 DEF Ordenando, Tipos, Canais
    <2>2. CASE \E q : Enviando(p, q)
        BY <2>2, Enviada DEF Tipos
    <2>3. CASE \E q : Recebendo(p, q)
        <3>1. PICK q : Recebendo(p, q)
            BY <2>3
        <3>2. /\ canal' \in Canais /\ buffer' \in [Processo -> Seq(Int)]
              /\ Len(buffer'[p]) = Len(buffer[p])
              /\ \A x \in Processo : x # p => buffer'[x] = buffer[x]
            BY <1>1, <3>1, Recebida
        <3>3. sorted' = sorted
            BY <3>1 DEF Recebendo
        <3>. QED
            BY <3>2, <3>3 DEF Tipos
    <2>. QED
        BY <2>1, <2>2, <2>3 DEF UmPasso
<1>5. Medidas'
    BY <1>1, Constantes DEF Tipos
<1>6. Cheios'
    BY <1>2, <1>3, <1>4 DEF Cheios
<1>7. Tipos'
    BY <1>1, <1>4, <1>5 DEF Tipos, Canais
<1>. QED
    BY <1>1, <1>6, <1>7

LEMMA OrdenandoViaja ==
    ASSUME Pontos, NEW p \in Processo, UmPasso(p), Ordenando(p),
           NEW x \in Processo, NEW y \in Processo, Vizinhos(x, y)
    PROVE  (Viaja(x, y)' <=> Viaja(x, y)) /\ (Viaja(x, y) => x # p)
<1>1. Etapa(p) = (IF p % 2 = 0 THEN 1 ELSE 4) /\ p % 2 \in {0, 1}
    BY Numeros DEF Ordenando
<1>2. /\ Etapa(p)' = Depois(p) /\ \A q \in Processo : q # p => Etapa(q)' = Etapa(q)
    BY UmPassoEtapas
<1>3. /\ Depois(p) \in {2, 3, 5} /\ (p % 2 = 0 => Depois(p) \in {2, 3})
      /\ (p % 2 = 1 => Depois(p) = 5) /\ (p = FIRST_PHASE => Depois(p) = 3)
    BY <1>1, Proximos, Numeros
<1>4. x # y /\ (y > x <=> ~ (x > y)) /\ (x = FIRST_PHASE => y > x)
    BY Lados
<1>5. Viaja(x, y)' <=> Etapa(x)' > Envia(x, y) /\ Etapa(y)' <= Recebe(y, x)
    BY DEF Viaja, Vizinhos, Envia, Recebe
<1>6. Viaja(x, y) <=> Etapa(x) > Envia(x, y) /\ Etapa(y) <= Recebe(y, x)
    BY DEF Viaja
<1>7. CASE x = p
    <2>1. ~ (Etapa(p) > Envia(p, y))
        BY <1>1 DEF Envia
    <2>2. ~ (Depois(p) > Envia(p, y))
        <3>1. CASE p % 2 = 1
            BY <1>3, <3>1 DEF Envia
        <3>2. CASE p % 2 = 0 /\ y > p
            BY <1>3, <3>2 DEF Envia
        <3>3. CASE p % 2 = 0 /\ ~ (y > p)
            <4>1. p # FIRST_PHASE
                BY <1>4, <1>7, <3>3
            <4>2. Depois(p) = 2
                BY <1>1, <3>3, <4>1 DEF Depois, REMAINING_PHASE
            <4>. QED
                BY <3>3, <4>2 DEF Envia
        <3>. QED
            BY <1>1, <3>1, <3>2, <3>3
    <2>. QED
        BY <1>2, <1>5, <1>6, <1>7, <2>1, <2>2
<1>8. CASE y = p
    <2>1. Etapa(p) <= Recebe(p, x) <=> Depois(p) <= Recebe(p, x)
        BY <1>1, <1>3 DEF Recebe
    <2>. QED
        BY <1>2, <1>4, <1>5, <1>6, <1>8, <2>1
<1>9. CASE x # p /\ y # p
    BY <1>2, <1>5, <1>6, <1>9
<1>. QED
    BY <1>7, <1>8, <1>9

LEMMA EnviandoViaja ==
    ASSUME Pontos, Causa, NEW p \in Processo, NEW q, UmPasso(p), Enviando(p, q),
           NEW x \in Processo, NEW y \in Processo, Vizinhos(x, y)
    PROVE  /\ x = p /\ y = q => Viaja(x, y)' /\ ~ Viaja(x, y)
           /\ x # p \/ y # q => (Viaja(x, y)' <=> Viaja(x, y))
<1>1. /\ Etapa(p) = Envia(p, q) /\ p % 2 \in {0, 1} /\ q \in Processo /\ Vizinhos(p, q)
    BY Numeros DEF Enviando
<1>2. /\ Etapa(p)' = Depois(p) /\ \A z \in Processo : z # p => Etapa(z)' = Etapa(z)
    BY UmPassoEtapas
<1>3. Etapa(p) \in {2, 3, 6, 7} /\ Depois(p) = Etapa(p) + 1
    BY <1>1, Proximos DEF Envia
<1>4. x # y /\ p # q
    BY <1>1, Lados
<1>5. Viaja(x, y)' <=> Etapa(x)' > Envia(x, y) /\ Etapa(y)' <= Recebe(y, x)
    BY DEF Viaja, Vizinhos, Envia, Recebe
<1>6. Viaja(x, y) <=> Etapa(x) > Envia(x, y) /\ Etapa(y) <= Recebe(y, x)
    BY DEF Viaja
<1>7. CASE x = p /\ y = q
    <2>1. ~ (Etapa(q) > Recebe(q, p))
        <3>1. ~ (Etapa(p) > Envia(p, q)) /\ Vizinhos(q, p)
            BY <1>1, <1>3, Lados
        <3>. QED
            BY <1>1, <3>1 DEF Causa
    <2>2. Etapa(q) <= Recebe(q, p)
        BY <1>1, <2>1, Proximos DEF Recebe
    <2>3. Depois(p) > Envia(p, q) /\ ~ (Etapa(p) > Envia(p, q))
        BY <1>1, <1>3
    <2>. QED
        BY <1>1, <1>2, <1>4, <1>5, <1>6, <1>7, <2>2, <2>3
<1>8. CASE x = p /\ y # q
    <2>1. y > p <=> ~ (q > p)
        BY <1>1, <1>8, Lados
    <2>2. Etapa(p) > Envia(p, y) <=> Depois(p) > Envia(p, y)
        BY <1>1, <1>3, <2>1 DEF Envia
    <2>. QED
        BY <1>2, <1>4, <1>5, <1>6, <1>8, <2>2
<1>9. CASE y = p
    <2>1. Etapa(p) <= Recebe(p, x) <=> Depois(p) <= Recebe(p, x)
        BY <1>1, <1>3 DEF Envia, Recebe
    <2>. QED
        BY <1>1, <1>2, <1>4, <1>5, <1>6, <1>9, <2>1
<1>10. CASE x # p /\ y # p
    BY <1>2, <1>5, <1>6, <1>10
<1>. QED
    BY <1>7, <1>8, <1>9, <1>10

LEMMA RecebendoViaja ==
    ASSUME Pontos, MesmoTrecho, NEW p \in Processo, NEW q, UmPasso(p), Recebendo(p, q),
           NEW x \in Processo, NEW y \in Processo, Vizinhos(x, y)
    PROVE  /\ x = q /\ y = p => ~ Viaja(x, y)'
           /\ x # q \/ y # p => (Viaja(x, y)' <=> Viaja(x, y)) /\ (Viaja(x, y) => x # p)
<1>1. /\ Etapa(p) = Recebe(p, q) /\ p % 2 \in {0, 1} /\ q \in Processo /\ Vizinhos(p, q)
    BY Numeros DEF Recebendo
<1>2. /\ Etapa(p)' = Depois(p) /\ \A z \in Processo : z # p => Etapa(z)' = Etapa(z)
    BY UmPassoEtapas
<1>3. Etapa(p) \in {1, 2, 6, 7} /\ Depois(p) = Etapa(p) + 1
    BY <1>1, Proximos DEF Recebe
<1>4. x # y /\ p # q
    BY <1>1, Lados
<1>5. Viaja(x, y)' <=> Etapa(x)' > Envia(x, y) /\ Etapa(y)' <= Recebe(y, x)
    BY DEF Viaja, Vizinhos, Envia, Recebe
<1>6. Viaja(x, y) <=> Etapa(x) > Envia(x, y) /\ Etapa(y) <= Recebe(y, x)
    BY DEF Viaja
<1>7. CASE x = q /\ y = p
    <2>1. Depois(p) > Recebe(p, q) /\ ~ (Depois(p) <= Recebe(p, q))
        BY <1>1, <1>3
    <2>. QED
        BY <1>2, <1>5, <1>7, <2>1
<1>8. CASE x # q /\ y = p
    <2>1. x > p <=> ~ (q > p)
        BY <1>1, <1>8, Lados
    <2>2. Etapa(p) <= Recebe(p, x) <=> Depois(p) <= Recebe(p, x)
        BY <1>1, <1>3, <2>1 DEF Recebe
    <2>. QED
        BY <1>2, <1>4, <1>5, <1>6, <1>8, <2>2
<1>9. CASE x = p
    <2>1. ~ Viaja(x, y) /\ ~ Viaja(x, y)'
        <3>1. CASE p % 2 = 1
            <4>1. ~ (Etapa(p) > Envia(p, y)) /\ ~ (Depois(p) > Envia(p, y))
                BY <1>1, <1>3, <3>1 DEF Envia, Recebe
            <4>. QED
                BY <1>2, <1>5, <1>6, <1>9, <4>1
        <3>2. CASE p % 2 = 0
            <4>1. Etapa(p) >= 6 /\ y % 2 = 1
                BY <1>1, <1>9, <3>2, Lados DEF Recebe
            <4>2. Etapa(y) >= 6
                BY <4>1, TrechoEtapas
            <4>3. ~ (Etapa(y) <= Recebe(y, p))
                BY <4>1, <4>2, Proximos DEF Recebe
            <4>. QED
                BY <1>2, <1>4, <1>5, <1>6, <1>9, <4>3
        <3>. QED
            BY <1>1, <3>1, <3>2
    <2>. QED
        BY <1>4, <1>9, <2>1
<1>10. CASE x # p /\ y # p
    BY <1>2, <1>5, <1>6, <1>10
<1>. QED
    BY <1>7, <1>8, <1>9, <1>10

LEMMA UmPassoCorreio ==
    ASSUME Tipos, Pontos, Cheios, MesmoTrecho, Correio, Causa, NEW p \in Processo, UmPasso(p)
    PROVE  Correio'
<1>. SUFFICES ASSUME NEW x \in Processo, NEW y \in Processo
              PROVE  canal'[x][y] = IF Viaja(x, y)' THEN <<Borda(x, y)'>> ELSE <<>>
    BY DEF Correio, Viaja, Vizinhos
<1>1. canal[x][y] = IF Viaja(x, y) THEN <<Borda(x, y)>> ELSE <<>>
    BY DEF Correio
<1>2. Constante
    BY DEF UmPasso, Igual
<1>3. Viaja(x, y)' => Vizinhos(x, y)
    BY DEF Viaja, Vizinhos
<1>4. CASE Ordenando(p)
    <2>1. canal' = canal
        BY <1>4 DEF Ordenando
    <2>2. CASE ~ Vizinhos(x, y)
        BY <1>1, <1>3, <2>1, <2>2 DEF Viaja
    <2>3. CASE Vizinhos(x, y)
        <3>1. (Viaja(x, y)' <=> Viaja(x, y)) /\ (Viaja(x, y) => x # p)
            BY <1>4, <2>3, OrdenandoViaja
        <3>2. x # p => Borda(x, y)' = Borda(x, y)
            BY <1>2, <1>4, Ordenada, BordaParada
        <3>. QED
            BY <1>1, <2>1, <3>1, <3>2
    <2>. QED
        BY <2>2, <2>3
<1>5. ASSUME NEW q, Enviando(p, q)
      PROVE  canal'[x][y] = IF Viaja(x, y)' THEN <<Borda(x, y)'>> ELSE <<>>
    <2>1. /\ q \in Processo /\ Vizinhos(p, q) /\ canal'[p][q] = Append(canal[p][q], Borda(p, q))
          /\ x # p \/ y # q => canal'[x][y] = canal[x][y]
          /\ buffer' = buffer
        BY <1>5, Enviada
    <2>2. Borda(x, y)' = Borda(x, y)
        BY <1>2, <2>1, BordaParada
    <2>3. CASE ~ Vizinhos(x, y)
        BY <1>1, <1>3, <2>1, <2>3 DEF Viaja
    <2>4. CASE Vizinhos(x, y) /\ x = p /\ y = q
        <3>1. Viaja(x, y)' /\ ~ Viaja(x, y)
            BY <1>5, <2>4, EnviandoViaja
        <3>2. canal[p][q] = <<>>
            BY <1>1, <2>4, <3>1
        <3>3. canal'[p][q] = <<Borda(p, q)>>
            BY <2>1, <3>2
        <3>. QED
            BY <2>2, <2>4, <3>1, <3>3
    <2>5. CASE Vizinhos(x, y) /\ (x # p \/ y # q)
        BY <1>1, <1>5, <2>1, <2>2, <2>5, EnviandoViaja
    <2>. QED
        BY <2>3, <2>4, <2>5
<1>6. ASSUME NEW q, Recebendo(p, q)
      PROVE  canal'[x][y] = IF Viaja(x, y)' THEN <<Borda(x, y)'>> ELSE <<>>
    <2>1. /\ q \in Processo /\ Vizinhos(p, q) /\ Vizinhos(q, p) /\ canal'[q][p] = <<>>
          /\ x # q \/ y # p => canal'[x][y] = canal[x][y]
          /\ x # p => buffer'[x] = buffer[x]
        BY <1>2, <1>6, Recebida, Lados
    <2>2. x # p => Borda(x, y)' = Borda(x, y)
        BY <1>2, <2>1, BordaParada
    <2>3. CASE ~ Vizinhos(x, y)
        BY <1>1, <1>3, <2>1, <2>3 DEF Viaja
    <2>4. CASE Vizinhos(x, y) /\ x = q /\ y = p
        BY <1>6, <2>1, <2>4, RecebendoViaja
    <2>5. CASE Vizinhos(x, y) /\ (x # q \/ y # p)
        BY <1>1, <1>6, <2>1, <2>2, <2>5, RecebendoViaja
    <2>. QED
        BY <2>3, <2>4, <2>5
<1>. QED
    BY <1>4, <1>5, <1>6 DEF UmPasso

LEMMA UmPassoOrdenados ==
    ASSUME Tipos, Pontos, Cheios, Correio, Ordenados, NEW p \in Processo, UmPasso(p)
    PROVE  Ordenados'
<1>. SUFFICES ASSUME NEW x \in Processo, sorted'[x], Ordenou(x)' PROVE Cresce(buffer'[x])
    BY DEF Ordenados, Cresce
<1>1. Constante /\ \A z \in Processo : z # p => Etapa(z)' = Etapa(z)
    BY UmPassoEtapas DEF UmPasso, Igual
<1>2. Ordenou(x)' <=> /\ Etapa(x)' <= 5 /\ (x % 2 = 0 => Etapa(x)' >= 2)
                      /\ (x % 2 = 1 => Etapa(x)' = 5)
    BY DEF Ordenou
<1>3. /\ Etapa(p)' = Depois(p) /\ Etapa(p) \in {1, 2, 3, 4, 6, 7} /\ p % 2 \in {0, 1}
    BY UmPassoEtapas, Proximos
<1>4. CASE Ordenando(p)
    <2>1. CASE x = p
        <3>1. Cresce(buffer[p]) /\ buffer'[p] = buffer[p]
            BY <1>4, <2>1, Ordenada
        <3>. QED
            BY <2>1, <3>1
    <2>2. CASE x # p
        BY <1>1, <1>2, <1>4, <2>2, Ordenada DEF Ordenados, Ordenou
    <2>. QED
        BY <2>1, <2>2
<1>5. ASSUME NEW q, Enviando(p, q) PROVE Cresce(buffer'[x])
    <2>1. buffer' = buffer /\ sorted' = sorted
        BY <1>5 DEF Enviando
    <2>2. CASE x = p
        <3>1. Etapa(p) = Envia(p, q)
            BY <1>5 DEF Enviando
        <3>2. Ordenou(p)
            BY <1>2, <1>3, <2>2, <3>1, Proximos DEF Envia, Ordenou
        <3>. QED
            BY <2>1, <2>2, <3>2 DEF Ordenados
    <2>3. CASE x # p
        BY <1>1, <1>2, <2>1, <2>3 DEF Ordenados, Ordenou
    <2>. QED
        BY <2>2, <2>3
<1>6. ASSUME NEW q, Recebendo(p, q) PROVE Cresce(buffer'[x])
    <2>1. sorted' = sorted /\ Etapa(p) = Recebe(p, q)
        BY <1>6 DEF Recebendo
    <2>2. x # p
        <3>. SUFFICES ASSUME x = p PROVE FALSE
            OBVIOUS
        <3>. QED
            BY <1>2, <1>3, <2>1, Proximos DEF Recebe
    <2>3. buffer'[x] = buffer[x]
        BY <1>1, <1>6, <2>2, Recebida
    <2>. QED
        BY <1>1, <1>2, <2>1, <2>2, <2>3 DEF Ordenados, Ordenou
<1>. QED
    BY <1>4, <1>5, <1>6 DEF UmPasso

\* After a receive both have the same border.
LEMMA BordaRecebida ==
    ASSUME Tipos, Pontos, Cheios, Correio, Constante, NEW p \in Processo, NEW q, Recebendo(p, q)
    PROVE  /\ Borda(p, q)' = Borda(q, p) /\ Borda(q, p)' = Borda(q, p)
           /\ \A y \in Processo : Vizinhos(p, y) /\ y # q => Borda(p, y)' = Borda(p, y)
<1>1. /\ q \in Processo /\ Vizinhos(p, q) /\ Vizinhos(q, p) /\ p # q
      /\ buffer' \in [Processo -> Seq(Int)] /\ Len(buffer'[p]) = Len(buffer[p])
      /\ buffer'[q] = buffer[q]
      /\ \A k \in 1 .. Len(buffer[p]) :
            buffer'[p][k] = IF k - Lugar(p, q) \in 1 .. c
                            THEN Borda(q, p)[k - Lugar(p, q)] ELSE buffer[p][k]
    BY Recebida, Lados
<1>2. /\ Medidas
      /\ \A x \in Processo : buffer[x] \in Seq(Int) /\ Len(buffer[x]) = Largura(x)
    BY DEF Tipos, Cheios
<1>3. Borda(q, p)' = Borda(q, p)
    BY <1>1, BordaParada
<1>4. /\ c \in Nat /\ task_size \in Nat /\ c <= task_size /\ c >= 1
    BY <1>2, Tamanhos
<1>. DEFINE b == buffer'[p]
<1>5. b \in Seq(Int) /\ Len(b) = Largura(p) /\ Len(b) = Len(buffer[p])
    BY <1>1, <1>2
<1>. HIDE DEF b
<1>6. \A k \in 1 .. Len(b) :
         b[k] = IF k - Lugar(p, q) \in 1 .. c THEN Borda(q, p)[k - Lugar(p, q)] ELSE buffer[p][k]
    BY <1>1, <1>5 DEF b
<1>7. Borda(p, q)' = Borda(q, p)
    <2>1. Borda(p, q)' = BordaDe(b, p, q)
        BY BordaDepois DEF b
    <2>2. /\ BordaDe(b, p, q) \in Seq(Int) /\ Len(BordaDe(b, p, q)) = c
          /\ \A j \in 1 .. c : /\ BordaDe(b, p, q)[j] = b[Lugar(p, q) + j]
                               /\ Lugar(p, q) + j \in DOMAIN b
          /\ Lugar(p, q) \in Nat
        BY <1>1, <1>2, <1>5, BordasDe
    <2>3. Borda(q, p) \in Seq(Int) /\ Len(Borda(q, p)) = c
        BY <1>1, <1>2, Bordas
    <2>4. ASSUME NEW j \in 1 .. c PROVE BordaDe(b, p, q)[j] = Borda(q, p)[j]
        <3>1. Lugar(p, q) + j \in 1 .. Len(b) /\ (Lugar(p, q) + j) - Lugar(p, q) = j
            BY <1>4, <1>5, <2>2
        <3>. QED
            BY <1>6, <2>2, <3>1
    <2>5. BordaDe(b, p, q) = Borda(q, p)
        BY <2>2, <2>3, <2>4, Mesmas
    <2>. QED
        BY <2>1, <2>5
<1>8. ASSUME NEW y \in Processo, Vizinhos(p, y), y # q PROVE Borda(p, y)' = Borda(p, y)
    <2>1. Borda(p, y)' = BordaDe(b, p, y)
        BY BordaDepois DEF b
    <2>2. /\ BordaDe(b, p, y) \in Seq(Int) /\ Len(BordaDe(b, p, y)) = c
          /\ \A j \in 1 .. c : /\ BordaDe(b, p, y)[j] = b[Lugar(p, y) + j]
                               /\ Lugar(p, y) + j \in DOMAIN b
        BY <1>2, <1>5, <1>8, BordasDe
    <2>3. /\ Borda(p, y) \in Seq(Int) /\ Len(Borda(p, y)) = c
          /\ \A j \in 1 .. c : Borda(p, y)[j] = buffer[p][Lugar(p, y) + j]
        BY <1>2, <1>8, Bordas
    <2>4. y > p <=> ~ (q > p)
        BY <1>1, <1>8, Lados
    <2>5. ASSUME NEW j \in 1 .. c PROVE BordaDe(b, p, y)[j] = Borda(p, y)[j]
        <3>1. Lugar(p, y) + j \in 1 .. Len(b)
            BY <1>5, <2>2
        <3>2. ~ ((Lugar(p, y) + j) - Lugar(p, q) \in 1 .. c)
            BY <1>4, <2>4 DEF Lugar
        <3>3. b[Lugar(p, y) + j] = buffer[p][Lugar(p, y) + j]
            BY <1>6, <3>1, <3>2
        <3>. QED
            BY <2>2, <2>3, <3>3
    <2>6. BordaDe(b, p, y) = Borda(p, y)
        BY <2>2, <2>3, <2>5, Mesmas
    <2>. QED
        BY <2>1, <2>6
<1>. QED
    BY <1>3, <1>7, <1>8

LEMMA UmPassoConcordam ==
    ASSUME Tipos, Pontos, Cheios, MesmoTrecho, Correio, Causa, Concordam,
           NEW p \in Processo, UmPasso(p)
    PROVE  Concordam'
<1>. SUFFICES ASSUME NEW e \in Processo, NEW o \in Processo, e % 2 = 0, o % 2 = 1,
                     Vizinhos(e, o), Devem(e, o)'
              PROVE  Borda(e, o)' = Borda(o, e)'
    BY DEF Concordam, Vizinhos
<1>1. Constante /\ Etapa(p)' = Depois(p) /\ \A z \in Processo : z # p => Etapa(z)' = Etapa(z)
    BY UmPassoEtapas DEF UmPasso, Igual
<1>2. \/ Etapa(e)' = 1
      \/ Recebe(o, e) < Etapa(o)' /\ Etapa(o)' <= 4
      \/ Etapa(o)' = 5 /\ sorted'[o]
      \/ Etapa(e)' > Recebe(e, o)
    BY DEF Devem, Recebe
<1>3. e # o /\ Vizinhos(o, e) /\ (o > e <=> ~ (e > o)) /\ (e = FIRST_PHASE => o > e)
    BY Lados
<1>4. Etapa(e) \in 1 .. 8 /\ Etapa(o) \in 1 .. 8
    BY Proximos
<1>5. Recebe(e, o) \in {6, 7} /\ Recebe(o, e) \in {1, 2} /\ Envia(e, o) \in {2, 3}
    BY DEF Recebe, Envia
<1>6. Devem(e, o) => Borda(e, o) = Borda(o, e)
    BY DEF Concordam
<1>7. CASE Ordenando(p)
    <2>1. Etapa(p) = (IF p % 2 = 0 THEN 1 ELSE 4)
        BY <1>7 DEF Ordenando
    <2>2. CASE p = e
        <3>1. Etapa(e) = 1 /\ Etapa(e)' \in {2, 3}
            BY <1>1, <2>1, <2>2, Proximos
        <3>2. Etapa(o) <= 3
            BY <1>4, <3>1, TrechoEtapas
        <3>3. Etapa(o) > Recebe(o, e)
            BY <1>1, <1>2, <1>3, <1>4, <1>5, <2>2, <3>1, <3>2
        <3>4. Etapa(e) > Envia(e, o)
            BY <1>3, <3>3 DEF Causa
        <3>. QED
            BY <1>5, <3>1, <3>4
    <2>3. CASE p = o
        <3>1. Etapa(o) = 4 /\ Etapa(o)' = 5
            BY <1>1, <2>1, <2>3, Proximos DEF Depois
        <3>2. Etapa(e) > 4 /\ Etapa(e) <= 5 /\ Etapa(e)' = Etapa(e)
            <4>1. ~ (Etapa(e) <= 4) /\ ~ (Etapa(e) >= 6)
                BY <3>1, TrechoEtapas
            <4>. QED
                BY <1>1, <1>3, <1>4, <2>3, <4>1
        <3>3. sorted'[o]
            BY <1>2, <1>4, <1>5, <3>1, <3>2
        <3>4. /\ buffer'[o] = buffer[o] /\ buffer'[e] = buffer[e]
            BY <1>3, <1>7, <2>3, <3>3, Ordenada
        <3>5. Borda(e, o)' = Borda(e, o) /\ Borda(o, e)' = Borda(o, e)
            BY <1>1, <3>4, BordaParada
        <3>6. Devem(e, o)
            BY <1>5, <3>1 DEF Devem
        <3>. QED
            BY <1>6, <3>5, <3>6
    <2>4. CASE p # e /\ p # o
        <3>1. buffer'[o] = buffer[o] /\ buffer'[e] = buffer[e] /\ sorted'[o] = sorted[o]
            BY <1>7, <2>4, Ordenada
        <3>2. Borda(e, o)' = Borda(e, o) /\ Borda(o, e)' = Borda(o, e)
            BY <1>1, <3>1, BordaParada
        <3>3. Devem(e, o)
            BY <1>1, <1>2, <2>4, <3>1 DEF Devem
        <3>. QED
            BY <1>6, <3>2, <3>3
    <2>. QED
        BY <2>2, <2>3, <2>4
<1>8. ASSUME NEW q, Enviando(p, q) PROVE Borda(e, o)' = Borda(o, e)'
    <2>1. /\ Etapa(p) = Envia(p, q) /\ buffer' = buffer /\ sorted' = sorted
        BY <1>8 DEF Enviando
    <2>2. Borda(e, o)' = Borda(e, o) /\ Borda(o, e)' = Borda(o, e)
        BY <1>1, <2>1, BordaParada
    <2>3. CASE p = e
        <3>1. Etapa(e) \in {2, 3} /\ Etapa(e)' = Etapa(e) + 1 /\ Etapa(o)' = Etapa(o)
            BY <1>1, <1>3, <2>1, <2>3, Proximos DEF Envia
        <3>2. Devem(e, o)
            BY <1>2, <1>5, <2>1, <3>1 DEF Devem
        <3>. QED
            BY <1>6, <2>2, <3>2
    <2>4. CASE p = o
        <3>1. Etapa(o) \in {6, 7} /\ Etapa(o)' = Etapa(o) + 1 /\ Etapa(e)' = Etapa(e)
            BY <1>1, <1>3, <2>1, <2>4, Proximos DEF Envia
        <3>2. Devem(e, o)
            BY <1>2, <1>5, <2>1, <3>1 DEF Devem
        <3>. QED
            BY <1>6, <2>2, <3>2
    <2>5. CASE p # e /\ p # o
        <3>1. Devem(e, o)
            BY <1>1, <1>2, <2>1, <2>5 DEF Devem
        <3>. QED
            BY <1>6, <2>2, <3>1
    <2>. QED
        BY <2>3, <2>4, <2>5
<1>9. ASSUME NEW q, Recebendo(p, q) PROVE Borda(e, o)' = Borda(o, e)'
    <2>1. /\ Etapa(p) = Recebe(p, q) /\ sorted' = sorted /\ q \in Processo /\ Vizinhos(p, q)
        BY <1>9 DEF Recebendo
    <2>2. /\ Borda(p, q)' = Borda(q, p) /\ Borda(q, p)' = Borda(q, p)
          /\ \A y \in Processo : Vizinhos(p, y) /\ y # q => Borda(p, y)' = Borda(p, y)
          /\ \A y \in Processo : y # p => \A z \in Processo : Borda(y, z)' = Borda(y, z)
        <3>1. \A y \in Processo : y # p => buffer'[y] = buffer[y]
            BY <1>1, <1>9, Recebida
        <3>2. \A y \in Processo : y # p => \A z \in Processo : Borda(y, z)' = Borda(y, z)
            BY <1>1, <3>1, BordaParada
        <3>. QED
            BY <1>1, <1>9, <3>2, BordaRecebida
    <2>3. CASE {p, q} = {e, o}
        <3>1. (p = e /\ q = o) \/ (p = o /\ q = e)
            BY <1>3, <2>3
        <3>. QED
            BY <2>2, <3>1
    <2>4. CASE p = e /\ q # o
        <3>1. Borda(e, o)' = Borda(e, o) /\ Borda(o, e)' = Borda(o, e)
            BY <1>3, <2>2, <2>4
        <3>2. o > e <=> ~ (q > e)
            BY <2>1, <2>4, Lados
        <3>3. Etapa(e) = Recebe(e, q) /\ Etapa(e)' = Etapa(e) + 1 /\ Etapa(o)' = Etapa(o)
            BY <1>1, <1>3, <2>1, <2>4, Proximos DEF Recebe
        <3>4. Devem(e, o)
            BY <1>2, <1>5, <2>1, <3>2, <3>3 DEF Devem, Recebe
        <3>. QED
            BY <1>6, <3>1, <3>4
    <2>5. CASE p = o /\ q # e
        <3>1. Borda(e, o)' = Borda(e, o) /\ Borda(o, e)' = Borda(o, e)
            BY <1>3, <2>2, <2>5
        <3>2. e > o <=> ~ (q > o)
            BY <1>3, <2>1, <2>5, Lados
        <3>3. Etapa(o) = Recebe(o, q) /\ Etapa(o)' = Etapa(o) + 1 /\ Etapa(e)' = Etapa(e)
            BY <1>1, <1>3, <2>1, <2>5, Proximos DEF Recebe
        <3>4. Devem(e, o)
            BY <1>2, <1>5, <2>1, <3>2, <3>3 DEF Devem, Recebe
        <3>. QED
            BY <1>6, <3>1, <3>4
    <2>6. CASE p # e /\ p # o
        <3>1. Borda(e, o)' = Borda(e, o) /\ Borda(o, e)' = Borda(o, e)
            BY <2>2, <2>6
        <3>2. Devem(e, o)
            BY <1>1, <1>2, <2>1, <2>6 DEF Devem
        <3>. QED
            BY <1>6, <3>1, <3>2
    <2>. QED
        BY <2>3, <2>4, <2>5, <2>6
<1>. QED
    BY <1>7, <1>8, <1>9 DEF UmPasso

\* A border of which both have the same copy, value by value.
LEMMA Comuns ==
    ASSUME Tipos, Cheios, NEW p \in Processo, p # REMAINING_PHASE
    PROVE  /\ Vizinhos(p, p + 1) /\ Vizinhos(p + 1, p) /\ p + 1 \in Processo
           /\ Borda(p, p + 1) = Borda(p + 1, p) =>
                 \A j \in 1 .. c : buffer[p][task_size + j] = buffer[p + 1][j]
           /\ (\A j \in 1 .. c : buffer[p][task_size + j] = buffer[p + 1][j]) =>
                 Borda(p, p + 1) = Borda(p + 1, p)
<1>. DEFINE q == p + 1
<1>1. /\ q \in Processo /\ p \in Int /\ q > p /\ ~ (p > q) /\ Vizinhos(p, q) /\ Vizinhos(q, p)
    BY Numeros DEF Vizinhos
<1>2. /\ Medidas
      /\ \A x \in Processo : buffer[x] \in Seq(Int) /\ Len(buffer[x]) = Largura(x)
    BY DEF Tipos, Cheios
<1>. HIDE DEF q
<1>3. Lugar(p, q) = task_size /\ Lugar(q, p) = 0
    BY <1>1 DEF Lugar
<1>4. /\ Borda(p, q) \in Seq(Int) /\ Borda(q, p) \in Seq(Int)
      /\ Len(Borda(p, q)) = c /\ Len(Borda(q, p)) = c
      /\ \A j \in 1 .. c : Borda(p, q)[j] = buffer[p][task_size + j] /\ Borda(q, p)[j] = buffer[q][0 + j]
    BY <1>1, <1>2, <1>3, Bordas
<1>5. \A j \in 1 .. c : 0 + j = j
    OBVIOUS
<1>6. ASSUME \A j \in 1 .. c : buffer[p][task_size + j] = buffer[q][j]
      PROVE  Borda(p, q) = Borda(q, p)
    <2>1. \A j \in 1 .. Len(Borda(p, q)) : Borda(p, q)[j] = Borda(q, p)[j]
        BY <1>4, <1>5, <1>6
    <2>. QED
        BY <1>4, <2>1, Mesmas
<1>7. ASSUME Borda(p, q) = Borda(q, p), NEW j \in 1 .. c
      PROVE  buffer[p][task_size + j] = buffer[q][j]
    BY <1>4, <1>5, <1>7
<1>8. /\ Borda(p, q) = Borda(q, p) =>
                 \A j \in 1 .. c : buffer[p][task_size + j] = buffer[q][j]
      /\ (\A j \in 1 .. c : buffer[p][task_size + j] = buffer[q][j]) => Borda(p, q) = Borda(q, p)
    BY <1>6, <1>7
<1>. QED
    BY <1>1, <1>8 DEF q

LEMMA Impares ==
    ASSUME NEW q \in Processo
    PROVE  /\ q % 2 = 1 => Impar(q) = q
           /\ q % 2 = 0 => Impar(q) = q - 1
           /\ q > 0 => Impar(q) \in Processo /\ Impar(q) % 2 = 1 /\ q # FIRST_PHASE
                       /\ q - 1 \in Processo /\ q - 1 # REMAINING_PHASE
           /\ q \in Nat
BY Numeros DEF Impar

LEMMA ValoresMantidos ==
    ASSUME Valores, Constante, Permuta(Casas, Valem, Valem')
    PROVE  Valores'
<1>1. Permuta(Casas, Dadas, Valem')
    BY PermutaCadeia DEF Valores
<1>2. Casas' = Casas /\ Dadas' = Dadas
    BY Constantes
<1>. QED
    BY <1>1, <1>2 DEF Valores, Permuta

LEMMA ValoresIguais ==
    ASSUME Valores, Constante,
           \A q \in Processo : \A j \in 1 .. task_size : Vale(q, j)' = Vale(q, j)
    PROVE  Valores'
<1>1. Casas' = Casas
    BY Constantes
<1>2. \A x \in Casas : x[1] \in Processo /\ x[2] \in 1 .. task_size
    BY DEF Casas
<1>3. \A x \in Casas : Valem[x] = Vale(x[1], x[2])
    BY DEF Valem
<1>4. \A x \in Casas : Valem'[x] = Vale(x[1], x[2])'
    BY <1>1 DEF Valem
<1>5. \A x \in Casas : Valem'[x] = Valem[x]
    BY <1>2, <1>3, <1>4
<1>6. Permuta(Casas, Valem, Valem')
    BY <1>5, PermutaIgual
<1>. QED
    BY <1>6, ValoresMantidos

\* Whose value counts changes when an odd rank sorts, and at the second barrier.
LEMMA LadoMantido ==
    ASSUME Constante, NEW q \in Processo, NEW j,
           q > 0 => (Etapa(Impar(q))' <= 4 <=> Etapa(Impar(q)) <= 4)
    PROVE  DoVizinho(q, j)' <=> DoVizinho(q, j)
<1>1. c' = c
    BY Constantes
<1>2. DoVizinho(q, j)' <=> q > 0 /\ j <= c' /\ (q % 2 = 1 <=> Etapa(Impar(q))' <= 4)
    BY DEF DoVizinho, Impar
<1>. QED
    BY <1>1, <1>2 DEF DoVizinho

LEMMA ValeDepois ==
    ASSUME Constante, NEW q, NEW j
    PROVE  Vale(q, j)' = IF DoVizinho(q, j)' THEN buffer'[q - 1][task_size + j] ELSE buffer'[q][j]
BY Constantes DEF Vale

LEMMA ParadosValores ==
    ASSUME Pontos, Valores, Constante, buffer' = buffer,
           \A q \in Processo : q % 2 = 1 => (Etapa(q)' <= 4 <=> Etapa(q) <= 4)
    PROVE  Valores'
<1>1. ASSUME NEW q \in Processo, NEW j \in 1 .. task_size PROVE Vale(q, j)' = Vale(q, j)
    <2>1. q > 0 => Impar(q) \in Processo /\ Impar(q) % 2 = 1
        BY Impares
    <2>2. DoVizinho(q, j)' <=> DoVizinho(q, j)
        BY <2>1, LadoMantido
    <2>. QED
        BY <2>2, ValeDepois DEF Vale
<1>. QED
    BY <1>1, ValoresIguais

LEMMA RecebendoValores ==
    ASSUME Tipos, Pontos, Cheios, MesmoTrecho, Correio, Valores, NEW p \in Processo, UmPasso(p),
           NEW q, Recebendo(p, q)
    PROVE  Valores'
<1>1. /\ q \in Processo /\ Vizinhos(p, q) /\ p # q /\ Etapa(p) = Recebe(p, q)
      /\ Constante
      /\ \A x \in Processo : x # p => buffer'[x] = buffer[x]
      /\ \A k \in 1 .. Len(buffer[p]) :
            ~ (k - Lugar(p, q) \in 1 .. c) => buffer'[p][k] = buffer[p][k]
    <2>1. Constante
        BY DEF UmPasso, Igual
    <2>2. Etapa(p) = Recebe(p, q)
        BY DEF Recebendo
    <2>. QED
        BY <2>1, <2>2, Recebida
<1>2. /\ c \in Nat /\ task_size \in Nat /\ c <= task_size
      /\ Len(buffer[p]) = Largura(p) /\ task_size <= Largura(p)
      /\ p # REMAINING_PHASE => Largura(p) = task_size + c
      /\ Largura(p) \in Nat
    BY Tamanhos DEF Tipos, Cheios
<1>3. p \in Nat /\ q \in Nat /\ p % 2 \in {0, 1}
    BY <1>1, Lados
<1>4. ~ (p % 2 = 1 /\ Ordenando(p))
    BY <1>1, <1>3 DEF Ordenando, Recebe
<1>5. ASSUME NEW r \in Processo, NEW j PROVE DoVizinho(r, j)' <=> DoVizinho(r, j)
    <2>1. \A x \in Processo : Etapa(x)' <= 4 <=> Etapa(x) <= 4
        BY <1>4, UmPassoEtapas
    <2>. QED
        BY <1>1, <2>1, Impares, LadoMantido
<1>6. ASSUME NEW r \in Processo, NEW j \in 1 .. task_size PROVE Vale(r, j)' = Vale(r, j)
    <2>1. Vale(r, j)' = IF DoVizinho(r, j) THEN buffer'[r - 1][task_size + j] ELSE buffer'[r][j]
        BY <1>1, <1>5, ValeDepois
    <2>2. CASE DoVizinho(r, j)
        <3>1. r > 0 /\ j <= c /\ r - 1 \in Processo /\ r \in Nat /\ (r % 2 = 1 <=> Etapa(Impar(r)) <= 4)
            BY <2>2, Impares DEF DoVizinho
        <3>2. CASE r - 1 # p
            BY <1>1, <2>1, <2>2, <3>1, <3>2 DEF Vale
        <3>3. CASE r - 1 = p
            <4>1. p # REMAINING_PHASE /\ r = p + 1
                BY <3>1, <3>3, Numeros
            <4>2. ~ (q > p)
                <5>. SUFFICES ASSUME q > p PROVE FALSE
                    OBVIOUS
                <5>1. q = r
                    BY <1>1, <4>1, Lados
                <5>2. CASE p % 2 = 0
                    <6>1. Etapa(p) = 7 /\ r % 2 = 1 /\ Impar(r) = r
                        BY <1>1, <5>1, <5>2, Lados, Impares DEF Recebe
                    <6>2. Etapa(r) >= 6
                        BY <6>1, TrechoEtapas
                    <6>. QED
                        BY <3>1, <6>1, <6>2, Proximos
                <5>3. CASE p % 2 = 1
                    <6>1. Etapa(p) = 1 /\ r % 2 = 0 /\ Impar(r) = p
                        BY <1>1, <1>3, <3>1, <3>3, <5>1, <5>3, Lados, Impares DEF Recebe
                    <6>. QED
                        BY <3>1, <6>1
                <5>. QED
                    BY <1>3, <5>2, <5>3
            <4>3. /\ task_size + j \in 1 .. Len(buffer[p])
                  /\ ~ ((task_size + j) - Lugar(p, q) \in 1 .. c)
                BY <1>2, <3>1, <4>1, <4>2 DEF Lugar
            <4>4. buffer'[p][task_size + j] = buffer[p][task_size + j]
                BY <1>1, <4>3
            <4>. QED
                BY <2>1, <2>2, <3>3, <4>4 DEF Vale
        <3>. QED
            BY <3>2, <3>3
    <2>3. CASE ~ DoVizinho(r, j)
        <3>1. CASE r # p
            BY <1>1, <2>1, <2>3, <3>1 DEF Vale
        <3>2. CASE r = p
            <4>1. j \in 1 .. Len(buffer[p])
                BY <1>2
            <4>2. ~ (j - Lugar(p, q) \in 1 .. c)
                <5>1. CASE q > p
                    BY <1>2, <5>1 DEF Lugar
                <5>2. CASE ~ (q > p)
                    <6>1. p > 0 /\ p = q + 1
                        BY <1>1, <1>3, <5>2, Lados
                    <6>2. (p % 2 = 1 <=> Etapa(Impar(p)) <= 4)
                        <7>1. CASE p % 2 = 1
                            BY <1>1, <5>2, <7>1, Impares DEF Recebe
                        <7>2. CASE p % 2 = 0
                            <8>1. Etapa(p) = 6 /\ Impar(p) = q /\ Impar(p) \in Processo
                                BY <1>1, <1>3, <5>2, <6>1, <7>2, Impares DEF Recebe
                            <8>2. Etapa(q) >= 6
                                BY <1>1, <8>1, TrechoEtapas
                            <8>. QED
                                BY <1>1, <7>2, <8>1, <8>2, Proximos
                        <7>. QED
                            BY <1>3, <7>1, <7>2
                    <6>3. ~ (j <= c)
                        BY <2>3, <3>2, <6>1, <6>2 DEF DoVizinho
                    <6>. QED
                        BY <1>2, <5>2, <6>3 DEF Lugar
                <5>. QED
                    BY <5>1, <5>2
            <4>3. buffer'[p][j] = buffer[p][j]
                BY <1>1, <4>1, <4>2
            <4>. QED
                BY <2>1, <2>3, <3>2, <4>3 DEF Vale
        <3>. QED
            BY <3>1, <3>2
    <2>. QED
        BY <2>2, <2>3
<1>. QED
    BY <1>1, <1>6, ValoresIguais

\* Before it sorts, the values of p are those that count; and after it has.
LEMMA OrdenandoVale ==
    ASSUME Tipos, Pontos, Cheios, MesmoTrecho, Concordam, NEW p \in Processo, UmPasso(p),
           Ordenando(p)
    PROVE  /\ \A j \in 1 .. task_size :
                 Vale(p, j) = buffer[p][j] /\ Vale(p, j)' = buffer'[p][j]
           /\ p # REMAINING_PHASE =>
                 \A j \in 1 .. c : /\ Vale(p + 1, j) = buffer[p][task_size + j]
                                   /\ Vale(p + 1, j)' = buffer'[p][task_size + j]
           /\ \A r \in Processo : \A j \in 1 .. task_size :
                 r # p /\ ~ (r = p + 1 /\ j <= c) => Vale(r, j)' = Vale(r, j)
<1>1. /\ Constante /\ Etapa(p) = (IF p % 2 = 0 THEN 1 ELSE 4) /\ Etapa(p)' = Depois(p)
      /\ \A x \in Processo : x # p => Etapa(x)' = Etapa(x)
    BY UmPassoEtapas DEF UmPasso, Igual, Ordenando
<1>2. \A x \in Processo : x # p => buffer'[x] = buffer[x]
    BY Ordenada
<1>3. p \in Nat /\ p % 2 \in {0, 1} /\ c \in Nat /\ task_size \in Nat /\ c <= task_size
    BY Numeros, Tamanhos DEF Tipos
<1>4. c' = c
    BY <1>1, Constantes
<1>5. \A r, j : DoVizinho(r, j)' <=> r > 0 /\ j <= c /\ (r % 2 = 1 <=> Etapa(Impar(r))' <= 4)
    BY <1>4 DEF DoVizinho, Impar
<1>6. \A r, j : /\ DoVizinho(r, j)' => Vale(r, j)' = buffer'[r - 1][task_size + j]
                /\ ~ DoVizinho(r, j)' => Vale(r, j)' = buffer'[r][j]
    BY <1>1, ValeDepois
<1>7. \A r, j : /\ DoVizinho(r, j) => Vale(r, j) = buffer[r - 1][task_size + j]
                /\ ~ DoVizinho(r, j) => Vale(r, j) = buffer[r][j]
    BY DEF Vale
<1>8. CASE p % 2 = 0
    <2>1. \A x \in Processo : x % 2 = 1 => Etapa(x) <= 4 /\ Etapa(x)' = Etapa(x)
        <3>. SUFFICES ASSUME NEW x \in Processo, x % 2 = 1
                      PROVE  Etapa(x) <= 4 /\ Etapa(x)' = Etapa(x)
            OBVIOUS
        <3>1. Etapa(x) <= 3 /\ Etapa(x) \in 1 .. 8
            BY <1>1, <1>8, TrechoEtapas
        <3>. QED
            BY <1>1, <1>8, <3>1
    <2>2. \A j : ~ DoVizinho(p, j) /\ ~ DoVizinho(p, j)'
        BY <1>5, <1>8, <2>1, Impares DEF DoVizinho
    <2>3. ASSUME p # REMAINING_PHASE, NEW j \in 1 .. c
          PROVE  DoVizinho(p + 1, j) /\ DoVizinho(p + 1, j)'
        <3>1. p + 1 \in Processo /\ (p + 1) % 2 = 1 /\ p + 1 > 0 /\ j <= c
            BY <1>3, <1>8, <2>3, Numeros
        <3>2. Impar(p + 1) = p + 1
            BY <3>1, Impares
        <3>. QED
            BY <1>5, <2>1, <3>1, <3>2 DEF DoVizinho
    <2>4. ASSUME NEW r \in Processo, NEW j \in 1 .. task_size, r # p, ~ (r = p + 1 /\ j <= c)
          PROVE  Vale(r, j)' = Vale(r, j)
        <3>1. DoVizinho(r, j)' <=> DoVizinho(r, j)
            BY <1>5, <2>1, Impares DEF DoVizinho
        <3>2. CASE DoVizinho(r, j)
            <4>1. r > 0 /\ j <= c /\ r - 1 \in Processo /\ r \in Nat
                BY <3>2, Impares DEF DoVizinho
            <4>2. r - 1 # p
                BY <1>3, <2>4, <4>1
            <4>. QED
                BY <1>2, <1>6, <1>7, <3>1, <3>2, <4>1, <4>2
        <3>3. CASE ~ DoVizinho(r, j)
            BY <1>2, <1>6, <1>7, <2>4, <3>1, <3>3
        <3>. QED
            BY <3>2, <3>3
    <2>5. ASSUME p # REMAINING_PHASE, NEW j \in 1 .. c
          PROVE  /\ Vale(p + 1, j) = buffer[p][task_size + j]
                 /\ Vale(p + 1, j)' = buffer'[p][task_size + j]
        <3>1. (p + 1) - 1 = p
            BY <1>3
        <3>. QED
            BY <1>6, <1>7, <2>3, <2>5, <3>1
    <2>. QED
        BY <1>6, <1>7, <2>2, <2>4, <2>5
<1>9. CASE p % 2 = 1
    <2>1. Etapa(p) = 4 /\ Etapa(p)' = 5 /\ Impar(p) = p /\ p > 0
        BY <1>1, <1>3, <1>9, Proximos, Impares
    <2>2. \A j : ~ DoVizinho(p, j)' /\ (DoVizinho(p, j) <=> j <= c)
        BY <1>5, <1>9, <2>1 DEF DoVizinho
    <2>3. ASSUME NEW j \in 1 .. task_size
          PROVE  Vale(p, j) = buffer[p][j] /\ Vale(p, j)' = buffer'[p][j]
        <3>1. Vale(p, j)' = buffer'[p][j]
            BY <1>6, <2>2
        <3>2. CASE j <= c
            <4>. DEFINE e == p - 1
            <4>1. /\ e \in Processo /\ e # REMAINING_PHASE /\ e % 2 = 0 /\ e + 1 = p /\ ~ (e > p)
                BY <1>3, <1>9, <2>1, Numeros
            <4>. HIDE DEF e
            <4>2. Vizinhos(e, p) /\ Recebe(p, e) = 2
                BY <1>9, <4>1 DEF Vizinhos, Recebe
            <4>3. Borda(e, p) = Borda(p, e)
                BY <1>9, <2>1, <4>1, <4>2 DEF Concordam, Devem
            <4>4. \A k \in 1 .. c : buffer[e][task_size + k] = buffer[p][k]
                BY <4>1, <4>3, Comuns
            <4>5. buffer[e][task_size + j] = buffer[p][j]
                BY <1>3, <3>2, <4>4
            <4>. QED
                BY <1>7, <2>2, <3>1, <3>2, <4>5 DEF e
        <3>3. CASE ~ (j <= c)
            BY <1>7, <2>2, <3>1, <3>3
        <3>. QED
            BY <3>2, <3>3
    <2>4. ASSUME p # REMAINING_PHASE, NEW j \in 1 .. c
          PROVE  /\ Vale(p + 1, j) = buffer[p][task_size + j]
                 /\ Vale(p + 1, j)' = buffer'[p][task_size + j]
        <3>. DEFINE e == p + 1
        <3>1. /\ e \in Processo /\ e % 2 = 0 /\ e > 0 /\ j <= c /\ e > p /\ e - 1 = p
            BY <1>3, <1>9, <2>4, Numeros
        <3>2. Impar(e) = p
            BY <3>1, Impares
        <3>. HIDE DEF e
        <3>3. ~ DoVizinho(e, j) /\ DoVizinho(e, j)'
            BY <1>5, <2>1, <3>1, <3>2 DEF DoVizinho
        <3>4. Vizinhos(e, p) /\ Recebe(p, e) = 1
            BY <1>9, <3>1 DEF Vizinhos, Recebe, e
        <3>5. Borda(e, p) = Borda(p, e)
            BY <1>9, <2>1, <3>1, <3>4 DEF Concordam, Devem
        <3>6. buffer[p][task_size + j] = buffer[e][j]
            BY <2>4, <3>5, Comuns DEF e
        <3>7. Vale(e, j) = buffer[e][j] /\ Vale(e, j)' = buffer'[p][task_size + j]
            BY <1>6, <1>7, <3>1, <3>3
        <3>. QED
            BY <3>6, <3>7 DEF e
    <2>5. ASSUME NEW r \in Processo, NEW j \in 1 .. task_size, r # p, ~ (r = p + 1 /\ j <= c)
          PROVE  Vale(r, j)' = Vale(r, j)
        <3>1. CASE r = p + 1
            <4>1. ~ DoVizinho(r, j) /\ ~ DoVizinho(r, j)'
                BY <1>5, <2>5, <3>1 DEF DoVizinho
            <4>. QED
                BY <1>2, <1>6, <1>7, <2>5, <4>1
        <3>2. CASE r # p + 1
            <4>1. r > 0 => Impar(r) \in Processo /\ Impar(r) # p /\ r - 1 \in Processo /\ r - 1 # p
                BY <1>3, <2>5, <3>2, Impares, Numeros DEF Impar
            <4>2. DoVizinho(r, j)' <=> DoVizinho(r, j)
                BY <1>1, <1>5, <4>1 DEF DoVizinho
            <4>3. DoVizinho(r, j) => r > 0
                BY DEF DoVizinho
            <4>. QED
                BY <1>2, <1>6, <1>7, <2>5, <4>1, <4>2, <4>3
        <3>. QED
            BY <3>1, <3>2
    <2>. QED
        BY <2>3, <2>4, <2>5
<1>. QED
    BY <1>3, <1>8, <1>9

LEMMA OrdenandoValores ==
    ASSUME Tipos, Pontos, Cheios, MesmoTrecho, Concordam, Valores, NEW p \in Processo,
           UmPasso(p), Ordenando(p)
    PROVE  Valores'
<1>. DEFINE I == DOMAIN buffer[p]
            m == [i \in I |-> IF i <= task_size THEN <<p, i>> ELSE <<p + 1, i - task_size>>]
<1>1. Constante
    BY DEF UmPasso, Igual
<1>2. /\ c \in Nat /\ task_size \in Nat /\ c <= task_size /\ p \in Nat
      /\ Largura(p) \in Nat /\ task_size <= Largura(p)
      /\ p # REMAINING_PHASE => Largura(p) = task_size + c /\ p + 1 \in Processo
      /\ p = REMAINING_PHASE => Largura(p) = task_size
    BY Tamanhos, Numeros DEF Tipos
<1>3. I = 1 .. Largura(p)
    BY DEF Tipos, Cheios
<1>4. Permuta(I, buffer[p], buffer'[p])
    BY Ordenada DEF Rearranja
<1>5. \A i \in I : i > task_size => p # REMAINING_PHASE /\ i - task_size \in 1 .. c
    BY <1>2, <1>3
<1>6. \A i \in I : /\ i <= task_size => m[i] = <<p, i>> /\ i \in 1 .. task_size
                   /\ ~ (i <= task_size) => m[i] = <<p + 1, i - task_size>> /\ i > task_size
    BY <1>2, <1>3
<1>7. m \in [I -> Casas]
    <2>1. \A i \in I : m[i] \in Casas
        <3>. SUFFICES ASSUME NEW i \in I PROVE m[i] \in Casas
            OBVIOUS
        <3>1. CASE i <= task_size
            <4>1. m[i] = <<p, i>> /\ i \in 1 .. task_size
                BY <1>6, <3>1
            <4>. HIDE DEF m
            <4>. QED
                BY <4>1 DEF Casas
        <3>2. CASE ~ (i <= task_size)
            <4>1. m[i] = <<p + 1, i - task_size>> /\ p + 1 \in Processo /\ i - task_size \in 1 .. task_size
                BY <1>2, <1>3, <1>5, <1>6, <3>2
            <4>. HIDE DEF m
            <4>. QED
                BY <4>1 DEF Casas
        <3>. QED
            BY <3>1, <3>2
    <2>2. m = [i \in I |-> m[i]]
        OBVIOUS
    <2>. QED
        BY <2>1, <2>2
<1>8. \A i, j \in I : m[i] = m[j] => i = j
    BY <1>2, <1>3, <1>6
<1>9. Casas' = Casas
    BY <1>1, Constantes
<1>10. \A q \in Processo : \A j \in 1 .. task_size :
          /\ <<q, j>> \in Casas /\ Valem[<<q, j>>] = Vale(q, j) /\ Valem'[<<q, j>>] = Vale(q, j)'
    <2>1. \A x \in Casas : Valem[x] = Vale(x[1], x[2])
        BY DEF Valem
    <2>2. \A x \in Casas : Valem'[x] = Vale(x[1], x[2])'
        BY <1>9 DEF Valem
    <2>. SUFFICES ASSUME NEW q \in Processo, NEW j \in 1 .. task_size
                  PROVE  /\ <<q, j>> \in Casas /\ Valem[<<q, j>>] = Vale(q, j)
                         /\ Valem'[<<q, j>>] = Vale(q, j)'
        OBVIOUS
    <2>3. <<q, j>> \in Casas /\ <<q, j>>[1] = q /\ <<q, j>>[2] = j
        BY DEF Casas
    <2>4. Valem[<<q, j>>] = Vale(q, j)
        BY <2>1, <2>3
    <2>5. Valem'[<<q, j>>] = Vale(q, j)'
        BY <2>2, <2>3
    <2>. QED
        BY <2>3, <2>4, <2>5
<1>. HIDE DEF I, m
<1>11. ASSUME NEW i \in I PROVE Valem[m[i]] = buffer[p][i] /\ Valem'[m[i]] = buffer'[p][i]
    <2>1. CASE i <= task_size
        <3>1. m[i] = <<p, i>> /\ i \in 1 .. task_size
            BY <1>6, <2>1
        <3>2. Vale(p, i) = buffer[p][i] /\ Vale(p, i)' = buffer'[p][i]
            BY <3>1, OrdenandoVale
        <3>. QED
            BY <1>10, <3>1, <3>2
    <2>2. CASE ~ (i <= task_size)
        <3>1. m[i] = <<p + 1, i - task_size>> /\ i - task_size \in 1 .. c /\ p # REMAINING_PHASE
            BY <1>5, <1>6, <2>2
        <3>2. PICK j \in 1 .. c : j = i - task_size
            BY <3>1
        <3>3. j \in 1 .. task_size /\ task_size + j = i /\ m[i] = <<p + 1, j>> /\ p + 1 \in Processo
            BY <1>2, <1>3, <3>1, <3>2
        <3>4. /\ Vale(p + 1, j) = buffer[p][task_size + j]
              /\ Vale(p + 1, j)' = buffer'[p][task_size + j]
            BY <3>1, OrdenandoVale
        <3>5. Valem[<<p + 1, j>>] = Vale(p + 1, j) /\ Valem'[<<p + 1, j>>] = Vale(p + 1, j)'
            BY <1>10, <3>3
        <3>. QED
            BY <3>3, <3>4, <3>5
    <2>. QED
        BY <2>1, <2>2
<1>12. ASSUME NEW x \in Casas, \A i \in I : m[i] # x PROVE Valem'[x] = Valem[x]
    <2>1. PICK r \in Processo, j \in 1 .. task_size : x = <<r, j>>
        BY DEF Casas
    <2>2. r # p
        <3>1. j \in I /\ j <= task_size
            BY <1>2, <1>3
        <3>. QED
            BY <1>6, <1>12, <2>1, <3>1
    <2>3. ~ (r = p + 1 /\ j <= c)
        <3>. SUFFICES ASSUME r = p + 1, j <= c PROVE FALSE
            OBVIOUS
        <3>1. p # REMAINING_PHASE
            BY Numeros
        <3>2. task_size + j \in I /\ ~ (task_size + j <= task_size) /\ (task_size + j) - task_size = j
            BY <1>2, <1>3, <3>1
        <3>3. m[task_size + j] = <<r, j>>
            BY <1>6, <3>2
        <3>. QED
            BY <1>12, <2>1, <3>2, <3>3
    <2>4. Vale(r, j)' = Vale(r, j)
        BY <2>2, <2>3, OrdenandoVale
    <2>. QED
        BY <1>10, <2>1, <2>4
<1>13. Permuta(Casas, Valem, Valem')
    BY <1>4, <1>7, <1>8, <1>11, <1>12, PermutaParte
<1>. QED
    BY <1>1, <1>13, ValoresMantidos

LEMMA UmPassoRodando ==
    ASSUME Tipos, Rodando, NEW p \in Processo, UmPasso(p)
    PROVE  Tipos' /\ Rodando'
<1>1. /\ Pontos /\ Cheios /\ saida = <<>> /\ MesmoTrecho /\ Correio /\ Causa
      /\ Concordam /\ Ordenados /\ Valores
    BY DEF Rodando
<1>2. Tipos' /\ Cheios' /\ Pontos' /\ saida' = saida
    BY <1>1, UmPassoTipos
<1>3. MesmoTrecho' /\ Causa'
    BY <1>1, UmPassoTrecho, UmPassoCausa
<1>4. Correio' /\ Ordenados'
    BY <1>1, UmPassoCorreio, UmPassoOrdenados
<1>5. Concordam'
    BY <1>1, UmPassoConcordam
<1>6. Valores'
    <2>1. CASE Ordenando(p)
        BY <1>1, <2>1, OrdenandoValores
    <2>2. ASSUME NEW q, Enviando(p, q) PROVE Valores'
        <3>1. buffer' = buffer /\ Constante /\ p % 2 \in {0, 1} /\ ~ Ordenando(p)
            <4>1. p % 2 \in {0, 1} /\ Constante
                BY Numeros DEF UmPasso, Igual
            <4>. QED
                BY <2>2, <4>1 DEF Enviando, Envia, Ordenando
        <3>2. \A x \in Processo : Etapa(x)' <= 4 <=> Etapa(x) <= 4
            BY <1>1, <3>1, UmPassoEtapas
        <3>. QED
            BY <1>1, <3>1, <3>2, ParadosValores
    <2>3. ASSUME NEW q, Recebendo(p, q) PROVE Valores'
        BY <1>1, <2>3, RecebendoValores
    <2>. QED
        BY <2>1, <2>2, <2>3 DEF UmPasso
<1>. QED
    BY <1>1, <1>2, <1>3, <1>4, <1>5, <1>6 DEF Rodando

-----------------------------------------------------------------------------
(***************************************************************************)
(* The steps of all processes.                                             *)
(***************************************************************************)
\* When every pair has to agree, every value that counts is the slice's own.
LEMMA TodosConcordam ==
    ASSUME Tipos, Cheios, Concordam,
           \A e, o \in Processo : e % 2 = 0 /\ o % 2 = 1 /\ Vizinhos(e, o) => Devem(e, o)
    PROVE  /\ \A p \in Processo : p # REMAINING_PHASE =>
                 /\ Borda(p, p + 1) = Borda(p + 1, p)
                 /\ \A j \in 1 .. c : buffer[p][task_size + j] = buffer[p + 1][j]
           /\ \A q \in Processo : \A j \in 1 .. task_size : Vale(q, j) = buffer[q][j]
           /\ \A x, y \in Processo : Vizinhos(x, y) => Borda(x, y) = Borda(y, x)
<1>1. ASSUME NEW p \in Processo, p # REMAINING_PHASE
      PROVE  /\ Borda(p, p + 1) = Borda(p + 1, p)
             /\ \A j \in 1 .. c : buffer[p][task_size + j] = buffer[p + 1][j]
    <2>1. /\ p + 1 \in Processo /\ Vizinhos(p, p + 1) /\ Vizinhos(p + 1, p)
          /\ p % 2 \in {0, 1} /\ (p + 1) % 2 = 1 - (p % 2)
        BY <1>1, Numeros, Comuns
    <2>2. CASE p % 2 = 0
        BY <1>1, <2>1, <2>2, Comuns DEF Concordam
    <2>3. CASE p % 2 = 1
        BY <1>1, <2>1, <2>3, Comuns DEF Concordam
    <2>. QED
        BY <2>1, <2>2, <2>3
<1>2. ASSUME NEW q \in Processo, NEW j \in 1 .. task_size PROVE Vale(q, j) = buffer[q][j]
    <2>1. CASE DoVizinho(q, j)
        <3>1. q > 0 /\ j \in 1 .. c
            <4>1. c \in Nat /\ task_size \in Nat
                BY Tamanhos DEF Tipos
            <4>. QED
                BY <2>1, <4>1 DEF DoVizinho
        <3>2. q - 1 \in Processo /\ q - 1 # REMAINING_PHASE /\ (q - 1) + 1 = q
            BY <3>1, Impares
        <3>3. buffer[q - 1][task_size + j] = buffer[q][j]
            BY <1>1, <3>1, <3>2
        <3>. QED
            BY <2>1, <3>3 DEF Vale
    <2>2. CASE ~ DoVizinho(q, j)
        BY <2>2 DEF Vale
    <2>. QED
        BY <2>1, <2>2
<1>3. ASSUME NEW x \in Processo, NEW y \in Processo, Vizinhos(x, y)
      PROVE  Borda(x, y) = Borda(y, x)
    <2>1. \/ y = x + 1 /\ x # REMAINING_PHASE
          \/ x = y + 1 /\ y # REMAINING_PHASE
        BY <1>3, Lados
    <2>. QED
        BY <1>1, <2>1
<1>. QED
    BY <1>1, <1>2, <1>3

\* What a step of all keeps when no buffer changes.
Todos ==
    /\ Avancaram /\ Constante /\ folga' = folga /\ canal' = canal /\ buffer' = buffer
    /\ sorted' = sorted /\ saida' = saida /\ ponto' \in [Processo -> Nat]
    /\ fase' = fase

LEMMA TodosTipos ==
    ASSUME Tipos, Cheios, Todos
    PROVE  Tipos' /\ Cheios' /\ Pontos' /\ \A x, y \in Processo : Borda(x, y)' = Borda(x, y)
<1>1. Medidas' /\ \A q \in Processo : Largura(q)' = Largura(q)
    BY Constantes DEF Todos, Tipos
<1>2. Pontos'
    BY DEF Todos, Avancaram
<1>3. Cheios'
    BY <1>1 DEF Todos, Cheios
<1>4. \A x, y \in Processo : Borda(x, y)' = Borda(x, y)
    BY BordaParada DEF Todos
<1>5. Tipos'
    BY <1>1 DEF Tipos, Todos
<1>. QED
    BY <1>2, <1>3, <1>4, <1>5

\* No border is under way, before and after.
LEMMA NadaViaja ==
    ASSUME Correio, Todos, \A x, y \in Processo : ~ Viaja(x, y) /\ ~ Viaja(x, y)'
    PROVE  Correio' /\ \A x, y \in Processo : canal[x][y] = <<>>
<1>1. \A x, y \in Processo : canal[x][y] = <<>>
    BY DEF Correio
<1>2. \A x, y \in Processo : canal'[x][y] = <<>>
    BY <1>1 DEF Todos
<1>. QED
    BY <1>1, <1>2 DEF Correio, Viaja, Vizinhos, Borda

\* At the barriers.
NaPrimeira == \A p \in Processo : Etapa(p) = (IF p % 2 = 0 THEN 4 ELSE 3)
NaSegunda == \A p \in Processo : Etapa(p) = 8

LEMMA NasBarreiras ==
    ASSUME Pontos, MesmoTrecho, \A p \in Processo : Roteiro(p)[ponto[p]] = "barreira"
    PROVE  NaPrimeira \/ NaSegunda
<1>1. \A p \in Processo : Etapa(p) = 8 \/ Etapa(p) = (IF p % 2 = 0 THEN 4 ELSE 3)
    BY Nomes
<1>2. \A p \in Processo : p % 2 \in {0, 1}
    BY Numeros
<1>3. CASE Etapa(FIRST_PHASE) = 8
    <2>1. \A p \in Processo : Etapa(p) >= 6
        BY <1>3, Numeros, TrechoEtapas
    <2>. QED
        BY <1>1, <1>2, <2>1 DEF NaSegunda
<1>4. CASE Etapa(FIRST_PHASE) # 8
    <2>1. ~ (Etapa(FIRST_PHASE) >= 6)
        BY <1>1, <1>2, <1>4, Numeros
    <2>2. \A p \in Processo : ~ (Etapa(p) >= 6)
        BY <2>1, Numeros, TrechoEtapas
    <2>. QED
        BY <1>1, <1>2, <2>2 DEF NaPrimeira
<1>. QED
    BY <1>3, <1>4

\* Both copies of every border agree there, and none is under way.
LEMMA NaBarreira ==
    ASSUME Tipos, Cheios, Concordam, NaPrimeira \/ NaSegunda
    PROVE  /\ \A x, y \in Processo : ~ Viaja(x, y)
           /\ \A e, o \in Processo : e % 2 = 0 /\ o % 2 = 1 /\ Vizinhos(e, o) => Devem(e, o)
<1>1. ASSUME NEW x \in Processo, NEW y \in Processo, Vizinhos(x, y), Viaja(x, y) PROVE FALSE
    <2>1. x % 2 \in {0, 1} /\ y % 2 \in {0, 1} /\ (x % 2 = 0 <=> y % 2 = 1)
        BY <1>1, Lados
    <2>2. Etapa(x) > Envia(x, y) /\ Etapa(y) <= Recebe(y, x)
        BY <1>1 DEF Viaja
    <2>3. CASE NaPrimeira
        BY <2>1, <2>2, <2>3 DEF NaPrimeira, Envia, Recebe
    <2>4. CASE NaSegunda
        BY <2>1, <2>2, <2>4 DEF NaSegunda, Envia, Recebe
    <2>. QED
        BY <2>3, <2>4
<1>2. ASSUME NEW e \in Processo, NEW o \in Processo, e % 2 = 0, o % 2 = 1 PROVE Devem(e, o)
    <2>1. Recebe(e, o) \in {6, 7} /\ Recebe(o, e) \in {1, 2}
        BY <1>2 DEF Recebe
    <2>2. CASE NaPrimeira
        BY <1>2, <2>1, <2>2 DEF NaPrimeira, Devem
    <2>3. CASE NaSegunda
        BY <1>2, <2>1, <2>3 DEF NaSegunda, Devem
    <2>. QED
        BY <2>2, <2>3
<1>3. \A x, y \in Processo : Viaja(x, y) => Vizinhos(x, y)
    BY DEF Viaja
<1>. QED
    BY <1>1, <1>2, <1>3

LEMMA BarreiraRodando ==
    ASSUME Tipos, Rodando, Barreira
    PROVE  Tipos' /\ Rodando'
<1>1. /\ Pontos /\ Cheios /\ saida = <<>> /\ MesmoTrecho /\ Correio /\ Causa
      /\ Concordam /\ Ordenados /\ Valores
    BY DEF Rodando
<1>2. Todos
    <2>1. ponto' = [p \in Processo |-> Seguinte(p)] /\ fase' = fase
        BY DEF Barreira
    <2>2. Avancaram /\ ponto' \in [Processo -> Nat]
        BY <1>1, <2>1, JuntosAvancaram
    <2>. QED
        BY <2>1, <2>2 DEF Barreira, Todos, Constante
<1>3. NaPrimeira \/ NaSegunda
    BY <1>1, NasBarreiras DEF Barreira, Em
<1>4. /\ \A x, y \in Processo : ~ Viaja(x, y)
      /\ \A e, o \in Processo : e % 2 = 0 /\ o % 2 = 1 /\ Vizinhos(e, o) => Devem(e, o)
    BY <1>1, <1>3, NaBarreira
<1>5. Tipos' /\ Cheios' /\ Pontos' /\ \A x, y \in Processo : Borda(x, y)' = Borda(x, y)
    BY <1>1, <1>2, TodosTipos
<1>6. Constante /\ buffer' = buffer /\ sorted' = sorted /\ saida' = saida
    BY <1>2 DEF Todos
<1>7. /\ \A x, y \in Processo : Vizinhos(x, y) => Borda(x, y) = Borda(y, x)
      /\ \A q \in Processo : \A j \in 1 .. task_size : Vale(q, j) = buffer[q][j]
      /\ \A p \in Processo : p # REMAINING_PHASE =>
            \A j \in 1 .. c : buffer[p][task_size + j] = buffer[p + 1][j]
    BY <1>1, <1>4, TodosConcordam
<1>8. \A x \in Processo :
          /\ Etapa(x)' = Depois(x) /\ x % 2 \in {0, 1} /\ Etapa(x) \in 1 .. 8
    BY <1>1, <1>2, Proximos DEF Todos, Avancaram
<1>9. Concordam'
    BY <1>5, <1>7 DEF Concordam, Vizinhos
<1>10. CASE NaPrimeira
    <2>1. \A x \in Processo : Etapa(x)' = (IF x % 2 = 0 THEN 5 ELSE 4)
        BY <1>1, <1>8, <1>10, Proximos DEF NaPrimeira
    <2>2. MesmoTrecho'
        BY <1>8, <2>1 DEF MesmoTrecho, Trecho
    <2>3. ASSUME NEW x \in Processo, NEW y \in Processo, Vizinhos(x, y)
          PROVE  /\ ~ (Etapa(x)' > Envia(x, y) /\ Etapa(y)' <= Recebe(y, x))
                 /\ Etapa(x)' > Recebe(x, y) => Etapa(y)' > Envia(y, x)
        <3>1. x % 2 \in {0, 1} /\ y % 2 \in {0, 1} /\ (x % 2 = 0 <=> y % 2 = 1)
            BY <2>3, Lados
        <3>. QED
            BY <2>1, <3>1 DEF Envia, Recebe
    <2>4. Causa'
        BY <2>3 DEF Causa, Vizinhos, Envia, Recebe
    <2>5. \A x, y \in Processo : ~ Viaja(x, y)'
        BY <2>3 DEF Viaja, Vizinhos, Envia, Recebe
    <2>6. Correio'
        BY <1>1, <1>2, <1>4, <2>5, NadaViaja
    <2>7. Ordenados'
        <3>. SUFFICES ASSUME NEW x \in Processo, sorted'[x], Ordenou(x)' PROVE Cresce(buffer'[x])
            BY DEF Ordenados, Cresce
        <3>1. x % 2 = 0
            BY <1>8, <2>1 DEF Ordenou
        <3>2. Ordenou(x)
            BY <1>10, <3>1 DEF NaPrimeira, Ordenou
        <3>. QED
            BY <1>1, <1>6, <3>2 DEF Ordenados
    <2>8. Valores'
        <3>1. \A q \in Processo : q % 2 = 1 => (Etapa(q)' <= 4 <=> Etapa(q) <= 4)
            BY <1>10, <2>1 DEF NaPrimeira
        <3>. QED
            BY <1>1, <1>6, <3>1, ParadosValores
    <2>. QED
        BY <1>1, <1>5, <1>6, <1>9, <2>2, <2>4, <2>6, <2>7, <2>8 DEF Rodando
<1>11. CASE NaSegunda
    <2>1. \A x \in Processo : /\ x % 2 = 0 => Etapa(x)' = 1
                              /\ x % 2 = 1 => Etapa(x)' \in {1, 2}
                              /\ Etapa(x)' = 2 => x = REMAINING_PHASE
        BY <1>1, <1>8, <1>11, Proximos DEF NaSegunda
    <2>2. MesmoTrecho'
        BY <1>8, <2>1 DEF MesmoTrecho, Trecho
    <2>3. ASSUME NEW x \in Processo, NEW y \in Processo, Vizinhos(x, y)
          PROVE  /\ ~ (Etapa(x)' > Envia(x, y) /\ Etapa(y)' <= Recebe(y, x))
                 /\ Etapa(x)' > Recebe(x, y) => Etapa(y)' > Envia(y, x)
        <3>1. x % 2 \in {0, 1} /\ y % 2 \in {0, 1} /\ (x % 2 = 0 <=> y % 2 = 1)
            BY <2>3, Lados
        <3>2. Envia(x, y) \in {2, 3, 6, 7}
            BY DEF Envia
        <3>3. ~ (Etapa(x)' > Envia(x, y))
            BY <2>1, <3>1, <3>2
        <3>4. y > x => x # REMAINING_PHASE
            BY <2>3, Lados
        <3>5. ~ (Etapa(x)' > Recebe(x, y))
            <4>1. CASE x % 2 = 0
                BY <2>1, <4>1 DEF Recebe
            <4>2. CASE x % 2 = 1 /\ y > x
                BY <2>1, <3>4, <4>2 DEF Recebe
            <4>3. CASE x % 2 = 1 /\ ~ (y > x)
                BY <2>1, <4>3 DEF Recebe
            <4>. QED
                BY <3>1, <4>1, <4>2, <4>3
        <3>. QED
            BY <3>3, <3>5
    <2>4. Causa'
        BY <2>3 DEF Causa, Vizinhos, Envia, Recebe
    <2>5. \A x, y \in Processo : ~ Viaja(x, y)'
        BY <2>3 DEF Viaja, Vizinhos, Envia, Recebe
    <2>6. Correio'
        BY <1>1, <1>2, <1>4, <2>5, NadaViaja
    <2>7. Ordenados'
        <3>1. \A x \in Processo : ~ Ordenou(x)'
            BY <1>8, <2>1 DEF Ordenou
        <3>. QED
            BY <3>1 DEF Ordenados
    <2>8. ASSUME NEW q \in Processo, NEW j \in 1 .. task_size PROVE Vale(q, j)' = Vale(q, j)
        <3>1. Vale(q, j)' = IF DoVizinho(q, j)' THEN buffer[q - 1][task_size + j] ELSE buffer[q][j]
            BY <1>6, ValeDepois
        <3>2. CASE DoVizinho(q, j)'
            <4>1. c' = c /\ c \in Nat
                BY <1>6, Constantes, Tamanhos DEF Tipos
            <4>2. q > 0 /\ j \in 1 .. c
                BY <3>2, <4>1 DEF DoVizinho
            <4>3. q - 1 \in Processo /\ q - 1 # REMAINING_PHASE /\ (q - 1) + 1 = q
                BY <4>2, Impares
            <4>4. buffer[q - 1][task_size + j] = buffer[q][j]
                BY <1>7, <4>2, <4>3
            <4>. QED
                BY <1>7, <3>1, <3>2, <4>4
        <3>3. CASE ~ DoVizinho(q, j)'
            BY <1>7, <3>1, <3>3
        <3>. QED
            BY <3>2, <3>3
    <2>9. Valores'
        BY <1>1, <1>6, <2>8, ValoresIguais
    <2>. QED
        BY <1>1, <1>5, <1>6, <1>9, <2>2, <2>4, <2>6, <2>7, <2>9 DEF Rodando
<1>. QED
    BY <1>3, <1>10, <1>11

\* At the reduction.
NaReducao == \A p \in Processo : Etapa(p) = 5

LEMMA ReduzirRodando ==
    ASSUME Tipos, Rodando, Reduzir, ~ Prontos
    PROVE  Tipos' /\ Rodando'
<1>1. /\ Pontos /\ Cheios /\ saida = <<>> /\ MesmoTrecho /\ Correio /\ Causa
      /\ Concordam /\ Ordenados /\ Valores
    BY DEF Rodando
<1>2. Todos
    <2>1. ponto' = [p \in Processo |-> Seguinte(p)] /\ fase' = fase
        BY DEF Reduzir
    <2>2. Avancaram /\ ponto' \in [Processo -> Nat]
        BY <1>1, <2>1, JuntosAvancaram
    <2>. QED
        BY <2>1, <2>2 DEF Reduzir, Todos, Constante
<1>3. NaReducao
    BY <1>1, Nomes DEF Reduzir, Em, NaReducao
<1>4. Tipos' /\ Cheios' /\ Pontos' /\ \A x, y \in Processo : Borda(x, y)' = Borda(x, y)
    BY <1>1, <1>2, TodosTipos
<1>5. Constante /\ buffer' = buffer /\ sorted' = sorted /\ saida' = saida
    BY <1>2 DEF Todos
<1>6. \A x \in Processo :
          /\ Etapa(x)' \in {6, 7} /\ x % 2 \in {0, 1}
          /\ x \in {FIRST_PHASE, REMAINING_PHASE} => Etapa(x)' = 7
          /\ x \notin {FIRST_PHASE, REMAINING_PHASE} => Etapa(x)' = 6
    <2>. SUFFICES ASSUME NEW x \in Processo
                  PROVE  /\ Etapa(x)' = (IF x \in {FIRST_PHASE, REMAINING_PHASE} THEN 7 ELSE 6)
                         /\ x % 2 \in {0, 1}
        OBVIOUS
    <2>1. Etapa(x)' = Depois(x) /\ Etapa(x) = 5
        BY <1>2, <1>3 DEF Todos, Avancaram, NaReducao
    <2>. QED
        BY <2>1, Numeros DEF Depois
<1>7. MesmoTrecho'
    BY <1>6 DEF MesmoTrecho, Trecho
<1>8. ASSUME NEW x \in Processo, NEW y \in Processo, Vizinhos(x, y)
      PROVE  /\ ~ (Etapa(x) > Envia(x, y) /\ Etapa(y) <= Recebe(y, x))
             /\ ~ (Etapa(x)' > Envia(x, y) /\ Etapa(y)' <= Recebe(y, x))
             /\ Etapa(x)' > Recebe(x, y) => Etapa(y)' > Envia(y, x)
             /\ x % 2 = 0 => ~ (Etapa(x)' > Recebe(x, y))
    <2>1. /\ x % 2 \in {0, 1} /\ y % 2 \in {0, 1} /\ (x % 2 = 0 <=> y % 2 = 1)
          /\ y > x <=> ~ (x > y)
          /\ y > x => x # REMAINING_PHASE /\ y # FIRST_PHASE
          /\ x > y => y # REMAINING_PHASE /\ x # FIRST_PHASE
        BY <1>8, Lados
    <2>2. Etapa(x) = 5 /\ Etapa(y) = 5
        BY <1>3 DEF NaReducao
    <2>3. CASE x % 2 = 0
        <3>1. y % 2 = 1 /\ Recebe(y, x) \in {1, 2} /\ Recebe(x, y) \in {6, 7}
            BY <2>1, <2>3 DEF Recebe
        <3>2. ~ (Etapa(x)' > Recebe(x, y))
            <4>1. CASE y > x
                BY <1>6, <2>3, <4>1 DEF Recebe
            <4>2. CASE ~ (y > x)
                <5>1. x # FIRST_PHASE /\ x # REMAINING_PHASE
                    BY <2>1, <2>3, <4>2, Numeros
                <5>. QED
                    BY <1>6, <2>3, <4>2, <5>1 DEF Recebe
            <4>. QED
                BY <4>1, <4>2
        <3>. QED
            BY <1>6, <2>2, <3>1, <3>2
    <2>4. CASE x % 2 = 1
        <3>1. y % 2 = 0 /\ Envia(y, x) \in {2, 3} /\ Envia(x, y) \in {6, 7} /\ Recebe(y, x) \in {6, 7}
            BY <2>1, <2>4 DEF Recebe, Envia
        <3>2. ~ (Etapa(x)' > Envia(x, y))
            <4>1. CASE y > x
                <5>1. x # FIRST_PHASE /\ x # REMAINING_PHASE
                    BY <2>1, <2>4, <4>1, Numeros
                <5>. QED
                    BY <1>6, <2>4, <4>1, <5>1 DEF Envia
            <4>2. CASE ~ (y > x)
                BY <1>6, <2>4, <4>2 DEF Envia
            <4>. QED
                BY <4>1, <4>2
        <3>. QED
            BY <1>6, <2>2, <2>4, <3>1, <3>2
    <2>. QED
        BY <2>1, <2>3, <2>4
<1>9. Causa'
    BY <1>8 DEF Causa, Vizinhos, Envia, Recebe
<1>10. \A x, y \in Processo : ~ Viaja(x, y) /\ ~ Viaja(x, y)'
    BY <1>8 DEF Viaja, Vizinhos, Envia, Recebe
<1>11. Correio'
    BY <1>1, <1>2, <1>10, NadaViaja
<1>12. Concordam'
    <2>1. ASSUME NEW e \in Processo, NEW o \in Processo, e % 2 = 0, o % 2 = 1, Vizinhos(e, o)
          PROVE  ~ (Etapa(e)' = 1 \/ Etapa(o)' <= 5 \/ Etapa(e)' > Recebe(e, o))
        BY <1>6, <1>8, <2>1
    <2>. QED
        BY <1>6, <2>1 DEF Concordam, Devem, Vizinhos, Recebe
<1>13. Ordenados'
    BY <1>6 DEF Ordenados, Ordenou
<1>14. Valores'
    <2>1. \A q \in Processo : ~ (Etapa(q)' <= 4) /\ ~ (Etapa(q) <= 4)
        BY <1>3, <1>6 DEF NaReducao
    <2>. QED
        BY <1>1, <1>5, <2>1, ParadosValores
<1>. QED
    BY <1>1, <1>4, <1>5, <1>7, <1>9, <1>11, <1>12, <1>13, <1>14 DEF Rodando

-----------------------------------------------------------------------------
(***************************************************************************)
(* The slices, one after the other, are a rearrangement of what was dealt  *)
(* out, and in order when every slice is and the borders agree.            *)
(***************************************************************************)
LEMMA Divisao ==
    ASSUME NEW t \in Nat, t >= 1, NEW q \in Nat, NEW r \in 0 .. t - 1
    PROVE  (t * q + r) \div t = q /\ (t * q + r) % t = r
<1>. DEFINE x == t * q + r
            d == x \div t
            s == x % t
            e == t * d
            f == t * q
<1>1. f \in Nat /\ x \in Nat
    BY Produto
<1>2. d \in Nat
    <2>. HIDE DEF x, f
    <2>. QED
        BY <1>1, Quociente
<1>3. x = e + s /\ s \in 0 .. t - 1
    <2>. HIDE DEF x, f
    <2>. QED
        BY <1>1
<1>4. x = f + r /\ e \in Nat
    <2>. HIDE DEF d
    <2>. QED
        BY <1>2, Produto
<1>5. d < q => e + t <= f
    <2>. HIDE DEF d
    <2>1. t * (d + 1) = e + t
        BY <1>2, Produto
    <2>2. d < q => d + 1 <= q /\ d + 1 \in Nat
        BY <1>2
    <2>. QED
        BY <2>1, <2>2, Produto
<1>6. q < d => f + t <= e
    <2>. HIDE DEF d
    <2>1. t * (q + 1) = f + t
        BY Produto
    <2>2. q < d => q + 1 <= d /\ q + 1 \in Nat
        BY <1>2
    <2>. QED
        BY <1>2, <2>1, <2>2, Produto
<1>. HIDE DEF x, d, s, f, e
<1>7. d = q
    BY <1>1, <1>2, <1>3, <1>4, <1>5, <1>6
<1>8. e = f
    BY <1>7 DEF e, f
<1>9. s = r
    BY <1>1, <1>3, <1>4, <1>8
<1>. QED
    BY <1>7, <1>9 DEF d, s, x

\* The place in the slices of the k-th value, and back.
Casa(k) == <<(k - 1) \div task_size, ((k - 1) % task_size) + 1>>
Numero(x) == task_size * x[1] + x[2]

LEMMA Posicoes ==
    ASSUME Medidas
    PROVE  /\ np * task_size \in Nat
           /\ \A k \in 1 .. np * task_size : Casa(k) \in Casas /\ Numero(Casa(k)) = k
           /\ \A x \in Casas : Numero(x) \in 1 .. np * task_size /\ Casa(Numero(x)) = x
<1>. DEFINE t == task_size
            n == np * t
<1>1. t \in Nat /\ t >= 1 /\ np \in Nat /\ n \in Nat
    BY Tamanhos, Numeros, Produto
<1>2. ASSUME NEW k \in 1 .. n PROVE Casa(k) \in Casas /\ Numero(Casa(k)) = k
    <2>. DEFINE x == k - 1
                d == x \div t
                r == x % t
                e == t * d
                m == t * np
    <2>1. x \in Nat /\ x < n /\ k = x + 1
        <3>. HIDE DEF n
        <3>. QED
            BY <1>1
    <2>2. d \in Nat
        <3>. HIDE DEF x, t
        <3>. QED
            BY <1>1, <2>1, Quociente
    <2>3. x = e + r /\ r \in 0 .. t - 1
        <3>. HIDE DEF x, t
        <3>. QED
            BY <1>1, <2>1
    <2>4. m = n
        <3>. HIDE DEF t
        <3>. QED
            BY <1>1
    <2>5. np <= d => m <= e
        <3>. HIDE DEF t, d
        <3>. QED
            BY <1>1, <2>2, Produto
    <2>6. e \in Nat
        <3>. HIDE DEF t, d
        <3>. QED
            BY <1>1, <2>2, Produto
    <2>7. d \in Processo /\ r + 1 \in 1 .. t
        <3>1. d < np
            <4>. HIDE DEF x, d, r, e, m, n, t
            <4>. QED
                BY <1>1, <2>1, <2>2, <2>3, <2>4, <2>5, <2>6
        <3>2. r + 1 \in 1 .. t
            <4>. HIDE DEF x, d, r, e, m, n, t
            <4>. QED
                BY <1>1, <2>3
        <3>. HIDE DEF x, d, r, t, n
        <3>. QED
            BY <1>1, <2>2, <3>1, <3>2 DEF Processo
    <2>8. Casa(k) = <<d, r + 1>>
        BY DEF Casa
    <2>9. Numero(Casa(k)) = e + (r + 1)
        <3>1. Casa(k)[1] = d /\ Casa(k)[2] = r + 1
            <4>. HIDE DEF d, r
            <4>. QED
                BY <2>8
        <3>. QED
            BY <3>1 DEF Numero
    <2>10. e + (r + 1) = k
        <3>. HIDE DEF x, d, r, e, m, n, t
        <3>. QED
            BY <2>1, <2>3, <2>6
    <2>11. <<d, r + 1>> \in Casas
        <3>. HIDE DEF d, r
        <3>. QED
            BY <2>7 DEF Casas
    <2>. QED
        BY <2>8, <2>9, <2>10, <2>11
<1>3. ASSUME NEW x \in Casas PROVE Numero(x) \in 1 .. n /\ Casa(Numero(x)) = x
    <2>1. PICK q \in Processo, j \in 1 .. task_size : x = <<q, j>>
        BY DEF Casas
    <2>. DEFINE e == t * q
                r == j - 1
    <2>2. e \in Nat /\ e + t <= n /\ q \in Nat /\ r \in 0 .. t - 1 /\ j = r + 1
        <3>1. q \in Nat /\ j \in 1 .. t
            BY <2>1, Numeros
        <3>2. e \in Nat /\ e + t <= n
            <4>. HIDE DEF t
            <4>. QED
                BY <1>1, Lugares
        <3>. HIDE DEF t, e, n
        <3>. QED
            BY <1>1, <3>1, <3>2
    <2>3. Numero(x) = e + j
        BY <2>1 DEF Numero
    <2>4. Numero(x) \in 1 .. n /\ Numero(x) - 1 = e + r
        <3>. HIDE DEF e, n, t
        <3>. QED
            BY <1>1, <2>2, <2>3
    <2>5. (e + r) \div t = q /\ (e + r) % t = r
        <3>. HIDE DEF t, r
        <3>. QED
            BY <1>1, <2>2, Divisao
    <2>6. Casa(Numero(x)) = <<q, r + 1>>
        BY <2>4, <2>5 DEF Casa
    <2>. QED
        <3>. HIDE DEF t, r, e, n
        <3>. QED
            BY <2>1, <2>2, <2>4, <2>6
<1>. QED
    BY <1>1, <1>2, <1>3

LEMMA OrdenadaDef == \A v : Programa!Ordenada(v) = EmOrdem(v)
BY DEF Programa!Ordenada, Programa!Cardinality, Cardinality, EmOrdem, NoLugar, Menores, AteValor

LEMMA FatiasVetor ==
    ASSUME Tipos, Cheios
    PROVE  /\ Fatias \in Seq(Int) /\ Len(Fatias) = np * task_size /\ np * task_size \in Nat
           /\ \A k \in 1 .. np * task_size : Fatias[k] = buffer[Casa(k)[1]][Casa(k)[2]]
           /\ Repartidos \in Seq(Int) /\ Len(Repartidos) = np * task_size
           /\ \A k \in 1 .. np * task_size : Repartidos[k] = entrada[k]
<1>. DEFINE n == np * task_size
<1>0. Medidas
    BY DEF Tipos
<1>1. n \in Nat /\ \A k \in 1 .. n : Casa(k) \in Casas
    BY <1>0, Posicoes
<1>2. /\ task_size \in Nat /\ entrada \in Seq(Int) /\ n <= Len(entrada)
      /\ \A p \in Processo : Largura(p) \in Nat /\ task_size <= Largura(p)
    BY <1>0, Tamanhos
<1>. HIDE DEF n
<1>3. \A k \in 1 .. n : Casa(k)[1] \in Processo /\ Casa(k)[2] \in 1 .. task_size
    BY <1>1 DEF Casas
<1>4. \A q \in Processo : \A j \in 1 .. task_size : buffer[q][j] \in Int
    <2>1. \A q \in Processo : buffer[q] \in Seq(Int) /\ Len(buffer[q]) = Largura(q)
        BY DEF Tipos, Cheios
    <2>. QED
        BY <1>2, <2>1
<1>5. \A k \in 1 .. n : buffer[Casa(k)[1]][Casa(k)[2]] \in Int
    BY <1>3, <1>4
<1>6. Fatias = [k \in 1 .. n |-> buffer[Casa(k)[1]][Casa(k)[2]]]
    BY DEF Fatias, Casa, n
<1>7. Fatias \in [1 .. n -> Int]
    BY <1>5, <1>6
<1>8. Fatias \in Seq(Int) /\ Len(Fatias) = n
    <2>. HIDE <1>6
    <2>. QED
        BY <1>1, <1>7
<1>9. 0 \in Nat /\ 0 + n <= Len(entrada) /\ 0 + 1 = 1 /\ 0 + n = n
    BY <1>1, <1>2
<1>10. Repartidos = SubSeq(entrada, 0 + 1, 0 + n)
    BY <1>9 DEF Repartidos, n
<1>11. /\ Repartidos \in Seq(Int) /\ Len(Repartidos) = n
       /\ \A k \in 1 .. n : Repartidos[k] = entrada[0 + k]
    BY <1>1, <1>2, <1>9, <1>10, Recorte
<1>12. \A k \in 1 .. n : Repartidos[k] = entrada[k]
    <2>1. \A k \in 1 .. n : 0 + k = k
        BY <1>1
    <2>. QED
        BY <1>11, <2>1
<1>. QED
    BY <1>1, <1>6, <1>8, <1>11, <1>12 DEF n

LEMMA FatiasReordenam ==
    ASSUME Tipos, Cheios, Valores,
           \A q \in Processo : \A j \in 1 .. task_size : Vale(q, j) = buffer[q][j]
    PROVE  \E t : Reordena(Repartidos, Fatias, t)
<1>. DEFINE n == np * task_size
<1>0. Medidas
    BY DEF Tipos
<1>1. /\ n \in Nat
      /\ \A k \in 1 .. n : Casa(k) \in Casas /\ Numero(Casa(k)) = k
      /\ \A x \in Casas : Numero(x) \in 1 .. n /\ Casa(Numero(x)) = x
    BY <1>0, Posicoes
<1>2. /\ Fatias \in Seq(Int) /\ Len(Fatias) = n
      /\ \A k \in 1 .. n : Fatias[k] = buffer[Casa(k)[1]][Casa(k)[2]]
      /\ Repartidos \in Seq(Int) /\ Len(Repartidos) = n
      /\ \A k \in 1 .. n : Repartidos[k] = entrada[k]
    BY FatiasVetor
<1>. HIDE DEF n
<1>3. PICK f \in [Casas -> Casas] :
          /\ \A x, y \in Casas : f[x] = f[y] => x = y
          /\ \A x \in Casas : Valem[x] = Dadas[f[x]]
    BY DEF Valores, Permuta
<1>4. \A x \in Casas : Dadas[x] = entrada[Numero(x)]
    BY DEF Dadas, Numero
<1>5. \A x \in Casas : Valem[x] = buffer[x[1]][x[2]]
    BY DEF Valem, Casas
<1>. DEFINE t == [k \in 1 .. n |-> Numero(f[Casa(k)])]
<1>6. \A k \in 1 .. n : t[k] = Numero(f[Casa(k)]) /\ f[Casa(k)] \in Casas
    BY <1>1, <1>3
<1>7. t \in [1 .. n -> 1 .. n]
    BY <1>1, <1>6
<1>. HIDE DEF t
<1>8. \A i, j \in 1 .. n : t[i] = t[j] => i = j
    <2>. SUFFICES ASSUME NEW i \in 1 .. n, NEW j \in 1 .. n, t[i] = t[j] PROVE i = j
        OBVIOUS
    <2>1. f[Casa(i)] = f[Casa(j)]
        BY <1>1, <1>6
    <2>2. Casa(i) = Casa(j)
        BY <1>1, <1>3, <2>1
    <2>. QED
        BY <1>1, <2>2
<1>9. ASSUME NEW k \in 1 .. n PROVE Fatias[k] = Repartidos[t[k]]
    <2>1. Casa(k) \in Casas /\ f[Casa(k)] \in Casas
        BY <1>1, <1>6
    <2>2. Fatias[k] = Valem[Casa(k)]
        BY <1>2, <1>5, <2>1
    <2>3. Valem[Casa(k)] = entrada[Numero(f[Casa(k)])]
        BY <1>3, <1>4, <2>1
    <2>4. entrada[t[k]] = Repartidos[t[k]]
        BY <1>2, <1>7
    <2>. QED
        BY <1>6, <2>2, <2>3, <2>4
<1>10. Reordena(Repartidos, Fatias, t)
    BY <1>2, <1>7, <1>8, <1>9 DEF Reordena
<1>. QED
    BY <1>10

LEMMA FatiasCrescem ==
    ASSUME Tipos, Cheios, \A p \in Processo : Cresce(buffer[p]),
           \A p \in Processo : p # REMAINING_PHASE =>
              \A j \in 1 .. c : buffer[p][task_size + j] = buffer[p + 1][j]
    PROVE  Ordenado(Fatias)
<1>. DEFINE n == np * task_size
<1>0. Medidas
    BY DEF Tipos
<1>1. /\ n \in Nat
      /\ \A k \in 1 .. n : Casa(k) \in Casas /\ Numero(Casa(k)) = k
      /\ \A x \in Casas : Numero(x) \in 1 .. n /\ Casa(Numero(x)) = x
    BY <1>0, Posicoes
<1>2. /\ Fatias \in Seq(Int) /\ Len(Fatias) = n
      /\ \A k \in 1 .. n : Fatias[k] = buffer[Casa(k)[1]][Casa(k)[2]]
    BY FatiasVetor
<1>3. /\ c \in Nat /\ c >= 1 /\ task_size \in Nat /\ task_size >= 1
      /\ \A p \in Processo : /\ Largura(p) \in Nat /\ task_size <= Largura(p)
                             /\ p # REMAINING_PHASE => Largura(p) = task_size + c
                             /\ Len(buffer[p]) = Largura(p)
    BY <1>0, Tamanhos DEF Cheios
<1>. HIDE DEF n
<1>4. ASSUME NEW k \in 1 .. n, k > 1 PROVE Fatias[k - 1] <= Fatias[k]
    <2>1. PICK q \in Processo, j \in 1 .. task_size : Casa(k) = <<q, j>>
        BY <1>1, <1>4 DEF Casas
    <2>2. k = task_size * q + j /\ Fatias[k] = buffer[q][j]
        BY <1>1, <1>2, <1>4, <2>1 DEF Numero
    <2>3. CASE j > 1
        <3>1. <<q, j - 1>> \in Casas
            BY <1>3, <2>3 DEF Casas
        <3>2. task_size * q \in Nat
            BY <1>3, Lugares
        <3>3. Numero(<<q, j - 1>>) = k - 1
            <4>1. Numero(<<q, j - 1>>) = task_size * q + (j - 1)
                BY DEF Numero
            <4>. DEFINE e == task_size * q
            <4>. HIDE DEF e
            <4>. QED
                BY <2>2, <3>2, <4>1 DEF e
        <3>4. k - 1 \in 1 .. n
            BY <1>1, <1>4
        <3>5. Casa(k - 1) = <<q, j - 1>>
            BY <1>1, <3>1, <3>3
        <3>6. Fatias[k - 1] = buffer[q][j - 1]
            BY <1>2, <3>4, <3>5
        <3>7. j - 1 \in 1 .. Len(buffer[q]) - 1 /\ (j - 1) + 1 = j
            BY <1>3, <2>3
        <3>. QED
            BY <2>2, <3>6, <3>7 DEF Cresce
    <2>4. CASE ~ (j > 1)
        <3>0. j = 1
            BY <1>3, <2>4
        <3>1. q # 0
            <4>1. task_size * 0 = 0
                BY <1>3
            <4>. QED
                BY <1>4, <2>2, <3>0, <4>1
        <3>2. PICK p \in Processo : p # REMAINING_PHASE /\ q = p + 1
            <4>1. q - 1 \in Processo /\ q - 1 # REMAINING_PHASE /\ q = (q - 1) + 1
                BY <3>1, Numeros DEF FIRST_PHASE
            <4>. QED
                BY <4>1
        <3>3. task_size * q = task_size * p + task_size /\ task_size * p \in Nat
            BY <1>3, <3>2, Lugares
        <3>4. <<p, task_size>> \in Casas
            BY <1>3 DEF Casas
        <3>5. Numero(<<p, task_size>>) = k - 1
            <4>1. Numero(<<p, task_size>>) = task_size * p + task_size
                BY DEF Numero
            <4>. DEFINE e == task_size * p
                        f == task_size * q
            <4>. HIDE DEF e, f
            <4>. QED
                BY <1>3, <2>2, <3>0, <3>3, <4>1 DEF e, f
        <3>6. k - 1 \in 1 .. n
            BY <1>1, <1>4
        <3>7. Casa(k - 1) = <<p, task_size>>
            BY <1>1, <3>4, <3>5
        <3>8. Fatias[k - 1] = buffer[p][task_size]
            BY <1>2, <3>6, <3>7
        <3>9. buffer[p][task_size + 1] = buffer[q][1]
            <4>1. 1 \in 1 .. c
                BY <1>3
            <4>. QED
                BY <3>2, <4>1
        <3>10. task_size \in 1 .. Len(buffer[p]) - 1
            BY <1>3, <3>2
        <3>. QED
            BY <2>2, <3>0, <3>8, <3>9, <3>10 DEF Cresce
    <2>. QED
        BY <2>3, <2>4
<1>. QED
    BY <1>2, <1>4 DEF Ordenado

-----------------------------------------------------------------------------
(***************************************************************************)
(* Out of the loop: the token has come as far as n, and the processes      *)
(* before it have printed.                                                 *)
(***************************************************************************)
Saiu(n) ==
    /\ \A p \in Processo : p >= n => fase[p] = "imprimir"
    /\ \A p \in Processo : p < n => fase[p] = "fim"
                                    \/ (fase[p] = "tempo" /\ p \in {FIRST_PHASE, REMAINING_PHASE})
    /\ fase[REMAINING_PHASE] = "fim" => fase[FIRST_PHASE] = "fim"

ComFicha(n, p, q) == q = n /\ p + 1 = n
ComTempo(p, q) ==
    p = FIRST_PHASE /\ q = REMAINING_PHASE /\ fase[p] = "fim" /\ fase[q] # "fim"
Sinais(n) ==
    \A p, q \in Processo :
        canal[p][q] = IF ComFicha(n, p, q)
                      THEN IF ComTempo(p, q) THEN <<FIM, TEMPO>> ELSE <<FIM>>
                      ELSE IF ComTempo(p, q) THEN <<TEMPO>> ELSE <<>>

Ficha(n) == Saiu(n) /\ Sinais(n) /\ saida = SubSeq(Fatias, 1, task_size * n)

Saindo ==
    /\ Cheios /\ Fatias = EmOrdem(Repartidos)
    /\ \E n \in 0 .. np : Ficha(n)

\* Steps that print nothing else and change no buffer leave the rest as it is.
Guardado == Constante /\ folga' = folga /\ ponto' = ponto /\ buffer' = buffer /\ sorted' = sorted

LEMMA FatiasIguais ==
    ASSUME Constante, buffer' = buffer
    PROVE  Fatias' = Fatias
BY Constantes DEF Fatias

LEMMA GuardadoFatias ==
    ASSUME Tipos, Cheios, Guardado
    PROVE  /\ Cheios' /\ Fatias' = Fatias /\ Repartidos' = Repartidos /\ task_size' = task_size
           /\ (/\ canal' \in Canais /\ saida' \in Seq(Int)
               /\ fase' \in [Processo -> {"distribuir", "laco", "imprimir", "tempo", "fim"}]) => Tipos'
<1>1. Constante /\ buffer' = buffer
    BY DEF Guardado
<1>2. /\ task_size' = task_size /\ (Medidas => Medidas') /\ Repartidos' = Repartidos
      /\ \A p : Largura(p)' = Largura(p)
    BY <1>1, Constantes
<1>3. Cheios'
    BY <1>1, <1>2 DEF Cheios
<1>4. Fatias' = Fatias
    BY <1>1, FatiasIguais
<1>5. ASSUME canal' \in Canais, saida' \in Seq(Int),
             fase' \in [Processo -> {"distribuir", "laco", "imprimir", "tempo", "fim"}]
      PROVE  Tipos'
    <2>1. Medidas'
        BY <1>2 DEF Tipos
    <2>. QED
        BY <1>5, <2>1 DEF Tipos, Guardado, Canais
<1>. QED
    BY <1>2, <1>3, <1>4, <1>5

\* The reduction says that all had nothing to change: the vector is in order.
LEMMA ReduzirSaindo ==
    ASSUME Tipos, Rodando, Reduzir, Prontos
    PROVE  Tipos' /\ Saindo'
<1>1. /\ Pontos /\ Cheios /\ saida = <<>> /\ MesmoTrecho /\ Correio /\ Causa
      /\ Concordam /\ Ordenados /\ Valores
    BY DEF Rodando
<1>2. /\ fase' = [p \in Processo |-> "imprimir"] /\ ponto' = [p \in Processo |-> Seguinte(p)]
      /\ canal' = canal /\ folga' = folga /\ Constante /\ buffer' = buffer /\ sorted' = sorted
      /\ saida' = saida
    BY DEF Reduzir, Constante
<1>3. NaReducao
    BY <1>1, Nomes DEF Reduzir, Em, NaReducao
<1>4. \A p \in Processo : Cresce(buffer[p]) /\ p % 2 \in {0, 1}
    BY <1>1, <1>3, Numeros DEF Prontos, NaReducao, Ordenados, Ordenou
<1>5. \A e, o \in Processo : e % 2 = 0 /\ o % 2 = 1 /\ Vizinhos(e, o) => Devem(e, o)
    BY <1>3 DEF Prontos, NaReducao, Devem
<1>6. /\ \A p \in Processo : p # REMAINING_PHASE =>
            \A j \in 1 .. c : buffer[p][task_size + j] = buffer[p + 1][j]
      /\ \A q \in Processo : \A j \in 1 .. task_size : Vale(q, j) = buffer[q][j]
    BY <1>1, <1>5, TodosConcordam
<1>7. Ordenado(Fatias)
    BY <1>1, <1>4, <1>6, FatiasCrescem
<1>8. PICK t : Reordena(Repartidos, Fatias, t)
    BY <1>1, <1>6, FatiasReordenam
<1>9. Fatias = EmOrdem(Repartidos)
    BY <1>7, <1>8, OrdenadaUnica
<1>10. ASSUME NEW x \in Processo, NEW y \in Processo PROVE canal[x][y] = <<>>
    <2>1. ~ Viaja(x, y)
        <3>. SUFFICES ASSUME Viaja(x, y) PROVE FALSE
            OBVIOUS
        <3>1. Vizinhos(x, y) /\ 5 > Envia(x, y) /\ 5 <= Recebe(y, x)
            BY <1>3 DEF Viaja, NaReducao
        <3>2. x % 2 \in {0, 1} /\ y % 2 \in {0, 1} /\ (x % 2 = 0 <=> y % 2 = 1)
            BY <3>1, Lados
        <3>. QED
            BY <3>1, <3>2 DEF Envia, Recebe
    <2>. QED
        BY <1>1, <2>1 DEF Correio
<1>11. Cheios' /\ Fatias' = Fatias /\ Repartidos' = Repartidos /\ Medidas' /\ task_size' = task_size
    <2>1. \A p : Largura(p)' = Largura(p)
        BY <1>2, Constantes
    <2>. QED
        BY <1>1, <1>2, <2>1, Constantes, FatiasIguais DEF Cheios, Tipos
<1>12. Tipos'
    <2>1. ASSUME NEW p \in Processo PROVE Seguinte(p) \in Nat
        <3>1. Seguinte(p) \in DOMAIN Roteiro(p) /\ Passos(p) \in Nat
            BY <1>1, Formas DEF Pontos, Passos
        <3>. QED
            BY <3>1, Formas
    <2>. QED
        BY <1>2, <1>11, <2>1 DEF Tipos
<1>13. Ficha(0)'
    <2>1. /\ \A p \in Processo : fase'[p] = "imprimir" /\ p >= 0 /\ ~ (p < 0) /\ p + 1 # 0
          /\ REMAINING_PHASE \in Processo
        BY <1>2, Numeros
    <2>2. Saiu(0)'
        BY <2>1 DEF Saiu, REMAINING_PHASE
    <2>3. Sinais(0)'
        BY <1>2, <1>10, <2>1 DEF Sinais, ComFicha, ComTempo
    <2>4. saida' = SubSeq(Fatias', 1, task_size' * 0)
        <3>1. task_size * 0 = 0 /\ Fatias \in Seq(Int)
            BY <1>1, FatiasVetor, Tamanhos DEF Tipos
        <3>2. SubSeq(Fatias, 1, 0) = <<>>
            BY <3>1
        <3>. QED
            BY <1>1, <1>2, <1>11, <3>1, <3>2
    <2>. QED
        BY <2>2, <2>3, <2>4 DEF Ficha
<1>14. Fatias' = EmOrdem(Repartidos')
    BY <1>9, <1>11
<1>15. 0 \in 0 .. np
    BY Numeros
<1>. QED
    BY <1>11, <1>12, <1>13, <1>14, <1>15 DEF Saindo, EmOrdem, NoLugar, Menores, AteValor

LEMMA Juncao ==
    ASSUME NEW x \in Seq(Int), NEW y \in Seq(Int)
    PROVE  /\ x \o y \in Seq(Int) /\ Len(x \o y) = Len(x) + Len(y)
           /\ \A k \in 1 .. Len(x) : (x \o y)[k] = x[k]
           /\ \A k \in 1 .. Len(x) + Len(y) : ~ (k <= Len(x)) => (x \o y)[k] = y[k - Len(x)]
OBVIOUS

LEMMA Emenda ==
    ASSUME NEW f \in Seq(Int), NEW g \in Seq(Int), NEW a \in Nat, NEW t \in Nat,
           a + t <= Len(f), t <= Len(g), \A j \in 1 .. t : f[a + j] = g[j]
    PROVE  /\ SubSeq(f, 1, a) \in Seq(Int)
           /\ SubSeq(f, 1, a) \o SubSeq(g, 1, t) = SubSeq(f, 1, a + t)
           /\ SubSeq(f, 1, a + t) \in Seq(Int)
<1>. DEFINE x == SubSeq(f, 1, a)
            y == SubSeq(g, 1, t)
            z == SubSeq(f, 1, a + t)
<1>1. x \in Seq(Int) /\ Len(x) = a /\ \A k \in 1 .. a : x[k] = f[k]
    OBVIOUS
<1>2. y \in Seq(Int) /\ Len(y) = t /\ \A k \in 1 .. t : y[k] = g[k]
    OBVIOUS
<1>3. z \in Seq(Int) /\ Len(z) = a + t /\ \A k \in 1 .. a + t : z[k] = f[k]
    OBVIOUS
<1>. HIDE DEF x, y, z
<1>4. /\ x \o y \in Seq(Int) /\ Len(x \o y) = a + t
      /\ \A k \in 1 .. a : (x \o y)[k] = x[k]
      /\ \A k \in 1 .. a + t : ~ (k <= a) => (x \o y)[k] = y[k - a]
    BY <1>1, <1>2, Juncao
<1>5. ASSUME NEW k \in 1 .. a + t PROVE (x \o y)[k] = z[k]
    <2>1. CASE k <= a
        <3>1. k \in 1 .. a
            BY <2>1
        <3>2. (x \o y)[k] = x[k] /\ x[k] = f[k] /\ z[k] = f[k]
            BY <1>1, <1>3, <1>4, <3>1
        <3>. QED
            BY <3>2
    <2>2. CASE ~ (k <= a)
        <3>1. k - a \in 1 .. t /\ a + (k - a) = k
            BY <2>2
        <3>2. (x \o y)[k] = y[k - a]
            BY <1>4, <2>2
        <3>3. y[k - a] = f[a + (k - a)]
            BY <1>2, <3>1
        <3>. QED
            BY <1>3, <3>1, <3>2, <3>3
    <2>. QED
        BY <2>1, <2>2
<1>6. x \o y = z
    BY <1>3, <1>4, <1>5, Mesmas
<1>. QED
    BY <1>1, <1>3, <1>6 DEF x, y, z

LEMMA MaisUma ==
    ASSUME Tipos, Cheios, NEW p \in Processo
    PROVE  /\ SubSeq(Fatias, 1, task_size * p) \o SubSeq(buffer[p], 1, task_size)
                = SubSeq(Fatias, 1, task_size * (p + 1))
           /\ SubSeq(Fatias, 1, task_size * (p + 1)) \in Seq(Int)
<1>. DEFINE t == task_size
            a == t * p
            n == np * t
<1>0. Medidas
    BY DEF Tipos
<1>1. t \in Nat /\ t <= Len(buffer[p]) /\ buffer[p] \in Seq(Int)
    BY <1>0, Tamanhos DEF Tipos, Cheios
<1>2. a \in Nat /\ a + t <= n /\ t * (p + 1) = a + t
    <2>. HIDE DEF t
    <2>. QED
        BY <1>1, Lugares
<1>3. /\ Fatias \in Seq(Int) /\ Len(Fatias) = n
      /\ \A k \in 1 .. n : Fatias[k] = buffer[Casa(k)[1]][Casa(k)[2]]
    BY FatiasVetor
<1>4. ASSUME NEW j \in 1 .. t PROVE Fatias[a + j] = buffer[p][j]
    <2>1. <<p, j>> \in Casas
        BY <1>4 DEF Casas
    <2>2. Numero(<<p, j>>) = a + j
        BY DEF Numero
    <2>3. a + j \in 1 .. n /\ Casa(a + j) = <<p, j>>
        BY <1>0, <2>1, <2>2, Posicoes
    <2>. QED
        <3>. HIDE DEF a, n
        <3>. QED
            BY <1>3, <2>3
<1>. HIDE DEF a, n, t
<1>5. /\ SubSeq(Fatias, 1, a) \o SubSeq(buffer[p], 1, t) = SubSeq(Fatias, 1, a + t)
      /\ SubSeq(Fatias, 1, a + t) \in Seq(Int)
    BY <1>1, <1>2, <1>3, <1>4, Emenda
<1>. QED
    BY <1>2, <1>5 DEF a, t

LEMMA SaindoFases ==
    ASSUME NEW n, Saiu(n), n \in 0 .. np
    PROVE  /\ \A p \in Processo : fase[p] \in {"imprimir", "tempo", "fim"}
           /\ \A p \in Processo : fase[p] = "imprimir" <=> p >= n
           /\ \A p \in Processo : fase[p] = "tempo" => p \in {FIRST_PHASE, REMAINING_PHASE}
           /\ n \in Int
<1>1. n \in Int /\ \A p \in Processo : p \in Int
    BY Numeros
<1>. QED
    BY <1>1 DEF Saiu

\* Who prints is the one the token has come to.
LEMMA ImprimirVez ==
    ASSUME NEW p \in Processo, Imprimir(p), NEW n, n \in 0 .. np, Saiu(n), Sinais(n)
    PROVE  n = p /\ (p # FIRST_PHASE => /\ p - 1 \in Processo /\ ComFicha(n, p - 1, p)
                                        /\ Head(canal[p - 1][p]) = FIM)
<1>1. fase[p] = "imprimir" /\ (p # FIRST_PHASE => canal[p - 1][p] # <<>>)
    BY DEF Imprimir, Chegou
<1>2. p >= n /\ n \in Int /\ n >= 0 /\ p \in Int
    BY <1>1, SaindoFases, Numeros
<1>3. CASE p = FIRST_PHASE
    BY <1>2, <1>3, Numeros
<1>4. CASE p # FIRST_PHASE
    <2>1. p - 1 \in Processo
        BY <1>4, Numeros
    <2>2. ComFicha(n, p - 1, p) \/ ComTempo(p - 1, p)
        BY <1>1, <1>4, <2>1 DEF Sinais
    <2>3. ComTempo(p - 1, p) => ~ (p - 1 >= n)
        BY <2>1, SaindoFases DEF ComTempo
    <2>4. n = p
        BY <1>2, <2>1, <2>2, <2>3 DEF ComFicha
    <2>5. ComFicha(n, p - 1, p)
        BY <1>2, <2>4 DEF ComFicha
    <2>6. Head(canal[p - 1][p]) = FIM
        BY <2>1, <2>5 DEF Sinais
    <2>. QED
        BY <2>1, <2>4, <2>5, <2>6
<1>. QED
    BY <1>3, <1>4

LEMMA ImprimirEfeito ==
    ASSUME NEW p \in Processo, Imprimir(p), p # FIRST_PHASE => Head(canal[p - 1][p]) = FIM
    PROVE  /\ Guardado /\ saida' = saida \o SubSeq(buffer[p], 1, task_size)
           /\ fase' = [fase EXCEPT ![p] = IF p \in {FIRST_PHASE, REMAINING_PHASE} THEN "tempo" ELSE "fim"]
           /\ p = FIRST_PHASE => canal' = MPI_Send(canal, p, p + 1, FIM)
           /\ p \notin {FIRST_PHASE, REMAINING_PHASE} =>
                 canal' = MPI_Send(MPI_Recv(canal, p - 1, p), p, p + 1, FIM)
           /\ p = REMAINING_PHASE => canal' = MPI_Recv(canal, p - 1, p)
<1>1. FIM[1] # 0
    BY DEF FIM
<1>2. FIRST_PHASE # REMAINING_PHASE
    BY Numeros
<1>3. Guardado
    BY DEF Imprimir, Guardado, Constante
<1>4. CASE p = FIRST_PHASE
    BY <1>1, <1>2, <1>3, <1>4 DEF Imprimir
<1>5. CASE p # FIRST_PHASE
    <2>1. Head(canal[p - 1][p])[1] # 0
        BY <1>1, <1>5
    <2>2. saida' = saida \o SubSeq(buffer[p], 1, task_size)
        BY <1>5, <2>1 DEF Imprimir
    <2>3. canal' = IF p # REMAINING_PHASE THEN MPI_Send(MPI_Recv(canal, p - 1, p), p, p + 1, FIM)
                   ELSE MPI_Recv(canal, p - 1, p)
        BY <1>5, <2>1 DEF Imprimir
    <2>4. fase' = [fase EXCEPT ![p] = IF p \in {FIRST_PHASE, REMAINING_PHASE} THEN "tempo" ELSE "fim"]
        BY <1>5, <2>1 DEF Imprimir
    <2>. QED
        BY <1>3, <1>5, <2>2, <2>3, <2>4
<1>. QED
    BY <1>4, <1>5

LEMMA Enviado ==
    ASSUME NEW m \in Canais, NEW p \in Processo, NEW q \in Processo, NEW s \in Seq(Int)
    PROVE  /\ MPI_Send(m, p, q, s) \in Canais /\ MPI_Send(m, p, q, s)[p][q] = Append(m[p][q], s)
           /\ \A x, y \in Processo : x # p \/ y # q => MPI_Send(m, p, q, s)[x][y] = m[x][y]
<1>1. Append(m[p][q], s) \in Seq(Seq(Int))
    BY DEF Canais
<1>. QED
    BY <1>1 DEF MPI_Send, Canais

LEMMA Recebido ==
    ASSUME NEW m \in Canais, NEW p \in Processo, NEW q \in Processo, m[p][q] # <<>>
    PROVE  /\ MPI_Recv(m, p, q) \in Canais /\ MPI_Recv(m, p, q)[p][q] = Tail(m[p][q])
           /\ \A x, y \in Processo : x # p \/ y # q => MPI_Recv(m, p, q)[x][y] = m[x][y]
<1>1. Tail(m[p][q]) \in Seq(Seq(Int))
    BY DEF Canais
<1>. QED
    BY <1>1 DEF MPI_Recv, Canais

LEMMA Filas ==
    ASSUME NEW S, NEW f \in S, NEW t \in S
    PROVE  /\ Tail(<<f, t>>) = <<t>> /\ Tail(<<f>>) = <<>>
           /\ Append(<<f>>, t) = <<f, t>> /\ Append(<<>>, t) = <<t>>
           /\ <<f>> # <<>> /\ <<f, t>> # <<>>
<1>1. Tail(<<f, t>>) = <<t>>
    OBVIOUS
<1>2. Tail(<<f>>) = <<>>
    OBVIOUS
<1>3. Append(<<f>>, t) = <<f, t>>
    <2>. DEFINE x == Append(<<f>>, t)
    <2>1. <<f>> \in Seq(S) /\ Len(<<f>>) = 1 /\ <<f>>[1] = f
        OBVIOUS
    <2>2. x \in Seq(S) /\ Len(x) = 2 /\ x[1] = f /\ x[2] = t
        BY <2>1
    <2>. HIDE DEF x
    <2>3. x = <<f, t>>
        BY <2>2
    <2>. QED
        BY <2>3 DEF x
<1>4. Append(<<>>, t) = <<t>>
    OBVIOUS
<1>5. <<f>> # <<>> /\ <<f, t>> # <<>>
    OBVIOUS
<1>. QED
    BY <1>1, <1>2, <1>3, <1>4, <1>5

LEMMA Sinaleiras ==
    /\ FIM \in Seq(Int) /\ TEMPO \in Seq(Int)
    /\ Tail(<<FIM, TEMPO>>) = <<TEMPO>> /\ Tail(<<FIM>>) = <<>> /\ Tail(<<TEMPO>>) = <<>>
    /\ Append(<<FIM>>, TEMPO) = <<FIM, TEMPO>>
    /\ Append(<<>>, TEMPO) = <<TEMPO>> /\ Append(<<>>, FIM) = <<FIM>>
    /\ <<FIM>> # <<>> /\ <<FIM, TEMPO>> # <<>> /\ <<TEMPO>> # <<>>
<1>1. FIM \in Seq(Int) /\ TEMPO \in Seq(Int)
    BY DEF FIM, TEMPO
<1>. QED
    BY <1>1, Filas

LEMMA ImprimirSaindo ==
    ASSUME Tipos, Saindo, NEW p \in Processo, Imprimir(p)
    PROVE  Tipos' /\ Saindo'
<1>1. PICK n \in 0 .. np : Saiu(n) /\ Sinais(n) /\ saida = SubSeq(Fatias, 1, task_size * n)
    BY DEF Saindo, Ficha
<1>2. Cheios /\ Fatias = EmOrdem(Repartidos)
    BY DEF Saindo
<1>3. n = p /\ (p # FIRST_PHASE => /\ p - 1 \in Processo /\ ComFicha(n, p - 1, p)
                                   /\ Head(canal[p - 1][p]) = FIM)
    BY <1>1, ImprimirVez
<1>4. /\ Guardado /\ saida' = saida \o SubSeq(buffer[p], 1, task_size)
      /\ fase' = [fase EXCEPT ![p] = IF p \in {FIRST_PHASE, REMAINING_PHASE} THEN "tempo" ELSE "fim"]
      /\ p = FIRST_PHASE => canal' = MPI_Send(canal, p, p + 1, FIM)
      /\ p \notin {FIRST_PHASE, REMAINING_PHASE} =>
            canal' = MPI_Send(MPI_Recv(canal, p - 1, p), p, p + 1, FIM)
      /\ p = REMAINING_PHASE => canal' = MPI_Recv(canal, p - 1, p)
    BY <1>3, ImprimirEfeito
<1>5. /\ fase \in [Processo -> {"distribuir", "laco", "imprimir", "tempo", "fim"}]
      /\ canal \in Canais
    BY DEF Tipos, Canais
<1>6. /\ fase' \in [Processo -> {"distribuir", "laco", "imprimir", "tempo", "fim"}]
      /\ fase'[p] = (IF p \in {FIRST_PHASE, REMAINING_PHASE} THEN "tempo" ELSE "fim")
      /\ \A x \in Processo : x # p => fase'[x] = fase[x]
    BY <1>4, <1>5
<1>7. /\ \A x \in Processo : fase[x] \in {"imprimir", "tempo", "fim"}
      /\ \A x \in Processo : fase[x] = "imprimir" <=> x >= p
      /\ p \in Int
    BY <1>1, <1>3, SaindoFases
<1>8. /\ FIRST_PHASE # REMAINING_PHASE /\ FIRST_PHASE \in Processo /\ REMAINING_PHASE \in Processo
      /\ \A x \in Processo : x \in Int /\ 0 <= x /\ x < np
      /\ p # REMAINING_PHASE => p + 1 \in Processo
      /\ FIRST_PHASE = 0 /\ REMAINING_PHASE = np - 1 /\ np \in Nat
    BY Numeros
<1>9. \A x, y \in Processo : ComTempo(x, y)' <=> ComTempo(x, y)
    <2>1. CASE p = FIRST_PHASE
        BY <1>6, <1>7, <1>8, <2>1 DEF ComTempo, FIRST_PHASE, REMAINING_PHASE
    <2>2. CASE p = REMAINING_PHASE
        BY <1>6, <1>7, <1>8, <2>2 DEF ComTempo, FIRST_PHASE, REMAINING_PHASE
    <2>3. CASE p \notin {FIRST_PHASE, REMAINING_PHASE}
        BY <1>6, <1>8, <2>3 DEF ComTempo, FIRST_PHASE, REMAINING_PHASE
    <2>. QED
        BY <2>1, <2>2, <2>3
<1>10. p # REMAINING_PHASE => canal[p][p + 1] = <<>> /\ ~ ComTempo(p, p + 1) /\ p + 1 \in Processo
    BY <1>1, <1>3, <1>7, <1>8 DEF Sinais, ComFicha, ComTempo
<1>11. p # FIRST_PHASE => /\ canal[p - 1][p] = IF ComTempo(p - 1, p) THEN <<FIM, TEMPO>> ELSE <<FIM>>
                          /\ p - 1 \in Processo
    BY <1>1, <1>3 DEF Sinais
<1>12. p # FIRST_PHASE => canal[p - 1][p] # <<>>
                          /\ Tail(canal[p - 1][p]) = IF ComTempo(p - 1, p) THEN <<TEMPO>> ELSE <<>>
    BY <1>11, Sinaleiras
<1>13. /\ canal' \in Canais
       /\ p # REMAINING_PHASE => canal'[p][p + 1] = <<FIM>>
       /\ p # FIRST_PHASE => canal'[p - 1][p] = Tail(canal[p - 1][p])
       /\ \A x, y \in Processo : ~ (x = p /\ y = p + 1) /\ ~ (x = p - 1 /\ y = p) => canal'[x][y] = canal[x][y]
    <2>1. CASE p = FIRST_PHASE
        <3>1. canal' = MPI_Send(canal, p, p + 1, FIM) /\ p # REMAINING_PHASE /\ p + 1 \in Processo
            BY <1>4, <1>8, <2>1
        <3>2. /\ canal' \in Canais /\ canal'[p][p + 1] = Append(canal[p][p + 1], FIM)
              /\ \A x, y \in Processo : x # p \/ y # p + 1 => canal'[x][y] = canal[x][y]
            <4>1. PICK q \in Processo : q = p + 1
                BY <3>1
            <4>2. PICK s \in Seq(Int) : s = FIM
                BY Sinaleiras
            <4>3. canal' = MPI_Send(canal, p, q, s)
                BY <3>1, <4>1, <4>2
            <4>4. /\ MPI_Send(canal, p, q, s) \in Canais
                  /\ MPI_Send(canal, p, q, s)[p][q] = Append(canal[p][q], s)
                  /\ \A x, y \in Processo : x # p \/ y # q => MPI_Send(canal, p, q, s)[x][y] = canal[x][y]
                <5>1. canal \in Canais
                    BY <1>5
                <5>. QED
                    BY ONLY <5>1, p \in Processo, q \in Processo, s \in Seq(Int), Enviado
            <4>. QED
                BY <4>1, <4>2, <4>3, <4>4
        <3>. QED
            BY <1>10, <2>1, <3>1, <3>2, Sinaleiras
    <2>2. CASE p = REMAINING_PHASE
        <3>1. canal' = MPI_Recv(canal, p - 1, p) /\ p # FIRST_PHASE /\ p - 1 \in Processo
              /\ p + 1 \notin Processo
            BY <1>3, <1>4, <1>8, <2>2
        <3>. QED
            BY <1>5, <1>12, <2>2, <3>1, Recebido
    <2>3. CASE p \notin {FIRST_PHASE, REMAINING_PHASE}
        <3>. DEFINE d == MPI_Recv(canal, p - 1, p)
        <3>1. canal' = MPI_Send(d, p, p + 1, FIM) /\ p + 1 \in Processo /\ p - 1 \in Processo
            BY <1>3, <1>4, <1>8, <2>3
        <3>2. /\ d \in Canais /\ d[p - 1][p] = Tail(canal[p - 1][p])
              /\ \A x, y \in Processo : x # p - 1 \/ y # p => d[x][y] = canal[x][y]
            BY <1>5, <1>12, <2>3, <3>1, Recebido
        <3>. HIDE DEF d
        <3>3. p + 1 # p /\ p - 1 # p /\ d[p][p + 1] = <<>>
            BY <1>7, <1>10, <2>3, <3>1, <3>2
        <3>4. /\ canal' \in Canais /\ canal'[p][p + 1] = Append(d[p][p + 1], FIM)
              /\ \A x, y \in Processo : x # p \/ y # p + 1 => canal'[x][y] = d[x][y]
            <4>1. PICK q \in Processo : q = p + 1
                BY <3>1
            <4>2. PICK s \in Seq(Int) : s = FIM
                BY Sinaleiras
            <4>3. canal' = MPI_Send(d, p, q, s)
                BY <3>1, <4>1, <4>2
            <4>4. /\ MPI_Send(d, p, q, s) \in Canais
                  /\ MPI_Send(d, p, q, s)[p][q] = Append(d[p][q], s)
                  /\ \A x, y \in Processo : x # p \/ y # q => MPI_Send(d, p, q, s)[x][y] = d[x][y]
                <5>1. d \in Canais
                    BY <3>2
                <5>. QED
                    BY ONLY <5>1, p \in Processo, q \in Processo, s \in Seq(Int), Enviado
            <4>. QED
                BY <4>1, <4>2, <4>3, <4>4
        <3>. QED
            BY <3>1, <3>2, <3>3, <3>4, Sinaleiras
    <2>. QED
        BY <2>1, <2>2, <2>3
<1>14. Sinais(p + 1)'
    <2>. SUFFICES ASSUME NEW x \in Processo, NEW y \in Processo
                  PROVE  canal'[x][y] = IF ComFicha(p + 1, x, y)
                                        THEN IF ComTempo(x, y)' THEN <<FIM, TEMPO>> ELSE <<FIM>>
                                        ELSE IF ComTempo(x, y)' THEN <<TEMPO>> ELSE <<>>
        BY DEF Sinais, ComFicha, FIM, TEMPO
    <2>1. ComFicha(p + 1, x, y) <=> y = p + 1 /\ x = p
        BY <1>7, <1>8 DEF ComFicha
    <2>2. ComFicha(p, x, y) <=> y = p /\ x = p - 1
        BY <1>7, <1>8 DEF ComFicha
    <2>3. CASE x = p /\ y = p + 1
        <3>1. p # REMAINING_PHASE
            BY <1>8, <2>3
        <3>. QED
            BY <1>9, <1>10, <1>13, <2>1, <2>3, <3>1
    <2>4. CASE x = p - 1 /\ y = p
        <3>1. p # FIRST_PHASE /\ p # p + 1
            BY <1>7, <1>8, <2>4
        <3>. QED
            BY <1>9, <1>12, <1>13, <2>1, <2>4, <3>1
    <2>5. CASE ~ (x = p /\ y = p + 1) /\ ~ (x = p - 1 /\ y = p)
        <3>1. canal'[x][y] = canal[x][y]
            BY <1>13, <2>5
        <3>2. canal[x][y] = IF ComTempo(x, y) THEN <<TEMPO>> ELSE <<>>
            BY <1>1, <1>3, <2>2, <2>5 DEF Sinais
        <3>. QED
            BY <1>9, <2>1, <2>5, <3>1, <3>2
    <2>. QED
        BY <2>3, <2>4, <2>5
<1>15. Saiu(p + 1)'
    <2>1. \A x \in Processo : x >= p + 1 => fase'[x] = "imprimir"
        BY <1>6, <1>7, <1>8
    <2>2. \A x \in Processo : x < p + 1 =>
             fase'[x] = "fim" \/ (fase'[x] = "tempo" /\ x \in {FIRST_PHASE, REMAINING_PHASE})
        <3>. SUFFICES ASSUME NEW x \in Processo, x < p + 1
                      PROVE  fase'[x] = "fim"
                             \/ (fase'[x] = "tempo" /\ x \in {FIRST_PHASE, REMAINING_PHASE})
            OBVIOUS
        <3>1. CASE x = p
            BY <1>6, <3>1
        <3>2. CASE x # p
            <4>1. x < p
                BY <1>7, <1>8, <3>2
            <4>. QED
                BY <1>1, <1>3, <1>6, <3>2, <4>1 DEF Saiu
        <3>. QED
            BY <3>1, <3>2
    <2>3. fase'[REMAINING_PHASE] # "fim"
        <3>1. fase[REMAINING_PHASE] = "imprimir"
            BY <1>7, <1>8
        <3>. QED
            BY <1>6, <1>8, <3>1
    <2>. QED
        BY <2>1, <2>2, <2>3 DEF Saiu, FIRST_PHASE, REMAINING_PHASE
<1>16. /\ Cheios' /\ Fatias' = Fatias /\ Repartidos' = Repartidos /\ task_size' = task_size
    BY <1>2, <1>4, GuardadoFatias
<1>17. saida' = SubSeq(Fatias, 1, task_size * (p + 1)) /\ saida' \in Seq(Int)
    BY <1>1, <1>2, <1>3, <1>4, MaisUma
<1>18. Ficha(p + 1)'
    BY <1>14, <1>15, <1>16, <1>17 DEF Ficha
<1>19. Tipos'
    BY <1>2, <1>4, <1>6, <1>13, <1>17, GuardadoFatias
<1>20. p + 1 \in 0 .. np
    BY <1>7, <1>8
<1>21. Fatias' = EmOrdem(Repartidos')
    BY <1>2, <1>16
<1>. QED
    BY <1>16, <1>18, <1>19, <1>20, <1>21 DEF Saindo, EmOrdem, NoLugar, Menores, AteValor

LEMMA EnviarTempoSaindo ==
    ASSUME Tipos, Saindo, EnviarTempo
    PROVE  Tipos' /\ Saindo'
<1>. DEFINE e == FIRST_PHASE
            o == REMAINING_PHASE
<1>1. PICK n \in 0 .. np : Saiu(n) /\ Sinais(n) /\ saida = SubSeq(Fatias, 1, task_size * n)
    BY DEF Saindo, Ficha
<1>2. Cheios /\ Fatias = EmOrdem(Repartidos)
    BY DEF Saindo
<1>3. /\ fase[e] = "tempo" /\ canal' = MPI_Send(canal, e, o, TEMPO)
      /\ fase' = [fase EXCEPT ![e] = "fim"] /\ Guardado /\ saida' = saida
    BY DEF EnviarTempo, Guardado, Constante
<1>4. /\ fase \in [Processo -> {"distribuir", "laco", "imprimir", "tempo", "fim"}]
      /\ canal \in Canais /\ saida \in Seq(Int)
    BY DEF Tipos, Canais
<1>5. e \in Processo /\ o \in Processo /\ e # o
    BY Numeros
<1>6. /\ fase' \in [Processo -> {"distribuir", "laco", "imprimir", "tempo", "fim"}]
      /\ fase'[e] = "fim" /\ \A x \in Processo : x # e => fase'[x] = fase[x]
    BY <1>3, <1>4, <1>5
<1>7. /\ MPI_Send(canal, e, o, TEMPO) \in Canais
      /\ MPI_Send(canal, e, o, TEMPO)[e][o] = Append(canal[e][o], TEMPO)
      /\ \A x, y \in Processo : x # e \/ y # o => MPI_Send(canal, e, o, TEMPO)[x][y] = canal[x][y]
    <2>. HIDE DEF e, o
    <2>1. PICK s \in Seq(Int) : s = TEMPO
        BY Sinaleiras
    <2>2. /\ MPI_Send(canal, e, o, s) \in Canais
          /\ MPI_Send(canal, e, o, s)[e][o] = Append(canal[e][o], s)
          /\ \A x, y \in Processo : x # e \/ y # o => MPI_Send(canal, e, o, s)[x][y] = canal[x][y]
        BY ONLY <1>4, <1>5, s \in Seq(Int), Enviado
    <2>. QED
        BY <2>1, <2>2
<1>8. fase[o] # "fim"
    BY <1>1, <1>3, <1>5 DEF Saiu
<1>9. \A x, y \in Processo : /\ ~ ComTempo(x, y)
                             /\ ComTempo(x, y)' <=> x = e /\ y = o
    BY <1>3, <1>5, <1>6, <1>8 DEF ComTempo, FIRST_PHASE, REMAINING_PHASE
<1>10. canal'[e][o] = IF ComFicha(n, e, o) THEN <<FIM, TEMPO>> ELSE <<TEMPO>>
    BY <1>1, <1>3, <1>5, <1>7, <1>9, Sinaleiras DEF Sinais
<1>11. Sinais(n)'
    <2>. SUFFICES ASSUME NEW x \in Processo, NEW y \in Processo
                  PROVE  canal'[x][y] = IF ComFicha(n, x, y)
                                        THEN IF ComTempo(x, y)' THEN <<FIM, TEMPO>> ELSE <<FIM>>
                                        ELSE IF ComTempo(x, y)' THEN <<TEMPO>> ELSE <<>>
        BY DEF Sinais, ComFicha, FIM, TEMPO
    <2>1. CASE x = e /\ y = o
        BY <1>9, <1>10, <2>1
    <2>2. CASE ~ (x = e /\ y = o)
        BY <1>1, <1>3, <1>7, <1>9, <2>2 DEF Sinais
    <2>. QED
        BY <2>1, <2>2
<1>12. Saiu(n)'
    <2>1. ~ (e >= n)
        BY <1>1, <1>3, <1>5, SaindoFases
    <2>2. \A x \in Processo : x >= n => fase'[x] = "imprimir"
        BY <1>1, <1>6, <2>1 DEF Saiu
    <2>3. \A x \in Processo : x < n => fase'[x] = "fim" \/ (fase'[x] = "tempo" /\ x \in {e, o})
        BY <1>1, <1>6 DEF Saiu
    <2>. QED
        BY <1>6, <2>2, <2>3 DEF Saiu, FIRST_PHASE, REMAINING_PHASE
<1>13. Cheios' /\ Fatias' = Fatias /\ Repartidos' = Repartidos /\ task_size' = task_size /\ Tipos'
    BY <1>2, <1>3, <1>4, <1>6, <1>7, GuardadoFatias
<1>14. Ficha(n)'
    BY <1>1, <1>3, <1>11, <1>12, <1>13 DEF Ficha
<1>15. Fatias' = EmOrdem(Repartidos')
    BY <1>2, <1>13
<1>. QED
    BY <1>13, <1>14, <1>15 DEF Saindo, EmOrdem, NoLugar, Menores, AteValor

LEMMA ReceberTempoSaindo ==
    ASSUME Tipos, Saindo, ReceberTempo
    PROVE  Tipos' /\ Saindo'
<1>. DEFINE e == FIRST_PHASE
            o == REMAINING_PHASE
<1>1. PICK n \in 0 .. np : Saiu(n) /\ Sinais(n) /\ saida = SubSeq(Fatias, 1, task_size * n)
    BY DEF Saindo, Ficha
<1>2. Cheios /\ Fatias = EmOrdem(Repartidos)
    BY DEF Saindo
<1>3. /\ fase[o] = "tempo" /\ canal[e][o] # <<>> /\ canal' = MPI_Recv(canal, e, o)
      /\ fase' = [fase EXCEPT ![o] = "fim"] /\ Guardado /\ saida' = saida
    BY DEF ReceberTempo, Guardado, Constante, Chegou
<1>4. /\ fase \in [Processo -> {"distribuir", "laco", "imprimir", "tempo", "fim"}]
      /\ canal \in Canais /\ saida \in Seq(Int)
    BY DEF Tipos, Canais
<1>5. e \in Processo /\ o \in Processo /\ e # o
    BY Numeros
<1>6. /\ fase' \in [Processo -> {"distribuir", "laco", "imprimir", "tempo", "fim"}]
      /\ fase'[o] = "fim" /\ \A x \in Processo : x # o => fase'[x] = fase[x]
    BY <1>3, <1>4, <1>5
<1>7. /\ canal' \in Canais /\ canal'[e][o] = Tail(canal[e][o])
      /\ \A x, y \in Processo : x # e \/ y # o => canal'[x][y] = canal[x][y]
    <2>. HIDE DEF e, o
    <2>. QED
        BY <1>3, <1>4, <1>5, Recebido
<1>8. n = np
    <2>1. ~ (o >= n)
        BY <1>1, <1>3, <1>5, SaindoFases
    <2>. QED
        BY <2>1, Numeros
<1>9. \A x, y \in Processo : ~ ComFicha(n, x, y)
    BY <1>8, Numeros DEF ComFicha
<1>10. ComTempo(e, o)
    BY <1>1, <1>3, <1>5, <1>9 DEF Sinais
<1>11. \A x, y \in Processo : /\ ~ ComTempo(x, y)'
                              /\ ComTempo(x, y) <=> x = e /\ y = o
    BY <1>5, <1>6, <1>10 DEF ComTempo, FIRST_PHASE, REMAINING_PHASE
<1>12. canal'[e][o] = <<>>
    BY <1>1, <1>5, <1>7, <1>9, <1>10, Sinaleiras DEF Sinais
<1>13. Sinais(n)'
    <2>. SUFFICES ASSUME NEW x \in Processo, NEW y \in Processo
                  PROVE  canal'[x][y] = IF ComFicha(n, x, y)
                                        THEN IF ComTempo(x, y)' THEN <<FIM, TEMPO>> ELSE <<FIM>>
                                        ELSE IF ComTempo(x, y)' THEN <<TEMPO>> ELSE <<>>
        BY DEF Sinais, ComFicha, FIM, TEMPO
    <2>1. CASE x = e /\ y = o
        BY <1>9, <1>11, <1>12, <2>1
    <2>2. CASE ~ (x = e /\ y = o)
        BY <1>1, <1>7, <1>9, <1>11, <2>2 DEF Sinais
    <2>. QED
        BY <2>1, <2>2
<1>14. Saiu(n)'
    <2>1. \A x \in Processo : ~ (x >= n)
        BY <1>8, Numeros
    <2>2. \A x \in Processo : x < n => fase'[x] = "fim" \/ (fase'[x] = "tempo" /\ x \in {e, o})
        BY <1>1, <1>6 DEF Saiu
    <2>3. fase'[e] = "fim"
        BY <1>5, <1>6, <1>10 DEF ComTempo
    <2>. QED
        BY <2>1, <2>2, <2>3 DEF Saiu, FIRST_PHASE, REMAINING_PHASE
<1>15. Cheios' /\ Fatias' = Fatias /\ Repartidos' = Repartidos /\ task_size' = task_size /\ Tipos'
    BY <1>2, <1>3, <1>4, <1>6, <1>7, GuardadoFatias
<1>16. Ficha(n)'
    BY <1>1, <1>3, <1>13, <1>14, <1>15 DEF Ficha
<1>17. Fatias' = EmOrdem(Repartidos')
    BY <1>2, <1>15
<1>. QED
    BY <1>15, <1>16, <1>17 DEF Saindo, EmOrdem, NoLugar, Menores, AteValor

\* The only steps there are then.
LEMMA SaindoNext ==
    ASSUME Tipos, Saindo, Next
    PROVE  Tipos' /\ Saindo'
<1>1. PICK n \in 0 .. np : Saiu(n)
    BY DEF Saindo, Ficha
<1>2. \A p \in Processo : fase[p] \in {"imprimir", "tempo", "fim"}
    BY <1>1, SaindoFases
<1>3. FIRST_PHASE \in Processo
    BY Numeros
<1>4. /\ ~ Distribuir /\ ~ Largada /\ ~ Barreira /\ ~ Reduzir
      /\ \A p \in Processo : /\ ~ ReceberFatia(p) /\ ~ Ordenar(p)
                             /\ ~ EnviarAnterior(p) /\ ~ EnviarProximo(p)
                             /\ ~ ReceberAnterior(p) /\ ~ ReceberProximo(p)
    BY <1>2, <1>3 DEF Distribuir, Largada, Barreira, Reduzir, ReceberFatia, Ordenar,
                      EnviarAnterior, EnviarProximo, ReceberAnterior, ReceberProximo, Em
<1>. QED
    BY <1>4, ImprimirSaindo, EnviarTempoSaindo, ReceberTempoSaindo DEF Next, Passo

-----------------------------------------------------------------------------
(***************************************************************************)
(* Before the loop: each slice is with the first process, under way, or    *)
(* where it belongs.                                                       *)
(***************************************************************************)
Fatia(p) == SubSeq(entrada, task_size * p + 1, task_size * p + Largura(p))

Entregue(p) ==
    \/ canal[FIRST_PHASE][p] = <<>> /\ buffer[p] = <<>> /\ p >= ponto[FIRST_PHASE]
    \/ canal[FIRST_PHASE][p] = <<Fatia(p)>> /\ buffer[p] = <<>> /\ p < ponto[FIRST_PHASE]
    \/ canal[FIRST_PHASE][p] = <<>> /\ buffer[p] = Fatia(p) /\ p < ponto[FIRST_PHASE]

Distribuindo ==
    /\ \A p \in Processo : fase[p] = "distribuir" /\ ponto[p] \in 1 .. np
    /\ buffer[FIRST_PHASE] = Fatia(FIRST_PHASE) /\ saida = <<>>
    /\ \A p, q \in Processo : p # FIRST_PHASE \/ q = FIRST_PHASE => canal[p][q] = <<>>
    /\ \A p \in Processo : p # FIRST_PHASE => Entregue(p)

LEMMA FatiaDe ==
    ASSUME Medidas, NEW p \in Processo
    PROVE  /\ Fatia(p) \in Seq(Int) /\ Len(Fatia(p)) = Largura(p) /\ Fatia(p) # <<>>
           /\ \A j \in 1 .. Largura(p) : Fatia(p)[j] = entrada[task_size * p + j]
<1>. DEFINE b == task_size * p
            m == Largura(p)
<1>1. b \in Nat /\ m \in Nat /\ m >= 1 /\ b + m <= Len(entrada) /\ entrada \in Seq(Int)
    BY Tamanhos
<1>2. Fatia(p) = SubSeq(entrada, b + 1, b + m)
    BY DEF Fatia
<1>. HIDE DEF b, m
<1>3. /\ Fatia(p) \in Seq(Int) /\ Len(Fatia(p)) = m
      /\ \A j \in 1 .. m : Fatia(p)[j] = entrada[b + j]
    <2>1. /\ SubSeq(entrada, b + 1, b + m) \in Seq(Int) /\ Len(SubSeq(entrada, b + 1, b + m)) = m
          /\ \A j \in 1 .. m : SubSeq(entrada, b + 1, b + m)[j] = entrada[b + j]
        BY <1>1, Recorte
    <2>. QED
        BY <1>2, <2>1
<1>4. Fatia(p) # <<>>
    BY <1>1, <1>3
<1>. QED
    BY <1>3, <1>4 DEF b, m

LEMMA InitDistribuindo ==
    ASSUME Init
    PROVE  Tipos /\ Distribuindo
<1>1. /\ canal = [p \in Processo |-> [q \in Processo |-> <<>>]] /\ folga \in Folgas
      /\ entrada \in Entradas /\ connected_integers \in Conexoes /\ c <= task_size
      /\ fase = [p \in Processo |-> "distribuir"] /\ ponto = [p \in Processo |-> 1]
      /\ buffer = [p \in Processo |-> IF p = FIRST_PHASE THEN SubSeq(entrada, 1, Largura(p)) ELSE <<>>]
      /\ sorted = [p \in Processo |-> FALSE] /\ saida = <<>>
    BY DEF Init, InitMPI
<1>2. Medidas
    BY <1>1 DEF Medidas
<1>3. FIRST_PHASE \in Processo /\ FIRST_PHASE = 0 /\ np \in Nat /\ np > 1
    BY Numeros
<1>4. SubSeq(entrada, 1, Largura(FIRST_PHASE)) = Fatia(FIRST_PHASE)
    <2>1. task_size \in Nat /\ Largura(FIRST_PHASE) \in Nat
        BY <1>2, <1>3, Tamanhos
    <2>2. task_size * FIRST_PHASE = 0
        BY <1>3, <2>1
    <2>3. 0 + 1 = 1 /\ 0 + Largura(FIRST_PHASE) = Largura(FIRST_PHASE)
        BY <2>1
    <2>. QED
        BY <2>2, <2>3 DEF Fatia
<1>5. Fatia(FIRST_PHASE) \in Seq(Int)
    BY <1>2, <1>3, FatiaDe
<1>6. Tipos
    <2>1. canal \in [Processo -> [Processo -> Seq(Seq(Int))]]
        BY <1>1
    <2>2. buffer \in [Processo -> Seq(Int)]
        <3>1. buffer = [p \in Processo |-> IF p = FIRST_PHASE THEN Fatia(FIRST_PHASE) ELSE <<>>]
            BY <1>1, <1>4
        <3>2. \A p \in Processo : buffer[p] \in Seq(Int)
            BY <1>5, <3>1
        <3>3. buffer = [p \in Processo |-> buffer[p]]
            BY <3>1
        <3>. QED
            BY <3>2, <3>3
    <2>3. ponto \in [Processo -> Nat] /\ sorted \in [Processo -> BOOLEAN]
        BY <1>1
    <2>4. fase \in [Processo -> {"distribuir", "laco", "imprimir", "tempo", "fim"}] /\ saida \in Seq(Int)
        BY <1>1
    <2>. QED
        BY <1>1, <1>2, <2>1, <2>2, <2>3, <2>4 DEF Tipos
<1>7. Distribuindo
    <2>1. \A p \in Processo : p # FIRST_PHASE => p >= 1
        BY <1>3, Numeros
    <2>. QED
        BY <1>1, <1>3, <1>4, <2>1 DEF Distribuindo, Entregue
<1>. QED
    BY <1>6, <1>7

LEMMA DistribuirDistribuindo ==
    ASSUME Tipos, Distribuindo, Distribuir
    PROVE  Tipos' /\ Distribuindo'
<1>. DEFINE e == FIRST_PHASE
<1>1. /\ ponto[e] < np
      /\ canal' = MPI_Send(canal, e, ponto[e],
                           SubSeq(entrada, task_size * ponto[e] + 1, task_size * ponto[e] + Largura(ponto[e])))
      /\ ponto' = [ponto EXCEPT ![e] = ponto[e] + 1]
      /\ folga' = folga /\ Constante /\ fase' = fase /\ buffer' = buffer /\ sorted' = sorted
      /\ saida' = saida
    BY DEF Distribuir, Constante
<1>2. Medidas /\ canal \in Canais /\ ponto \in [Processo -> Nat]
    BY DEF Tipos, Canais
<1>3. e \in Processo /\ e = 0 /\ np \in Nat /\ \A p \in Processo : p \in Int
    BY Numeros
<1>4. ponto[e] \in 1 .. np
    BY <1>3 DEF Distribuindo
<1>5. PICK i \in Processo : i = ponto[e] /\ i # e
    <2>1. ponto[e] \in Processo /\ ponto[e] # e
        BY <1>1, <1>3, <1>4 DEF Processo
    <2>. QED
        BY <2>1
<1>6. PICK s \in Seq(Int) : s = Fatia(i)
    BY <1>2, FatiaDe
<1>7. canal' = MPI_Send(canal, e, i, s)
    BY <1>1, <1>5, <1>6 DEF Fatia
<1>8. /\ canal' \in Canais /\ canal'[e][i] = Append(canal[e][i], s)
      /\ \A x, y \in Processo : x # e \/ y # i => canal'[x][y] = canal[x][y]
    <2>1. /\ MPI_Send(canal, e, i, s) \in Canais /\ MPI_Send(canal, e, i, s)[e][i] = Append(canal[e][i], s)
          /\ \A x, y \in Processo : x # e \/ y # i => MPI_Send(canal, e, i, s)[x][y] = canal[x][y]
        <3>. HIDE DEF e
        <3>. QED
            BY ONLY <1>2, <1>3, i \in Processo, s \in Seq(Int), Enviado
    <2>. QED
        BY <1>7, <2>1
<1>9. /\ ponto' \in [Processo -> Nat] /\ ponto'[e] = i + 1
      /\ \A p \in Processo : p # e => ponto'[p] = ponto[p]
    BY <1>1, <1>2, <1>3, <1>5
<1>10. \A p \in Processo : Fatia(p)' = Fatia(p)
    BY <1>1, Constantes DEF Fatia, Constante
<1>11. Medidas'
    BY <1>1, <1>2, Constantes
<1>12. Tipos'
    BY <1>1, <1>8, <1>9, <1>11 DEF Tipos, Canais
<1>13. ASSUME NEW p \in Processo, p # e PROVE Entregue(p)'
    <2>1. Entregue(p)
        BY <1>13 DEF Distribuindo
    <2>2. p \in Int /\ i \in Int
        BY <1>3
    <2>3. CASE p = i
        <3>1. canal[e][i] = <<>> /\ buffer[i] = <<>>
            BY <1>5, <2>1, <2>2, <2>3 DEF Entregue
        <3>2. canal'[e][i] = <<s>>
            <4>1. Append(<<>>, s) = <<s>>
                OBVIOUS
            <4>. QED
                BY <1>8, <3>1, <4>1
        <3>3. i < i + 1
            BY <2>2
        <3>4. /\ canal'[e][p] = <<Fatia(p)'>> /\ buffer'[p] = <<>> /\ p < ponto'[e]
            BY <1>1, <1>6, <1>9, <1>10, <2>3, <3>1, <3>2, <3>3
        <3>. QED
            BY <3>4 DEF Entregue, FIRST_PHASE
    <2>4. CASE p # i
        <3>1. canal'[e][p] = canal[e][p] /\ buffer'[p] = buffer[p] /\ Fatia(p)' = Fatia(p)
            BY <1>1, <1>3, <1>8, <1>10, <2>4
        <3>2. (p >= i <=> p >= i + 1) /\ (p < i => p < i + 1)
            BY <2>2, <2>4
        <3>. QED
            BY <1>5, <1>9, <2>1, <3>1, <3>2 DEF Entregue, FIRST_PHASE
    <2>. QED
        BY <2>3, <2>4
<1>14. \A p \in Processo : ponto'[p] \in 1 .. np
    <2>1. i + 1 \in 1 .. np
        BY <1>1, <1>3, <1>4, <1>5
    <2>. QED
        BY <1>9, <2>1 DEF Distribuindo
<1>15. \A p, q \in Processo : p # e \/ q = e => canal'[p][q] = <<>>
    BY <1>5, <1>8 DEF Distribuindo
<1>16. buffer'[e] = Fatia(e)'
    BY <1>1, <1>3, <1>10 DEF Distribuindo
<1>17. \A p \in Processo : fase'[p] = "distribuir"
    BY <1>1 DEF Distribuindo
<1>18. saida' = <<>>
    BY <1>1 DEF Distribuindo
<1>19. Distribuindo'
    BY <1>13, <1>14, <1>15, <1>16, <1>17, <1>18 DEF Distribuindo, FIRST_PHASE
<1>. QED
    BY <1>12, <1>19

LEMMA ReceberFatiaDistribuindo ==
    ASSUME Tipos, Distribuindo, NEW p \in Processo, ReceberFatia(p)
    PROVE  Tipos' /\ Distribuindo'
<1>. DEFINE e == FIRST_PHASE
<1>1. /\ p # e /\ canal[e][p] # <<>> /\ canal' = MPI_Recv(canal, e, p)
      /\ buffer' = [buffer EXCEPT ![p] = Head(canal[e][p])]
      /\ folga' = folga /\ Constante /\ fase' = fase /\ ponto' = ponto /\ sorted' = sorted
      /\ saida' = saida
    BY DEF ReceberFatia, Constante, Chegou
<1>2. Medidas /\ canal \in Canais /\ buffer \in [Processo -> Seq(Int)]
    BY DEF Tipos, Canais
<1>3. e \in Processo
    BY Numeros
<1>4. Entregue(p)
    BY <1>1 DEF Distribuindo
<1>5. canal[e][p] = <<Fatia(p)>> /\ p < ponto[e]
    BY <1>1, <1>4 DEF Entregue
<1>6. Fatia(p) \in Seq(Int)
    BY <1>2, FatiaDe
<1>7. Head(canal[e][p]) = Fatia(p) /\ Tail(canal[e][p]) = <<>>
    BY <1>5
<1>8. /\ canal' \in Canais /\ canal'[e][p] = <<>>
      /\ \A x, y \in Processo : x # e \/ y # p => canal'[x][y] = canal[x][y]
    <2>1. /\ MPI_Recv(canal, e, p) \in Canais /\ MPI_Recv(canal, e, p)[e][p] = Tail(canal[e][p])
          /\ \A x, y \in Processo : x # e \/ y # p => MPI_Recv(canal, e, p)[x][y] = canal[x][y]
        <3>. HIDE DEF e
        <3>1. canal[e][p] # <<>>
            BY <1>1
        <3>. QED
            BY ONLY <1>2, <1>3, p \in Processo, <3>1, Recebido
    <2>. QED
        BY <1>1, <1>7, <2>1
<1>9. /\ buffer' \in [Processo -> Seq(Int)] /\ buffer'[p] = Fatia(p)
      /\ \A x \in Processo : x # p => buffer'[x] = buffer[x]
    BY <1>1, <1>2, <1>6, <1>7
<1>10. \A x \in Processo : Fatia(x)' = Fatia(x)
    BY <1>1, Constantes DEF Fatia, Constante
<1>11. Medidas'
    BY <1>1, <1>2, Constantes
<1>12. Tipos'
    BY <1>1, <1>8, <1>9, <1>11 DEF Tipos, Canais
<1>13. ASSUME NEW x \in Processo, x # e PROVE Entregue(x)'
    <2>1. CASE x = p
        <3>1. canal'[e][x] = <<>> /\ buffer'[x] = Fatia(x)' /\ x < ponto'[e]
            BY <1>1, <1>5, <1>8, <1>9, <1>10, <2>1
        <3>. QED
            BY <3>1 DEF Entregue, FIRST_PHASE
    <2>2. CASE x # p
        <3>1. canal'[e][x] = canal[e][x] /\ buffer'[x] = buffer[x] /\ Fatia(x)' = Fatia(x)
            BY <1>3, <1>8, <1>9, <1>10, <2>2
        <3>2. Entregue(x)
            BY <1>13 DEF Distribuindo
        <3>. QED
            BY <1>1, <3>1, <3>2 DEF Entregue, FIRST_PHASE
    <2>. QED
        BY <2>1, <2>2
<1>14. \A x, q \in Processo : x # e \/ q = e => canal'[x][q] = <<>>
    BY <1>1, <1>8 DEF Distribuindo
<1>15. buffer'[e] = Fatia(e)'
    BY <1>1, <1>3, <1>9, <1>10 DEF Distribuindo
<1>16. \A x \in Processo : fase'[x] = "distribuir" /\ ponto'[x] \in 1 .. np
    BY <1>1 DEF Distribuindo
<1>17. saida' = <<>>
    BY <1>1 DEF Distribuindo
<1>18. Distribuindo'
    BY <1>13, <1>14, <1>15, <1>16, <1>17 DEF Distribuindo, FIRST_PHASE
<1>. QED
    BY <1>12, <1>18

LEMMA LargadaRodando ==
    ASSUME Tipos, Distribuindo, Largada
    PROVE  Tipos' /\ Rodando'
<1>1. /\ ponto[FIRST_PHASE] = np /\ \A p \in Processo : buffer[p] # <<>>
      /\ fase' = [p \in Processo |-> "laco"] /\ ponto' = [p \in Processo |-> 1]
      /\ canal' = canal /\ folga' = folga /\ Constante /\ buffer' = buffer /\ sorted' = sorted
      /\ saida' = saida
    BY DEF Largada, Constante
<1>2. Medidas /\ saida = <<>>
    BY DEF Tipos, Distribuindo
<1>3. \A p \in Processo : buffer[p] = Fatia(p) /\ canal[FIRST_PHASE][p] = <<>>
    <2>. SUFFICES ASSUME NEW p \in Processo
                  PROVE  buffer[p] = Fatia(p) /\ canal[FIRST_PHASE][p] = <<>>
        OBVIOUS
    <2>1. CASE p = FIRST_PHASE
        BY <2>1 DEF Distribuindo
    <2>2. CASE p # FIRST_PHASE
        <3>1. Entregue(p)
            BY <2>2 DEF Distribuindo
        <3>2. p < np /\ p \in Int /\ np \in Int
            BY Numeros
        <3>. QED
            BY <1>1, <3>1, <3>2 DEF Entregue
    <2>. QED
        BY <2>1, <2>2
<1>4. \A p, q \in Processo : canal[p][q] = <<>>
    BY <1>3 DEF Distribuindo
<1>5. /\ Medidas' /\ c' = c /\ task_size' = task_size
      /\ \A p : Largura(p)' = Largura(p)
    BY <1>1, <1>2, Constantes
<1>6. Cheios /\ Cheios'
    <2>1. Cheios
        BY <1>2, <1>3, FatiaDe DEF Cheios
    <2>. QED
        BY <1>1, <1>5, <2>1 DEF Cheios
<1>7. Tipos'
    BY <1>1, <1>5 DEF Tipos
<1>8. Pontos'
    <2>1. ASSUME NEW p \in Processo PROVE Roteiro(p)' = Roteiro(p) /\ 1 \in DOMAIN Roteiro(p)
        <3>1. DOMAIN Roteiro(p) = 1 .. Passos(p)
            BY Formas
        <3>2. 1 \in 1 .. Passos(p)
            BY DEF Passos
        <3>3. Roteiro(p)' = Roteiro(p)
            BY DEF Roteiro, FIRST_PHASE, REMAINING_PHASE
        <3>. QED
            BY <3>1, <3>2, <3>3
    <2>. QED
        BY <1>1, <2>1 DEF Pontos
<1>9. \A p \in Processo : /\ p % 2 \in {0, 1}
                          /\ Etapa(p)' = (IF p = REMAINING_PHASE THEN 2 ELSE 1)
                          /\ p % 2 = 0 => Etapa(p)' = 1
    <2>1. \A p \in Processo : ponto'[p] = 1
        BY <1>1
    <2>. QED
        BY <2>1, Numeros DEF Etapa, FIRST_PHASE, REMAINING_PHASE
<1>10. MesmoTrecho'
    BY <1>9 DEF MesmoTrecho, Trecho
<1>11. ASSUME NEW x \in Processo, NEW y \in Processo, Vizinhos(x, y)
       PROVE  /\ ~ (Etapa(x)' > Envia(x, y))
              /\ ~ (Etapa(x)' > Recebe(x, y))
    <2>1. y > x => x # REMAINING_PHASE
        BY <1>11, Lados
    <2>2. Envia(x, y) \in {2, 3, 6, 7}
        BY DEF Envia
    <2>3. ~ (Etapa(x)' > Recebe(x, y))
        <3>1. CASE x % 2 = 0
            BY <1>9, <3>1 DEF Recebe
        <3>2. CASE x % 2 = 1 /\ y > x
            BY <1>9, <2>1, <3>2 DEF Recebe
        <3>3. CASE x % 2 = 1 /\ ~ (y > x)
            BY <1>9, <3>3 DEF Recebe
        <3>. QED
            BY <1>9, <3>1, <3>2, <3>3
    <2>. QED
        BY <1>9, <2>2, <2>3
<1>12. Causa'
    BY <1>11 DEF Causa, Vizinhos, Envia, Recebe
<1>13. Correio'
    <2>1. \A x, y \in Processo : ~ Viaja(x, y)'
        BY <1>11 DEF Viaja, Vizinhos, Envia, Recebe
    <2>. QED
        BY <1>1, <1>4, <2>1 DEF Correio, Viaja, Vizinhos, Borda
\* Neighbours have copies of the same values.
<1>14. ASSUME NEW p \in Processo, p # REMAINING_PHASE, NEW j \in 1 .. c
       PROVE  buffer[p][task_size + j] = buffer[p + 1][j]
    <2>. DEFINE q == p + 1
                a == task_size * p
                b == task_size * q
                t == task_size
    <2>1. q \in Processo /\ p \in Nat
        BY <1>14, Numeros
    <2>2. t \in Nat /\ c \in Nat /\ c <= t /\ Largura(p) = t + c /\ t <= Largura(q) /\ Largura(q) \in Nat
        BY <1>2, <1>14, <2>1, Tamanhos
    <2>3. b = a + t /\ a \in Nat
        <3>1. t \in Nat
            BY <2>2
        <3>2. t * p \in Nat /\ t * (p + 1) = t * p + t
            BY <3>1, Lugares
        <3>. QED
            BY <3>2
    <2>. HIDE DEF a, b, q
    <2>4. t + j \in 1 .. Largura(p) /\ j \in 1 .. Largura(q)
        BY <2>2
    <2>5. Fatia(p)[t + j] = entrada[a + (t + j)] /\ Fatia(q)[j] = entrada[b + j]
        BY <1>2, <2>1, <2>4, FatiaDe DEF a, b
    <2>6. a + (t + j) = b + j
        <3>. HIDE DEF t
        <3>. QED
            BY <2>2, <2>3
    <2>. QED
        BY <1>3, <2>1, <2>5, <2>6 DEF q
<1>15. \A x, y \in Processo : Vizinhos(x, y) => Borda(x, y) = Borda(y, x)
    <2>1. \A p \in Processo : p # REMAINING_PHASE => Borda(p, p + 1) = Borda(p + 1, p)
        BY <1>6, <1>14, Comuns
    <2>. SUFFICES ASSUME NEW x \in Processo, NEW y \in Processo, Vizinhos(x, y)
                  PROVE  Borda(x, y) = Borda(y, x)
        OBVIOUS
    <2>2. \/ y = x + 1 /\ x # REMAINING_PHASE
          \/ x = y + 1 /\ y # REMAINING_PHASE
        BY Lados
    <2>. QED
        BY <2>1, <2>2
<1>16. Concordam'
    <2>1. \A x, y \in Processo : Borda(x, y)' = Borda(x, y)
        BY <1>1, BordaParada
    <2>. QED
        BY <1>15, <2>1 DEF Concordam, Vizinhos
<1>17. Ordenados'
    BY <1>9 DEF Ordenados, Ordenou
<1>18. Valores'
    <2>1. Casas' = Casas /\ Dadas' = Dadas
        BY <1>1, Constantes
    <2>2. ASSUME NEW q \in Processo, NEW j \in 1 .. task_size
          PROVE  Vale(q, j)' = entrada[task_size * q + j]
        <3>1. buffer[q][j] = entrada[task_size * q + j]
            <4>1. j \in 1 .. Largura(q)
                BY <1>2, Tamanhos
            <4>. QED
                BY <1>2, <1>3, <4>1, FatiaDe
        <3>2. Vale(q, j)' = IF DoVizinho(q, j)' THEN buffer[q - 1][task_size + j] ELSE buffer[q][j]
            BY <1>1, ValeDepois
        <3>3. ASSUME DoVizinho(q, j)' PROVE buffer[q - 1][task_size + j] = buffer[q][j]
            <4>1. c \in Nat
                BY <1>2, Tamanhos
            <4>2. q > 0 /\ j \in 1 .. c
                BY <1>5, <3>3, <4>1 DEF DoVizinho
            <4>3. q - 1 \in Processo /\ q - 1 # REMAINING_PHASE /\ (q - 1) + 1 = q
                BY <4>2, Impares
            <4>. QED
                BY <1>14, <4>2, <4>3
        <3>. QED
            BY <3>1, <3>2, <3>3
    <2>3. \A x \in Casas : Valem'[x] = Vale(x[1], x[2])'
        BY <2>1 DEF Valem
    <2>4. ASSUME NEW x \in Casas PROVE Valem'[x] = Dadas[x]
        <3>1. x[1] \in Processo /\ x[2] \in 1 .. task_size
            BY DEF Casas
        <3>2. Dadas[x] = entrada[task_size * x[1] + x[2]]
            BY DEF Dadas
        <3>. QED
            BY <2>2, <2>3, <3>1, <3>2
    <2>5. Permuta(Casas, Dadas, Valem')
        BY <2>4, PermutaIgual
    <2>. QED
        BY <2>1, <2>5 DEF Valores, Permuta
<1>. QED
    BY <1>1, <1>2, <1>6, <1>7, <1>8, <1>10, <1>12, <1>13, <1>16, <1>17, <1>18 DEF Rodando

LEMMA DistribuindoNext ==
    ASSUME Tipos, Distribuindo, Next
    PROVE  Tipos' /\ (Distribuindo' \/ Rodando')
<1>1. /\ \A p \in Processo : fase[p] = "distribuir"
      /\ FIRST_PHASE \in Processo /\ REMAINING_PHASE \in Processo
    BY Numeros DEF Distribuindo
<1>2. /\ ~ Barreira /\ ~ Reduzir /\ ~ EnviarTempo /\ ~ ReceberTempo
      /\ \A p \in Processo : /\ ~ Imprimir(p) /\ ~ Ordenar(p)
                             /\ ~ EnviarAnterior(p) /\ ~ EnviarProximo(p)
                             /\ ~ ReceberAnterior(p) /\ ~ ReceberProximo(p)
    BY <1>1 DEF Barreira, Reduzir, EnviarTempo, ReceberTempo, Imprimir, Ordenar,
                EnviarAnterior, EnviarProximo, ReceberAnterior, ReceberProximo, Em
<1>. QED
    BY <1>2, DistribuirDistribuindo, ReceberFatiaDistribuindo, LargadaRodando DEF Next, Passo

LEMMA RodandoNext ==
    ASSUME Tipos, Rodando, Next
    PROVE  Tipos' /\ (Rodando' \/ Saindo')
<1>1. /\ Pontos /\ \A p \in Processo : fase[p] = "laco"
      /\ FIRST_PHASE \in Processo /\ REMAINING_PHASE \in Processo
    BY Numeros DEF Rodando, Pontos
<1>2. /\ ~ Distribuir /\ ~ Largada /\ ~ EnviarTempo /\ ~ ReceberTempo
      /\ \A p \in Processo : ~ ReceberFatia(p) /\ ~ Imprimir(p)
    BY <1>1 DEF Distribuir, Largada, EnviarTempo, ReceberTempo, ReceberFatia, Imprimir
<1>3. CASE Barreira
    BY <1>3, BarreiraRodando
<1>4. CASE Reduzir
    BY <1>4, ReduzirRodando, ReduzirSaindo
<1>5. ASSUME NEW p \in Processo, Passo(p) PROVE Tipos' /\ Rodando'
    <2>1. UmPasso(p)
        BY <1>1, <1>2, <1>5, OrdenarEfeito, EnviarEfeito, ReceberEfeito DEF Passo, UmPasso
    <2>. QED
        BY <2>1, UmPassoRodando
<1>. QED
    BY <1>2, <1>3, <1>4, <1>5 DEF Next

-----------------------------------------------------------------------------
(***************************************************************************)
(* The inductive invariant and what follows from it.                       *)
(***************************************************************************)
IInv == Tipos /\ (Distribuindo \/ Rodando \/ Saindo)

LEMMA Parado ==
    ASSUME IInv, UNCHANGED vars
    PROVE  IInv'
<1>1. /\ canal' = canal /\ folga' = folga /\ connected_integers' = connected_integers
      /\ entrada' = entrada /\ fase' = fase /\ ponto' = ponto /\ buffer' = buffer
      /\ sorted' = sorted /\ saida' = saida
    BY DEF vars
<1>2. Constante
    BY <1>1 DEF Constante
<1>3. /\ c' = c /\ task_size' = task_size /\ (Medidas => Medidas')
      /\ \A p : Largura(p)' = Largura(p)
      /\ Casas' = Casas /\ Dadas' = Dadas /\ Repartidos' = Repartidos
    BY <1>2, Constantes
<1>4. /\ Tipos' <=> Tipos
      /\ Cheios' <=> Cheios
    BY <1>1, <1>3 DEF Tipos, Cheios, Medidas
<1>5. \A p : Fatia(p)' = Fatia(p)
    BY <1>1, <1>3 DEF Fatia
<1>6. Distribuindo => Distribuindo'
    BY <1>1, <1>5 DEF Distribuindo, Entregue, FIRST_PHASE
<1>7. \A p : Etapa(p)' = Etapa(p) /\ Roteiro(p)' = Roteiro(p)
    BY <1>1 DEF Etapa, Roteiro, FIRST_PHASE, REMAINING_PHASE
<1>8. \A p, q : Borda(p, q)' = Borda(p, q) /\ Vale(p, q)' = Vale(p, q) /\ (Ordenou(p)' <=> Ordenou(p))
    BY <1>1, <1>3, <1>7 DEF Borda, Direita, Esquerda, Vale, DoVizinho, Impar, Ordenou
<1>9. Rodando => Rodando'
    <2>. SUFFICES ASSUME Rodando PROVE Rodando'
        OBVIOUS
    <2>1. Pontos' /\ Cheios' /\ saida' = <<>>
        BY <1>1, <1>4, <1>7 DEF Rodando, Pontos
    <2>2. MesmoTrecho'
        BY <1>7 DEF Rodando, MesmoTrecho, Trecho
    <2>3. Correio'
        BY <1>1, <1>7, <1>8 DEF Rodando, Correio, Viaja, Vizinhos, Envia, Recebe
    <2>4. Causa'
        BY <1>7 DEF Rodando, Causa, Vizinhos, Envia, Recebe
    <2>5. Concordam'
        BY <1>1, <1>7, <1>8 DEF Rodando, Concordam, Devem, Vizinhos, Recebe
    <2>6. Ordenados'
        BY <1>1, <1>8 DEF Rodando, Ordenados, Cresce
    <2>7. Valores'
        BY <1>2, <1>8, ValoresIguais DEF Rodando
    <2>. QED
        BY <2>1, <2>2, <2>3, <2>4, <2>5, <2>6, <2>7 DEF Rodando
<1>10. Saindo => Saindo'
    <2>. SUFFICES ASSUME Saindo PROVE Saindo'
        OBVIOUS
    <2>1. PICK n \in 0 .. np : Ficha(n)
        BY DEF Saindo
    <2>2. Fatias' = Fatias
        BY <1>1, <1>2, FatiasIguais
    <2>3. Saiu(n)'
        BY <1>1, <2>1 DEF Ficha, Saiu, FIRST_PHASE, REMAINING_PHASE
    <2>4. Sinais(n)'
        BY <1>1, <2>1 DEF Ficha, Sinais, ComFicha, ComTempo, FIRST_PHASE, REMAINING_PHASE, FIM, TEMPO
    <2>5. Ficha(n)'
        BY <1>1, <1>3, <2>1, <2>2, <2>3, <2>4 DEF Ficha
    <2>6. Fatias' = EmOrdem(Repartidos')
        BY <1>3, <2>2 DEF Saindo
    <2>. QED
        BY <1>4, <2>5, <2>6 DEF Saindo, EmOrdem, NoLugar, Menores, AteValor
<1>. QED
    BY <1>4, <1>6, <1>9, <1>10 DEF IInv

\* The inductive invariant: the program is dealing out, in the loop or on its way out
\* (maiki.c:131-162, 164-259, 203-277), all processes together, with everything
\* that is said of that part of it.
THEOREM Invariante == Spec => []IInv
<1>1. Init => IInv
    BY InitDistribuindo DEF IInv
<1>2. IInv /\ [Next]_vars => IInv'
    <2>. SUFFICES ASSUME IInv, [Next]_vars PROVE IInv'
        OBVIOUS
    <2>1. CASE UNCHANGED vars
        BY <2>1, Parado
    <2>2. CASE Next
        BY <2>2, DistribuindoNext, RodandoNext, SaindoNext DEF IInv
    <2>. QED
        BY <2>1, <2>2
<1>. QED
    BY <1>1, <1>2, PTL DEF Spec

LEMMA EmRodada ==
    ASSUME IInv, NEW p \in Processo
    PROVE  fase[p] = "laco" => Rodando
<1>1. ASSUME Saindo PROVE fase[p] \in {"imprimir", "tempo", "fim"}
    <2>1. PICK n \in 0 .. np : Saiu(n)
        BY <1>1 DEF Saindo, Ficha
    <2>. QED
        BY <2>1, SaindoFases
<1>. QED
    BY <1>1 DEF IInv, Distribuindo

\* Who has left the loop: all have, and the token is on its way.
LEMMA JaFora ==
    ASSUME IInv, NEW p \in Processo, fase[p] \notin {"distribuir", "laco"}
    PROVE  Saindo
BY DEF IInv, Distribuindo, Rodando, Pontos

\* A buffer is empty until the slice has come, and as long as the slice and the copy
\* of the next one's border from then on (maiki.c:102), whatever the vector, the
\* number of processes and the width of the borders: neither the sort, which goes
\* over all of it, nor a border written over it makes it longer or shorter; and no
\* process goes beyond the last step of a round (maiki.c:165-259).
THEOREM TiposCorretos == Spec => []TypeOK
<1>1. ASSUME IInv PROVE TypeOK
    <2>1. /\ Tipos /\ Medidas
        BY <1>1 DEF IInv, Tipos
    <2>2. ASSUME NEW p \in Processo
          PROVE  /\ fase[p] = "distribuir" => ponto[p] \in 1 .. np
                 /\ fase[p] = "laco" => ponto[p] \in DOMAIN Roteiro(p)
                 /\ Len(buffer[p]) \in {0, Largura(p)}
        <3>1. CASE Distribuindo
            <4>1. fase[p] = "distribuir" /\ ponto[p] \in 1 .. np
                BY <3>1 DEF Distribuindo
            <4>2. buffer[p] = <<>> \/ buffer[p] = Fatia(p)
                BY <3>1 DEF Distribuindo, Entregue
            <4>3. Len(Fatia(p)) = Largura(p)
                BY <2>1, FatiaDe
            <4>4. Len(<<>>) = 0
                OBVIOUS
            <4>. QED
                BY <4>1, <4>2, <4>3, <4>4
        <3>2. CASE Rodando
            BY <3>2 DEF Rodando, Pontos, Cheios
        <3>3. CASE Saindo
            <4>1. PICK n \in 0 .. np : Saiu(n)
                BY <3>3 DEF Saindo, Ficha
            <4>2. fase[p] \in {"imprimir", "tempo", "fim"}
                BY <4>1, SaindoFases
            <4>. QED
                BY <3>3, <4>2 DEF Saindo, Cheios
        <3>. QED
            BY <1>1, <3>1, <3>2, <3>3 DEF IInv
    <2>. QED
        BY <2>1, <2>2 DEF TypeOK, Tipos, Medidas
<1>. QED
    BY <1>1, Invariante, PTL

\* When all are at a barrier no border is under way, the two ranks on the sides of
\* each have the same values in it, and the slices hold the values dealt out, each
\* as often (maiki.c:170-193, 229-257): what is sent and received between two
\* barriers is all that the sorts of that part of the round have made stale, for
\* any number of processes, any width of the borders and any room of the library.
THEOREM BordasIguais == Spec => []Sobreposicao
<1>1. ASSUME IInv, Juntos("barreira")
      PROVE  /\ \A p, q \in Processo : ~ Chegou(p, q)
             /\ \A p \in Processo \ {REMAINING_PHASE} : Direita(p) = Esquerda(p + 1)
             /\ Programa!Ordenada(Fatias) = Programa!Ordenada(Repartidos)
    <2>1. Tipos /\ Rodando
        BY <1>1, EmRodada, Numeros DEF Juntos, IInv
    <2>2. /\ Pontos /\ Cheios /\ MesmoTrecho /\ Correio /\ Concordam /\ Valores
        BY <2>1 DEF Rodando
    <2>3. NaPrimeira \/ NaSegunda
        BY <1>1, <2>2, NasBarreiras DEF Juntos
    <2>4. /\ \A x, y \in Processo : ~ Viaja(x, y)
          /\ \A e, o \in Processo : e % 2 = 0 /\ o % 2 = 1 /\ Vizinhos(e, o) => Devem(e, o)
        BY <2>1, <2>2, <2>3, NaBarreira
    <2>5. \A p, q \in Processo : ~ Chegou(p, q)
        BY <2>2, <2>4 DEF Correio, Chegou
    <2>6. /\ \A p \in Processo : p # REMAINING_PHASE => Borda(p, p + 1) = Borda(p + 1, p)
          /\ \A q \in Processo : \A j \in 1 .. task_size : Vale(q, j) = buffer[q][j]
        BY <2>1, <2>2, <2>4, TodosConcordam
    <2>7. \A p \in Processo : /\ p + 1 > p /\ ~ (p > p + 1)
        BY Numeros
    <2>8. \A p \in Processo \ {REMAINING_PHASE} : Direita(p) = Esquerda(p + 1)
        BY <2>6, <2>7 DEF Borda
    <2>9. PICK t : Reordena(Repartidos, Fatias, t)
        BY <2>1, <2>2, <2>6, FatiasReordenam
    <2>10. Programa!Ordenada(Fatias) = Programa!Ordenada(Repartidos)
        BY <2>9, MesmaOrdem, OrdenadaDef
    <2>. QED
        BY <2>5, <2>8, <2>10
<1>2. IInv => Sobreposicao
    BY <1>1 DEF Sobreposicao
<1>. QED
    BY <1>2, Invariante, PTL

\* Whoever is out of the loop left it with all the others, and with the vector in
\* order (maiki.c:168, 180, 239-244): the reduction adds flags that are set at
\* different times, an even rank's before its odd neighbours sort, and n of them
\* together still say that no pair of neighbours anywhere is out of order.  What
\* is then in the channels is the token and the time only, so that none of them is
\* taken for a border, which has the same tag.
THEOREM FimDoLaco == Spec => []SaidaEmOrdem
<1>1. ASSUME IInv, \E p \in Processo : fase[p] \notin {"distribuir", "laco"}
      PROVE  /\ Fatias = Programa!Ordenada(Repartidos)
             /\ \A p, q \in Processo :
                   /\ fase[p] \notin {"distribuir", "laco"}
                   /\ \A k \in DOMAIN canal[p][q] : canal[p][q][k] \in {FIM, TEMPO}
    <2>1. Saindo
        BY <1>1, JaFora
    <2>2. Fatias = Programa!Ordenada(Repartidos)
        BY <2>1, OrdenadaDef DEF Saindo
    <2>3. PICK n \in 0 .. np : Saiu(n) /\ Sinais(n)
        BY <2>1 DEF Saindo, Ficha
    <2>4. \A p \in Processo : fase[p] \notin {"distribuir", "laco"}
        BY <2>3, SaindoFases
    <2>5. ASSUME NEW p \in Processo, NEW q \in Processo
          PROVE  \A k \in DOMAIN canal[p][q] : canal[p][q][k] \in {FIM, TEMPO}
        <3>1. canal[p][q] \in {<<FIM, TEMPO>>, <<FIM>>, <<TEMPO>>, <<>>}
            BY <2>3 DEF Sinais
        <3>. HIDE DEF FIM, TEMPO
        <3>. QED
            BY <3>1
    <2>. QED
        BY <2>2, <2>4, <2>5
<1>2. IInv => SaidaEmOrdem
    BY <1>1 DEF SaidaEmOrdem
<1>. QED
    BY <1>2, Invariante, PTL

-----------------------------------------------------------------------------
(***************************************************************************)
(* The program is a sorter of what it deals out.                           *)
(***************************************************************************)
\* Only who prints changes what has been printed.
LEMMA SoImprimir ==
    ASSUME Next, \A p \in Processo : ~ Imprimir(p)
    PROVE  Constante /\ saida' = saida
BY DEF Next, Passo, Constante, Distribuir, Largada, Barreira, Reduzir, EnviarTempo, ReceberTempo,
       ReceberFatia, Ordenar, EnviarAnterior, EnviarProximo, ReceberAnterior, ReceberProximo,
       ReceberBorda

LEMMA ImprimirEscreve ==
    ASSUME IInv, NEW p \in Processo, Imprimir(p)
    PROVE  Programa!Escrever
<1>1. Tipos /\ fase[p] = "imprimir"
    BY DEF IInv, Imprimir
<1>2. Saindo
    BY <1>1, JaFora
<1>3. PICK n \in 0 .. np : Ficha(n)
    BY <1>2 DEF Saindo
<1>4. n = p /\ (p # FIRST_PHASE => Head(canal[p - 1][p]) = FIM)
    BY <1>3, ImprimirVez DEF Ficha
<1>5. Guardado /\ saida' = saida \o SubSeq(buffer[p], 1, task_size)
    BY <1>4, ImprimirEfeito
<1>6. saida = SubSeq(Fatias, 1, task_size * p)
    BY <1>3, <1>4 DEF Ficha
<1>7. saida' = SubSeq(Fatias, 1, task_size * (p + 1))
    BY <1>1, <1>2, <1>5, <1>6, MaisUma DEF Saindo
<1>8. Fatias = Programa!Ordenada(Repartidos)
    BY <1>2, OrdenadaDef DEF Saindo
<1>9. /\ Fatias \in Seq(Int) /\ Len(Fatias) = np * task_size /\ Len(Repartidos) = np * task_size
      /\ np * task_size \in Nat
    BY <1>1, <1>2, FatiasVetor DEF Saindo
<1>10. /\ task_size \in Nat /\ task_size >= 1
    BY <1>1, Tamanhos DEF Tipos
<1>11. /\ task_size * p \in Nat /\ task_size * (p + 1) = task_size * p + task_size
       /\ task_size * p + task_size <= np * task_size
    BY <1>10, Lugares
<1>12. Len(saida) = task_size * p /\ Len(saida') = task_size * (p + 1)
    <2>. DEFINE a == task_size * p
                b == task_size * (p + 1)
                m == np * task_size
    <2>1. a \in Nat /\ b \in Nat /\ a <= m /\ b <= m /\ m \in Nat
        BY <1>9, <1>10, <1>11
    <2>2. \A k \in 0 .. m : Len(SubSeq(Fatias, 1, k)) = k
        BY <1>9
    <2>3. saida = SubSeq(Fatias, 1, a) /\ saida' = SubSeq(Fatias, 1, b)
        BY <1>6, <1>7
    <2>4. a \in 0 .. m /\ b \in 0 .. m
        <3>. HIDE DEF a, b, m
        <3>. QED
            BY <2>1
    <2>. QED
        BY <2>2, <2>3, <2>4
<1>13. Len(saida) < Len(saida') /\ Len(saida') <= Len(Repartidos)
    BY <1>9, <1>10, <1>11, <1>12
<1>14. saida' = SubSeq(Programa!Ordenada(Repartidos), 1, Len(saida'))
    BY <1>7, <1>8, <1>12
<1>15. Repartidos' = Repartidos
    BY <1>5, Constantes DEF Guardado
<1>. QED
    BY <1>13, <1>14, <1>15 DEF Programa!Escrever

\* The program prints what it has dealt out in ascending order, one slice after the
\* other (maiki.c:5, 203-222, 261-277): each process prints once, when the token has come
\* to it, and the token goes through them in the order of their ranks, so that what
\* has been printed is at any time the beginning of the sorted vector.
THEOREM ImplementsSorter == Spec => SorterSpec
<1>1. Init => Programa!Init
    <2>. SUFFICES ASSUME Init PROVE Repartidos \in Seq(Int) /\ saida = <<>>
        BY DEF Programa!Init
    <2>1. Medidas /\ saida = <<>>
        BY DEF Init, Medidas
    <2>2. /\ entrada \in Seq(Int) /\ np * task_size <= Len(entrada) /\ np * task_size \in Nat
        BY <2>1, Tamanhos, Posicoes
    <2>. DEFINE n == np * task_size
    <2>. HIDE DEF n
    <2>3. SubSeq(entrada, 1, n) \in Seq(Int)
        BY <2>2 DEF n
    <2>. QED
        BY <2>1, <2>3 DEF Repartidos, n
<1>2. IInv /\ [Next]_vars => [Programa!Escrever]_<<Repartidos, saida>>
    <2>. SUFFICES ASSUME IInv, [Next]_vars PROVE [Programa!Escrever]_<<Repartidos, saida>>
        OBVIOUS
    <2>1. ASSUME NEW p \in Processo, Imprimir(p) PROVE Programa!Escrever
        BY <2>1, ImprimirEscreve
    <2>2. ASSUME Constante, saida' = saida PROVE UNCHANGED <<Repartidos, saida>>
        BY <2>2, Constantes
    <2>3. UNCHANGED vars => Constante /\ saida' = saida
        BY DEF vars, Constante
    <2>. QED
        BY <2>1, <2>2, <2>3, SoImprimir
<1>. QED
    BY <1>1, <1>2, Invariante, PTL DEF Spec, SorterSpec, Programa!Spec
=============================================================================
