---------------------------- MODULE Sorter_proof ----------------------------
(***************************************************************************)
(* What the proofs that a program implements Sorter have in common: induc- *)
(* tion up to a number, and what the sorted vector of a list of values is. *)
(***************************************************************************)
EXTENDS Integers, Sequences, FiniteSets, WellFoundedInduction, FiniteSetTheorems, TLAPS

\* Every set of numbers that is not empty has a smallest one.
LEMMA Menor ==
    ASSUME NEW T \in SUBSET Nat, T # {}
    PROVE  \E n \in T : \A m \in T : n <= m
<1>. DEFINE R == {q \in Nat \X Nat : q[1] < q[2]}
<1>1. IsWellFoundedOn(R, Nat)
    BY NatLessThanWellFounded DEF OpToRel
<1>2. PICK n \in T : \A m \in T : ~ (<<m, n>> \in R)
    <2>. HIDE DEF R
    <2>. QED
        BY <1>1, WFMin
<1>3. \A m \in T : ~ (m < n)
    BY <1>2
<1>. QED
    BY <1>3

\* Induction up to n, over a set: P holds the numbers it has been shown for.
LEMMA Inducao ==
    ASSUME NEW n \in Nat, NEW P, 0 \in P, \A j \in 1 .. n : j - 1 \in P => j \in P
    PROVE  0 .. n \subseteq P
<1>. SUFFICES ASSUME (0 .. n) \ P # {} PROVE FALSE
    OBVIOUS
<1>. DEFINE T == (0 .. n) \ P
<1>0. T \in SUBSET Nat /\ T # {}
    OBVIOUS
<1>1. PICK j \in T : \A m \in T : j <= m
    <2>. HIDE DEF T
    <2>. QED
        BY <1>0, Menor
<1>2. j \in 1 .. n /\ j - 1 \in 0 .. n /\ ~ (j <= j - 1)
    BY <1>1
<1>3. j - 1 \in P
    BY <1>1, <1>2
<1>. QED
    BY <1>1, <1>2, <1>3

-----------------------------------------------------------------------------
Ordenado(v) == \A k \in DOMAIN v : k > 1 => v[k - 1] <= v[k]

LEMMA Crescente ==
    ASSUME NEW w \in Seq(Int), Ordenado(w), NEW i \in 1 .. Len(w), NEW j \in 1 .. Len(w),
           i <= j
    PROVE  w[i] <= w[j]
<1>. DEFINE n == Len(w) - i
            P == {d \in 0 .. n : w[i] <= w[i + d]}
<1>1. n \in Nat /\ i \in Nat /\ j - i \in 0 .. n /\ i + (j - i) = j
    OBVIOUS
<1>2. 0 \in P
    BY <1>1
<1>3. ASSUME NEW d \in 1 .. n, d - 1 \in P PROVE d \in P
    <2>1. /\ i + d \in DOMAIN w /\ i + d > 1 /\ (i + d) - 1 = i + (d - 1)
          /\ i \in DOMAIN w /\ i + (d - 1) \in DOMAIN w
        BY <1>1
    <2>2. w[i + (d - 1)] <= w[i + d]
        BY <2>1 DEF Ordenado
    <2>3. w[i] <= w[i + (d - 1)]
        BY <1>3
    <2>4. w[i] \in Int /\ w[i + d] \in Int /\ w[i + (d - 1)] \in Int
        BY <2>1
    <2>. QED
        BY <2>2, <2>3, <2>4
<1>4. 0 .. n \subseteq P
    <2>. HIDE DEF P, n
    <2>. QED
        BY <1>1, <1>2, <1>3, Inducao
<1>5. w[i] <= w[i + (j - i)]
    BY <1>1, <1>4
<1>. QED
    BY <1>1, <1>5

\* The indices of the values of v below x, and up to x.
Menores(v, x) == {i \in DOMAIN v : v[i] < x}
AteValor(v, x) == {i \in DOMAIN v : v[i] <= x}
NoLugar(v, x, k) ==
    Cardinality(Menores(v, x)) < k /\ k <= Cardinality(AteValor(v, x))

LEMMA Finitos ==
    ASSUME NEW v \in Seq(Int), NEW T \in SUBSET (DOMAIN v)
    PROVE  IsFiniteSet(T) /\ Cardinality(T) \in Nat
<1>1. DOMAIN v = 1 .. Len(v) /\ Len(v) \in Nat
    OBVIOUS
<1>2. IsFiniteSet(1 .. Len(v))
    BY <1>1, FS_Interval
<1>. QED
    BY <1>1, <1>2, FS_Subset, FS_CardinalityType

\* One value at most can be in place k.
LEMMA UmNoLugar ==
    ASSUME NEW v \in Seq(Int), NEW k \in Nat, NEW x \in Int, NEW y \in Int,
           NoLugar(v, x, k), NoLugar(v, y, k)
    PROVE  x = y
<1>1. ASSUME NEW a \in Int, NEW b \in Int, NoLugar(v, a, k), NoLugar(v, b, k), a < b
      PROVE  FALSE
    <2>1. AteValor(v, a) \subseteq Menores(v, b)
        BY <1>1 DEF AteValor, Menores
    <2>2. /\ AteValor(v, a) \in SUBSET (DOMAIN v) /\ Menores(v, b) \in SUBSET (DOMAIN v)
        BY DEF AteValor, Menores
    <2>3. /\ IsFiniteSet(Menores(v, b)) /\ Cardinality(Menores(v, b)) \in Nat
          /\ Cardinality(AteValor(v, a)) \in Nat
        BY <2>2, Finitos
    <2>4. Cardinality(AteValor(v, a)) <= Cardinality(Menores(v, b))
        BY <2>1, <2>3, FS_Subset
    <2>. QED
        BY <1>1, <2>3, <2>4 DEF NoLugar
<1>. QED
    BY <1>1

\* The vector w holds the values of v, each in the place t tells of it.
Reordena(v, w, t) ==
    /\ v \in Seq(Int) /\ w \in Seq(Int) /\ Len(w) = Len(v)
    /\ t \in [1 .. Len(v) -> 1 .. Len(v)]
    /\ \A i, j \in 1 .. Len(v) : t[i] = t[j] => i = j
    /\ \A k \in 1 .. Len(v) : w[k] = v[t[k]]

\* The vector with every value in its place: Ordenada of Sorter.
EmOrdem(v) ==
    [k \in DOMAIN v |-> CHOOSE x \in {v[i] : i \in DOMAIN v} : NoLugar(v, x, k)]

\* A sorted vector of the same values is the sorted vector.
LEMMA OrdenadaUnica ==
    ASSUME NEW v, NEW w, NEW t, Reordena(v, w, t), Ordenado(w)
    PROVE  EmOrdem(v) = w
<1>. DEFINE D == 1 .. Len(v)
<1>0. /\ v \in Seq(Int) /\ w \in Seq(Int) /\ Len(w) = Len(v) /\ t \in [D -> D]
      /\ \A i, j \in D : t[i] = t[j] => i = j
      /\ \A k \in D : w[k] = v[t[k]]
    BY DEF Reordena
<1>1. /\ DOMAIN v = D /\ DOMAIN w = D /\ Len(v) \in Nat /\ D \subseteq Nat
      /\ \A k \in D : v[k] \in Int /\ w[k] \in Int
    BY <1>0
<1>2. IsFiniteSet(D) /\ t \in Injection(D, D)
    <2>1. IsFiniteSet(D)
        BY <1>1, FS_Interval
    <2>2. DOMAIN t = D /\ t \in [D -> D] /\ \A i, j \in D : t[i] = t[j] => i = j
        BY <1>0
    <2>. QED
        BY <2>1, <2>2 DEF Injection, IsInjective
<1>3. \A i \in D : \E j \in D : t[j] = i
    <2>1. t \in Surjection(D, D)
        BY <1>2, FS_Injection
    <2>. QED
        BY <2>1 DEF Surjection
<1>4. ASSUME NEW k \in D PROVE NoLugar(v, w[k], k)
    <2>. DEFINE x == w[k]
    <2>1. Cardinality(Menores(v, x)) < k
        <3>. DEFINE S == 1 .. k - 1
                    I == {t[j] : j \in S}
                    f == [j \in S |-> t[j]]
        <3>1. S \subseteq D /\ k - 1 \in Nat /\ k \in Nat
            BY <1>1
        <3>2. IsFiniteSet(S) /\ Cardinality(S) = k - 1
            <4>1. 1 \in Int /\ k - 1 \in Int /\ (1 > k - 1 => k - 1 = 0)
                BY <1>1, <1>4
            <4>2. /\ IsFiniteSet(1 .. k - 1)
                  /\ Cardinality(1 .. k - 1) = IF 1 > k - 1 THEN 0 ELSE (k - 1) - 1 + 1
                BY <4>1, FS_Interval
            <4>. QED
                BY <4>1, <4>2
        <3>3. f \in Surjection(S, I)
            BY DEF Surjection
        <3>4. IsFiniteSet(I) /\ Cardinality(I) <= k - 1
            <4>. HIDE DEF S, I, f
            <4>. QED
                BY <3>2, <3>3, FS_Surjection
        <3>5. Menores(v, x) \subseteq I
            <4>. SUFFICES ASSUME NEW i \in D, v[i] < x PROVE i \in I
                BY <1>1 DEF Menores
            <4>1. PICK j \in D : t[j] = i
                BY <1>3
            <4>2. w[j] < w[k]
                BY <1>0, <4>1
            <4>3. ~ (k <= j)
                <5>1. w[j] \in Int /\ w[k] \in Int /\ ~ (w[k] <= w[j])
                    BY <1>1, <4>2
                <5>2. j \in 1 .. Len(w) /\ k \in 1 .. Len(w)
                    BY <1>0
                <5>. QED
                    BY <1>0, <5>1, <5>2, Crescente
            <4>4. j \in S
                BY <1>1, <4>3
            <4>. QED
                BY <4>1, <4>4
        <3>6. Cardinality(Menores(v, x)) <= Cardinality(I)
            <4>. HIDE DEF I, x
            <4>. QED
                BY <3>4, <3>5, FS_Subset
        <3>7. Cardinality(Menores(v, x)) \in Nat /\ Cardinality(I) \in Nat
            <4>1. Menores(v, x) \in SUBSET (DOMAIN v)
                BY DEF Menores
            <4>. HIDE DEF I, x
            <4>. QED
                BY <1>0, <3>4, <4>1, Finitos, FS_CardinalityType
        <3>. QED
            BY <3>1, <3>4, <3>6, <3>7
    <2>2. k <= Cardinality(AteValor(v, x))
        <3>. DEFINE S == 1 .. k
                    f == [j \in S |-> t[j]]
                    A == AteValor(v, x)
        <3>1. S \subseteq D /\ k \in Nat
            BY <1>1
        <3>2. IsFiniteSet(S) /\ Cardinality(S) = k
            BY <3>1, FS_Interval
        <3>3. \A j \in S : t[j] \in A
            <4>1. \A j \in S : w[j] <= w[k]
                <5>1. w \in Seq(Int) /\ k \in 1 .. Len(w) /\ \A j \in S : j \in 1 .. Len(w) /\ j <= k
                    BY <1>0, <1>1, <3>1
                <5>. QED
                    BY <5>1, Crescente
            <4>. QED
                BY <1>0, <1>1, <3>1, <4>1 DEF AteValor
        <3>4. f \in Injection(S, A)
            BY <1>0, <3>1, <3>3 DEF Injection, IsInjective
        <3>5. IsFiniteSet(A)
            <4>1. A \in SUBSET (DOMAIN v)
                BY DEF AteValor
            <4>. QED
                BY <1>0, <4>1, Finitos
        <3>6. Cardinality(S) <= Cardinality(A)
            <4>. HIDE DEF S, A, f
            <4>. QED
                BY <3>4, <3>5, FS_Injection
        <3>. QED
            BY <3>2, <3>6
    <2>. QED
        BY <2>1, <2>2 DEF NoLugar
<1>5. EmOrdem(v) =
          [k \in DOMAIN v |-> CHOOSE x \in {v[i] : i \in DOMAIN v} : NoLugar(v, x, k)]
    BY DEF EmOrdem
<1>6. ASSUME NEW k \in D
      PROVE  (CHOOSE x \in {v[i] : i \in DOMAIN v} : NoLugar(v, x, k)) = w[k]
    <2>. DEFINE V == {v[i] : i \in DOMAIN v}
                y == w[k]
    <2>1. y \in V /\ V \subseteq Int /\ k \in Nat /\ y \in Int
        <3>1. y = v[t[k]] /\ t[k] \in DOMAIN v /\ k \in Nat /\ y \in Int
            BY <1>0, <1>1, <1>6
        <3>2. \A i \in DOMAIN v : v[i] \in Int
            BY <1>1
        <3>. QED
            BY <3>1, <3>2
    <2>2. NoLugar(v, y, k)
        BY <1>4
    <2>3. \A x \in V : NoLugar(v, x, k) => x = y
        <3>. HIDE DEF V, y
        <3>. QED
            BY <1>0, <2>1, <2>2, UmNoLugar
    <2>4. (CHOOSE x \in V : NoLugar(v, x, k)) = y
        <3>. HIDE DEF V, y
        <3>1. \E x \in V : NoLugar(v, x, k)
            BY <2>1, <2>2
        <3>2. /\ (CHOOSE x \in V : NoLugar(v, x, k)) \in V
              /\ NoLugar(v, CHOOSE x \in V : NoLugar(v, x, k), k)
            BY <3>1
        <3>. QED
            BY <2>3, <3>2
    <2>. QED
        BY <2>4
<1>7. w = [k \in D |-> w[k]]
    BY <1>0, <1>1
<1>8. \A k \in D : EmOrdem(v)[k] = w[k]
    BY <1>1, <1>5, <1>6
<1>. QED
    BY <1>1, <1>5, <1>7, <1>8

LEMMA Contagem ==
    ASSUME NEW n \in Nat, NEW t \in [1 .. n -> 1 .. n],
           \A i, j \in 1 .. n : t[i] = t[j] => i = j,
           NEW A \in SUBSET (1 .. n), NEW B \in SUBSET (1 .. n),
           \A k \in 1 .. n : k \in B <=> t[k] \in A
    PROVE  Cardinality(B) = Cardinality(A)
<1>. DEFINE D == 1 .. n
            f == [k \in B |-> t[k]]
<1>1. IsFiniteSet(D)
    BY FS_Interval
<1>2. t \in Surjection(D, D)
    <2>1. t \in Injection(D, D)
        BY DEF Injection, IsInjective
    <2>. QED
        BY <1>1, <2>1, FS_Injection
<1>3. \A i \in D : \E j \in D : t[j] = i
    BY <1>2 DEF Surjection
<1>4. f \in Injection(B, A)
    BY DEF Injection, IsInjective
<1>5. f \in Surjection(B, A)
    <2>1. f \in [B -> A]
        BY <1>4 DEF Injection
    <2>2. ASSUME NEW i \in A PROVE \E j \in B : f[j] = i
        <3>1. PICK j \in D : t[j] = i
            BY <1>3
        <3>2. j \in B
            BY <3>1
        <3>. QED
            BY <3>1, <3>2
    <2>. QED
        BY <2>1, <2>2 DEF Surjection
<1>6. IsFiniteSet(A)
    BY <1>1, FS_Subset
<1>. QED
    <2>. HIDE DEF f
    <2>. QED
        BY <1>4, <1>5, <1>6, FS_Injection

\* What holds the same values has the same sorted vector.
LEMMA MesmaOrdem ==
    ASSUME NEW v, NEW w, NEW t, Reordena(v, w, t)
    PROVE  EmOrdem(w) = EmOrdem(v)
<1>. DEFINE n == Len(v)
            D == 1 .. n
<1>1. /\ v \in Seq(Int) /\ w \in Seq(Int) /\ DOMAIN v = D /\ DOMAIN w = D /\ n \in Nat
      /\ t \in [D -> D] /\ \A i, j \in D : t[i] = t[j] => i = j
      /\ \A k \in D : w[k] = v[t[k]]
    BY DEF Reordena
<1>. HIDE DEF n
<1>2. ASSUME NEW x PROVE /\ Cardinality(Menores(w, x)) = Cardinality(Menores(v, x))
                         /\ Cardinality(AteValor(w, x)) = Cardinality(AteValor(v, x))
    <2>1. /\ Menores(v, x) \in SUBSET D /\ Menores(w, x) \in SUBSET D
          /\ \A k \in D : k \in Menores(w, x) <=> t[k] \in Menores(v, x)
        BY <1>1 DEF Menores
    <2>2. /\ AteValor(v, x) \in SUBSET D /\ AteValor(w, x) \in SUBSET D
          /\ \A k \in D : k \in AteValor(w, x) <=> t[k] \in AteValor(v, x)
        BY <1>1 DEF AteValor
    <2>. HIDE DEF D
    <2>3. ASSUME NEW A \in SUBSET D, NEW B \in SUBSET D, \A k \in D : k \in B <=> t[k] \in A
          PROVE  Cardinality(B) = Cardinality(A)
        <3>1. /\ n \in Nat /\ t \in [1 .. n -> 1 .. n] /\ A \in SUBSET (1 .. n) /\ B \in SUBSET (1 .. n)
              /\ \A i, j \in 1 .. n : t[i] = t[j] => i = j
              /\ \A k \in 1 .. n : k \in B <=> t[k] \in A
            BY <1>1, <2>3 DEF D
        <3>. QED
            BY ONLY <3>1, Contagem
    <2>. QED
        BY <2>1, <2>2, <2>3
<1>3. \A x, k : NoLugar(w, x, k) <=> NoLugar(v, x, k)
    BY <1>2 DEF NoLugar
<1>4. {w[i] : i \in DOMAIN w} = {v[i] : i \in DOMAIN v}
    <2>1. IsFiniteSet(D) /\ t \in Injection(D, D)
        <3>1. IsFiniteSet(D)
            BY <1>1, FS_Interval
        <3>. QED
            BY <1>1, <3>1 DEF Injection, IsInjective
    <2>2. t \in Surjection(D, D)
        BY <2>1, FS_Injection
    <2>3. \A i \in D : \E j \in D : t[j] = i
        BY <2>2 DEF Surjection
    <2>4. ASSUME NEW i \in D PROVE v[i] \in {w[j] : j \in D} /\ w[i] \in {v[j] : j \in D}
        <3>1. PICK j \in D : t[j] = i
            BY <2>3
        <3>2. w[j] = v[i] /\ w[i] = v[t[i]] /\ t[i] \in D
            BY <1>1, <3>1
        <3>. QED
            BY <3>2
    <2>5. {w[j] : j \in D} = {v[j] : j \in D}
        <3>1. \A x \in {w[j] : j \in D} : x \in {v[j] : j \in D}
            BY <2>4
        <3>2. \A x \in {v[j] : j \in D} : x \in {w[j] : j \in D}
            BY <2>4
        <3>. QED
            BY <3>1, <3>2
    <2>. QED
        BY <1>1, <2>5
<1>5. \A k : (CHOOSE x \in {w[i] : i \in DOMAIN w} : NoLugar(w, x, k))
             = (CHOOSE x \in {v[i] : i \in DOMAIN v} : NoLugar(v, x, k))
    <2>. DEFINE V == {v[i] : i \in DOMAIN v}
                W == {w[i] : i \in DOMAIN w}
    <2>1. V = W
        BY <1>4
    <2>. HIDE DEF V, W
    <2>2. \A k : (CHOOSE x \in W : NoLugar(w, x, k)) = (CHOOSE x \in V : NoLugar(v, x, k))
        BY <1>3, <2>1
    <2>. QED
        BY <2>2 DEF V, W
<1>6. /\ EmOrdem(v) = [k \in D |-> CHOOSE x \in {v[i] : i \in DOMAIN v} : NoLugar(v, x, k)]
      /\ EmOrdem(w) = [k \in D |-> CHOOSE x \in {w[i] : i \in DOMAIN w} : NoLugar(w, x, k)]
    BY <1>1 DEF EmOrdem
<1>. QED
    BY <1>5, <1>6
=============================================================================
