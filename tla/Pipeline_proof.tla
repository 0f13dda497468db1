--------------------------- MODULE Pipeline_proof ---------------------------
(***************************************************************************)
(* Proofs about Pipeline, for any number of stages, any vector and any     *)
(* room in the library: the types, TudoNoLugar, Particao, and that the     *)
(* stages together implement Sorter.                                       *)
(*                                                                         *)
(* Contas says where the values a stage has taken are, in numbers only,    *)
(* and which stages may have come to their end; with all of them taken,    *)
(* nothing is left in a channel.  Particao needs what a round of the loop  *)
(* does to the kept vector (InserirInsere), shown turn by turn of its      *)
(* swaps.                                                                  *)
(*                                                                         *)
(* For Sorter, Conservado: every value in a file, a vector or a channel    *)
(* comes from a value of the input of its own, so that nothing is lost and *)
(* nothing made.  With Particao and with everything in place, the shares   *)
(* one after the other are the sorted input (ListaInteira).  Ficha says    *)
(* where the token is, and Impresso what has been printed by then.         *)
(***************************************************************************)
EXTENDS Pipeline, Sorter_proof

\* The stages that may still send values.
Ordenando(p) == pc[p] \in {"ordenar", "esperar"}

\* The part of the types that has no bound of its own.
Tipos ==
    /\ canal \in [Processo -> [Processo -> Seq(Int)]]
    /\ folga \in Folgas
    /\ entrada \in Entradas
    /\ pc \in [Processo -> {"ordenar", "avisar", "esperar", "tempo", "fim"}]
    /\ rodada \in [Processo -> Nat]
    /\ vector_aux \in [Processo -> Seq(Int)]
    /\ saida \in Seq(Int)

\* What stage p has taken is kept until task_size values are there; the others
\* are with the next stage, or on the way to it.
Conta(p) ==
    /\ rodada[p] <= Rodadas(p)
    /\ pc[p] = "ordenar" <=> rodada[p] < Rodadas(p)
    /\ rodada[p] <= task_size => Len(vector_aux[p]) = rodada[p]
    /\ rodada[p] >= task_size => Len(vector_aux[p]) = task_size
    /\ p < LAST_STAGE /\ Ordenando(p) =>
          Len(canal[p][p + 1]) = rodada[p] - Len(vector_aux[p]) - rodada[p + 1]

\* No stage begins before the one before it is full, or stops before it does, and
\* none hears of the end before the last stage has announced it.
Fases ==
    /\ \A p, q \in Processo : p < q =>
          /\ rodada[p] < task_size => rodada[q] = 0
          /\ pc[q] # "ordenar" => pc[p] # "ordenar"
    /\ \A p \in Processo :
          /\ pc[p] = "avisar" => p = LAST_STAGE
          /\ p < LAST_STAGE /\ ~ Ordenando(p) =>
                /\ pc[LAST_STAGE] # "ordenar"
                /\ \A k \in DOMAIN canal[p][p + 1] : canal[p][p + 1][k] \in {FIM, TEMPO}
    /\ canal[LAST_STAGE][FIRST_STAGE] # <<>> => pc[LAST_STAGE] # "ordenar"

Contas == (\A p \in Processo : Conta(p)) /\ Fases

IInv == Tipos /\ Contas /\ Particao

-----------------------------------------------------------------------------
Inicio(v, value) == [vetor |-> v, value |-> value]
Passo(v, value, f) ==
    [j \in 0 .. Len(v) |-> IF j = 0 THEN Inicio(v, value) ELSE Troca(f[j - 1], j)]

LEMMA PassagemExiste ==
    ASSUME NEW v \in Seq(Int), NEW value
    PROVE  \E f : f = Passo(v, value, f) /\ Passagem(v, value) = f[Len(v)]
<1>. DEFINE n == Len(v)
            Ate(k, f) == f = [j \in 0 .. k |-> IF j = 0 THEN Inicio(v, value) ELSE Troca(f[j - 1], j)]
            P == {k \in 0 .. n : \E f : Ate(k, f)}
<1>1. n \in Nat
    OBVIOUS
<1>2. 0 \in P
    <2>. DEFINE g == [j \in 0 .. 0 |-> Inicio(v, value)]
    <2>1. Ate(0, g)
        OBVIOUS
    <2>2. \E f : Ate(0, f)
        <3>. HIDE DEF Ate, g
        <3>. QED
            BY <2>1
    <2>. QED
        BY <1>1, <2>2
<1>3. ASSUME NEW k \in 1 .. n, k - 1 \in P PROVE k \in P
    <2>1. PICK h : Ate(k - 1, h)
        BY <1>3
    <2>. DEFINE g == [j \in 0 .. k |-> IF j = k THEN Troca(h[k - 1], k) ELSE h[j]]
    <2>2. \A j \in 0 .. k : g[j] = IF j = k THEN Troca(h[k - 1], k) ELSE h[j]
        OBVIOUS
    <2>3. \A j \in 0 .. k - 1 : h[j] = IF j = 0 THEN Inicio(v, value) ELSE Troca(h[j - 1], j)
        BY <2>1
    <2>4. \A j \in 0 .. k : g[j] = IF j = 0 THEN Inicio(v, value) ELSE Troca(g[j - 1], j)
        <3>. SUFFICES ASSUME NEW j \in 0 .. k
                      PROVE  g[j] = IF j = 0 THEN Inicio(v, value) ELSE Troca(g[j - 1], j)
            OBVIOUS
        <3>1. CASE j = k
            <4>1. k # 0 /\ k - 1 \in 0 .. k /\ k - 1 # k
                OBVIOUS
            <4>2. g[k - 1] = h[k - 1]
                BY <2>2, <4>1
            <4>. QED
                BY <2>2, <3>1, <4>1, <4>2
        <3>2. CASE j # k
            <4>1. j \in 0 .. k - 1 /\ (j # 0 => j - 1 \in 0 .. k /\ j - 1 # k)
                BY <3>2
            <4>2. g[j] = h[j] /\ (j # 0 => g[j - 1] = h[j - 1])
                BY <2>2, <3>2, <4>1
            <4>. QED
                BY <2>3, <4>1, <4>2
        <3>. QED
            BY <3>1, <3>2
    <2>5. Ate(k, g)
        BY <2>4
    <2>6. \E f : Ate(k, f)
        <3>. HIDE DEF Ate, g
        <3>. QED
            BY <2>5
    <2>. QED
        BY <1>1, <2>6
<1>4. n \in P
    <2>. HIDE DEF P, n
    <2>1. 0 .. n \subseteq P
        BY <1>1, <1>2, <1>3, Inducao
    <2>. QED
        BY <1>1, <2>1
<1>5. \E f : Ate(n, f)
    BY <1>4
<1>6. Ate(n, CHOOSE f : Ate(n, f))
    BY <1>5
<1>. QED
    BY <1>6 DEF Passagem, Passo, Inicio

Valores(v, value) == ToSet(v) \cup {value}

\* What has become of vector v and the value after the places up to j.
Meio(v, value, j, s) ==
    /\ s.vetor \in Seq(Int) /\ Len(s.vetor) = Len(v)
    /\ s.value \in Int /\ s.value \in Valores(v, value)
    /\ \A k \in 1 .. Len(v) :
          /\ s.vetor[k] \in Valores(v, value) /\ s.vetor[k] <= v[k]
          /\ k > j => s.vetor[k] = v[k]
          /\ k <= j => s.vetor[k] <= s.value
          /\ k <= j /\ k > 1 /\ Ordenado(v) => s.vetor[k - 1] <= s.vetor[k]

LEMMA InicioMeio ==
    ASSUME NEW v \in Seq(Int), NEW value \in Int
    PROVE  Meio(v, value, 0, Inicio(v, value))
BY DEF Meio, Inicio, Valores, ToSet

LEMMA TrocaMeio ==
    ASSUME NEW v \in Seq(Int), NEW value \in Int, NEW j \in 1 .. Len(v), NEW s,
           Meio(v, value, j - 1, s)
    PROVE  Meio(v, value, j, Troca(s, j))
<1>. DEFINE t == Troca(s, j)
<1>1. /\ s.vetor \in Seq(Int) /\ Len(s.vetor) = Len(v) /\ s.value \in Int
      /\ j \in Nat /\ j >= 1 /\ j <= Len(v) /\ Len(v) \in Nat
      /\ \A k \in 1 .. Len(v) : s.vetor[k] \in Int /\ v[k] \in Int
    BY DEF Meio
<1>2. s.vetor[j] = v[j]
    BY <1>1 DEF Meio
<1>3. CASE s.value < s.vetor[j]
    <2>1. t = [vetor |-> [s.vetor EXCEPT ![j] = s.value], value |-> s.vetor[j]]
        BY <1>3 DEF Troca
    <2>2. /\ t.vetor \in Seq(Int) /\ Len(t.vetor) = Len(v) /\ t.value = v[j]
          /\ \A k \in 1 .. Len(v) : t.vetor[k] = IF k = j THEN s.value ELSE s.vetor[k]
        BY <1>1, <1>2, <2>1
    <2>3. t.value \in Int /\ t.value \in Valores(v, value) /\ s.value < t.value
        BY <1>1, <1>2, <1>3, <2>2 DEF Valores, ToSet
    <2>. HIDE DEF t
    <2>4. ASSUME NEW k \in 1 .. Len(v)
          PROVE  /\ t.vetor[k] \in Valores(v, value) /\ t.vetor[k] <= v[k]
                 /\ k > j => t.vetor[k] = v[k]
                 /\ k <= j => t.vetor[k] <= t.value
                 /\ k <= j /\ k > 1 /\ Ordenado(v) => t.vetor[k - 1] <= t.vetor[k]
        <3>1. CASE k = j
            <4>1. t.vetor[k] = s.value /\ s.value \in Valores(v, value) /\ s.value <= v[k]
                BY <1>1, <1>2, <1>3, <2>2, <3>1 DEF Meio
            <4>2. k > 1 => t.vetor[k - 1] = s.vetor[k - 1] /\ s.vetor[k - 1] <= s.value
                BY <1>1, <2>2, <3>1 DEF Meio
            <4>. QED
                BY <1>1, <2>3, <3>1, <4>1, <4>2
        <3>2. CASE k # j
            <4>1. /\ t.vetor[k] = s.vetor[k] /\ s.vetor[k] <= v[k]
                  /\ s.vetor[k] \in Valores(v, value)
                  /\ k > j => s.vetor[k] = v[k]
                  /\ k < j => s.vetor[k] <= s.value
                <5>1. /\ k > j => k > j - 1
                      /\ k < j => k <= j - 1
                    BY <1>1
                <5>. QED
                    BY <2>2, <3>2, <5>1 DEF Meio
            <4>2. ASSUME k < j, k > 1, Ordenado(v) PROVE t.vetor[k - 1] <= t.vetor[k]
                <5>1. k <= j - 1 /\ k - 1 \in 1 .. Len(v) /\ k - 1 # j
                    BY <1>1, <4>2
                <5>2. s.vetor[k - 1] <= s.vetor[k]
                    BY <4>2, <5>1 DEF Meio
                <5>. QED
                    BY <2>2, <3>2, <5>1, <5>2
            <4>3. k <= j => k < j
                BY <1>1, <3>2
            <4>4. k <= j => t.vetor[k] <= t.value
                <5>1. s.vetor[k] \in Int /\ s.value \in Int /\ t.value \in Int
                    BY <1>1, <2>3
                <5>. QED
                    BY <2>3, <4>1, <4>3, <5>1
            <4>5. t.vetor[k] <= v[k] /\ t.vetor[k] \in Valores(v, value)
                BY <4>1
            <4>6. k > j => t.vetor[k] = v[k]
                BY <4>1
            <4>7. k <= j /\ k > 1 /\ Ordenado(v) => t.vetor[k - 1] <= t.vetor[k]
                BY <4>2, <4>3
            <4>. QED
                BY <4>4, <4>5, <4>6, <4>7
        <3>. QED
            BY <3>1, <3>2
    <2>. QED
        <3>1. Meio(v, value, j, t)
            BY <1>1, <2>2, <2>3, <2>4 DEF Meio
        <3>. QED
            BY <3>1 DEF t
<1>4. CASE ~ (s.value < s.vetor[j])
    <2>1. t = s
        BY <1>4 DEF Troca
    <2>2. s.vetor[j] <= s.value
        BY <1>1, <1>4
    <2>3. ASSUME NEW k \in 1 .. Len(v)
          PROVE  /\ s.vetor[k] \in Valores(v, value) /\ s.vetor[k] <= v[k]
                 /\ k > j => s.vetor[k] = v[k]
                 /\ k <= j => s.vetor[k] <= s.value
                 /\ k <= j /\ k > 1 /\ Ordenado(v) => s.vetor[k - 1] <= s.vetor[k]
        <3>1. k <= j /\ k > 1 /\ Ordenado(v) => s.vetor[k - 1] <= s.vetor[k]
            <4>1. ASSUME k = j, k > 1, Ordenado(v)
                  PROVE  v[k - 1] <= v[k] /\ s.vetor[k - 1] <= v[k - 1]
                <5>1. k - 1 \in 1 .. Len(v) /\ k \in DOMAIN v
                    BY <1>1, <4>1
                <5>2. v[k - 1] <= v[k]
                    BY <4>1, <5>1 DEF Ordenado
                <5>. QED
                    BY <5>1, <5>2 DEF Meio
            <4>2. k < j /\ k > 1 /\ Ordenado(v) => s.vetor[k - 1] <= s.vetor[k]
                BY <1>1 DEF Meio
            <4>. QED
                BY <1>1, <1>2, <4>1, <4>2
        <3>. QED
            BY <1>1, <2>2, <3>1 DEF Meio
    <2>. QED
        BY <1>1, <2>1, <2>3 DEF Meio
<1>. QED
    BY <1>3, <1>4

LEMMA PassagemMeio ==
    ASSUME NEW v \in Seq(Int), NEW value \in Int
    PROVE  Meio(v, value, Len(v), Passagem(v, value))
<1>1. PICK f : f = Passo(v, value, f) /\ Passagem(v, value) = f[Len(v)]
    BY PassagemExiste
<1>2. /\ Len(v) \in Nat
      /\ \A j \in 0 .. Len(v) : f[j] = IF j = 0 THEN Inicio(v, value) ELSE Troca(f[j - 1], j)
    <2>1. \A j \in 0 .. Len(v) :
             Passo(v, value, f)[j] = IF j = 0 THEN Inicio(v, value) ELSE Troca(f[j - 1], j)
        BY DEF Passo
    <2>. QED
        BY <1>1, <2>1
<1>. DEFINE P == {j \in 0 .. Len(v) : Meio(v, value, j, f[j])}
<1>3. 0 \in P
    BY <1>2, InicioMeio
<1>4. ASSUME NEW j \in 1 .. Len(v), j - 1 \in P PROVE j \in P
    <2>1. f[j] = Troca(f[j - 1], j) /\ Meio(v, value, j - 1, f[j - 1])
        BY <1>2, <1>4
    <2>. QED
        BY <2>1, TrocaMeio
<1>5. 0 .. Len(v) \subseteq P
    <2>. HIDE DEF P
    <2>. QED
        BY <1>2, <1>3, <1>4, Inducao
<1>6. Len(v) \in 0 .. Len(v)
    BY <1>2
<1>. QED
    BY <1>1, <1>5, <1>6

\* What a round promises: the greatest value is left over, if there is no room.
Inserido(v, value, r) ==
    /\ r.vetor \in Seq(Int) /\ ToSet(r.vetor) \subseteq Valores(v, value)
    /\ Ordenado(v) => Ordenado(r.vetor)
    /\ Len(v) < task_size => Len(r.vetor) = Len(v) + 1 /\ r.sobra = <<>>
    /\ Len(v) >= task_size =>
          /\ Len(r.vetor) = Len(v) /\ r.sobra # <<>>
          /\ r.sobra[1] \in Int /\ r.sobra[1] \in Valores(v, value)
          /\ \A k \in 1 .. Len(v) : r.vetor[k] <= v[k] /\ r.vetor[k] <= r.sobra[1]

LEMMA InserirInsere ==
    ASSUME NEW v \in Seq(Int), NEW value \in Int, task_size \in Nat,
           NEW r, r = Inserir(v, value)
    PROVE  Inserido(v, value, r)
<1>. DEFINE n == Len(v)
<1>0. PICK s : s = Passagem(v, value)
    OBVIOUS
<1>1. /\ s.vetor \in Seq(Int) /\ Len(s.vetor) = n /\ n \in Nat
      /\ s.value \in Int /\ s.value \in Valores(v, value)
      /\ \A k \in 1 .. n :
            /\ s.vetor[k] \in Valores(v, value) /\ s.vetor[k] <= v[k]
            /\ s.vetor[k] <= s.value
            /\ k > 1 /\ Ordenado(v) => s.vetor[k - 1] <= s.vetor[k]
    BY <1>0, PassagemMeio DEF Meio
<1>2. CASE n < task_size
    <2>. DEFINE w == Append(s.vetor, s.value)
    <2>1. r.vetor = w /\ r.sobra = <<>>
        BY <1>0, <1>2 DEF Inserir
    <2>2. /\ w \in Seq(Int) /\ Len(w) = n + 1 /\ DOMAIN w = 1 .. n + 1
          /\ \A k \in 1 .. n + 1 : w[k] = IF k = n + 1 THEN s.value ELSE s.vetor[k]
        BY <1>1
    <2>. HIDE DEF w
    <2>3. ASSUME NEW k \in 1 .. n + 1 PROVE w[k] \in Valores(v, value)
        <3>1. k # n + 1 => k \in 1 .. n
            BY <1>1
        <3>. QED
            BY <1>1, <2>2, <3>1
    <2>4. ASSUME Ordenado(v), NEW k \in 1 .. n + 1, k > 1 PROVE w[k - 1] <= w[k]
        <3>1. CASE k = n + 1
            <4>0. k - 1 \in 1 .. n /\ k - 1 \in 1 .. n + 1 /\ k - 1 # n + 1
                BY <1>1, <2>4, <3>1
            <4>1. k - 1 \in 1 .. n /\ w[k] = s.value /\ w[k - 1] = s.vetor[k - 1]
                BY <2>2, <3>1, <4>0
            <4>. QED
                BY <1>1, <4>1
        <3>2. CASE k # n + 1
            <4>1. /\ k \in 1 .. n /\ k \in 1 .. n + 1 /\ k - 1 \in 1 .. n + 1
                  /\ k - 1 # n + 1
                BY <1>1, <2>4, <3>2
            <4>2. w[k] = s.vetor[k] /\ w[k - 1] = s.vetor[k - 1]
                BY <2>2, <3>2, <4>1
            <4>. QED
                BY <1>1, <2>4, <4>1, <4>2
        <3>. QED
            BY <3>1, <3>2
    <2>5. ToSet(w) \subseteq Valores(v, value) /\ (Ordenado(v) => Ordenado(w))
        BY <2>2, <2>3, <2>4 DEF ToSet, Ordenado
    <2>. QED
        BY <1>1, <1>2, <2>1, <2>2, <2>5 DEF Inserido
<1>3. CASE ~ (n < task_size)
    <2>1. r.vetor = s.vetor /\ r.sobra = <<s.value>>
        BY <1>0, <1>3 DEF Inserir
    <2>2. ToSet(s.vetor) \subseteq Valores(v, value) /\ (Ordenado(v) => Ordenado(s.vetor))
        <3>1. DOMAIN s.vetor = 1 .. n
            BY <1>1
        <3>. QED
            BY <1>1, <3>1 DEF ToSet, Ordenado
    <2>3. r.sobra # <<>> /\ r.sobra[1] = s.value
        BY <2>1
    <2>. QED
        BY <1>1, <1>3, <2>1, <2>2, <2>3 DEF Inserido
<1>. QED
    BY <1>2, <1>3

-----------------------------------------------------------------------------
(***************************************************************************)
(* Stages, rounds and channels.                                            *)
(***************************************************************************)
LEMMA Numeros ==
    /\ np \in Nat /\ np > 1 /\ LAST_STAGE \in Int /\ LAST_STAGE = np - 1
    /\ LAST_STAGE \in Processo /\ FIRST_STAGE \in Processo /\ FIRST_STAGE # LAST_STAGE
    /\ FIRST_STAGE = 0
BY NpAssumption DEF LAST_STAGE, FIRST_STAGE, Processo

LEMMA Vizinhos ==
    ASSUME NEW p \in Processo
    PROVE  /\ p \in Int /\ p >= FIRST_STAGE /\ p <= LAST_STAGE
           /\ p < LAST_STAGE \/ p # LAST_STAGE =>
                 p < LAST_STAGE /\ p + 1 \in Processo /\ p + 1 # p
           /\ p # FIRST_STAGE =>
                 p - 1 < LAST_STAGE /\ p - 1 \in Processo /\ p - 1 # p /\ (p - 1) + 1 = p
BY NpAssumption DEF LAST_STAGE, FIRST_STAGE, Processo

LEMMA Divisao ==
    ASSUME NEW n \in Nat, NEW t \in Nat, n > 0, t > 0, n % t = 0
    PROVE  n = t * (n \div t) /\ n \div t \in Nat \ {0}
<1>1. n = t * (n \div t) + (n % t) /\ n \div t \in Int
    OBVIOUS
<1>2. n \div t <= 0 => t * (n \div t) <= 0
    BY <1>1
<1>3. t * (n \div t) \in Int
    BY <1>1
<1>4. n = t * (n \div t)
    BY <1>1, <1>3
<1>5. ~ (n \div t <= 0)
    BY <1>2, <1>3, <1>4
<1>. QED
    BY <1>1, <1>4, <1>5

LEMMA Tarefas ==
    ASSUME entrada \in Entradas
    PROVE  /\ task_size \in Nat /\ task_size > 0
           /\ entrada \in Seq(Int) /\ Len(entrada) = Rodadas(FIRST_STAGE)
           /\ Rodadas(LAST_STAGE) = task_size
           /\ \A p \in Processo :
                 /\ Rodadas(p) \in Nat /\ Rodadas(p) >= task_size
                 /\ Rodadas(p) <= Len(entrada)
                 /\ Rodadas(p + 1) = Rodadas(p) - task_size
<1>. DEFINE t == task_size
<1>1. /\ entrada \in Seq(Int) /\ Len(entrada) \in Nat /\ Len(entrada) > 0
      /\ Len(entrada) % np = 0 /\ np \in Nat /\ np > 1
    BY EntradasAssumption, Numeros, Vizinhos
<1>2. Len(entrada) = np * t /\ t \in Nat \ {0}
    BY <1>1, Divisao DEF task_size
<1>. HIDE DEF t
<1>3. ASSUME NEW p \in Int
      PROVE  /\ Rodadas(p) = Len(entrada) - t * p /\ Rodadas(p) \in Int
             /\ Rodadas(p + 1) = Rodadas(p) - t
    <2>1. t * (p + 1) = t * p + t /\ t * p \in Int
        BY <1>2
    <2>. QED
        BY <1>1, <1>2, <2>1 DEF Rodadas, t
<1>4. ASSUME NEW p \in Processo
      PROVE  Rodadas(p) \in Nat /\ Rodadas(p) >= t /\ Rodadas(p) <= Len(entrada)
    <2>1. p \in Nat /\ np - p \in Nat /\ np - p >= 1
        BY NpAssumption DEF Processo
    <2>2. t * (np - p) >= t /\ t * p >= 0
        BY <1>2, <2>1
    <2>3. t * (np - p) = np * t - t * p /\ t * p \in Int
        BY <1>1, <1>2, <2>1
    <2>4. Rodadas(p) = t * (np - p) /\ t * p \in Int
        BY <1>1, <1>2, <1>3, <2>1, <2>3
    <2>. QED
        BY <1>1, <1>2, <1>3, <2>1, <2>2, <2>4
<1>5. Rodadas(np) = 0
    <2>1. t * np = np * t /\ np * t \in Int
        BY <1>1, <1>2
    <2>. QED
        BY <1>1, <1>2, <1>3, <2>1
<1>6. Rodadas(LAST_STAGE) = t
    <2>1. np = LAST_STAGE + 1 /\ LAST_STAGE \in Int
        BY Numeros, Vizinhos
    <2>. QED
        BY <1>2, <1>3, <1>5, <2>1
<1>7. Rodadas(FIRST_STAGE) = Len(entrada)
    BY <1>1, <1>2, <1>3, Numeros, Vizinhos
<1>. QED
    BY <1>1, <1>2, <1>3, <1>4, <1>6, <1>7, Numeros, Vizinhos DEF t

LEMMA Resto ==
    ASSUME NEW s \in Seq(Int), s # <<>>
    PROVE  /\ Head(s) \in Int /\ Head(s) = s[1] /\ 1 \in DOMAIN s
           /\ Tail(s) \in Seq(Int) /\ Len(Tail(s)) = Len(s) - 1
           /\ \A k \in DOMAIN Tail(s) : Tail(s)[k] = s[k + 1] /\ k + 1 \in DOMAIN s
OBVIOUS

LEMMA Mais ==
    ASSUME NEW s \in Seq(Int), NEW m \in Int
    PROVE  /\ Append(s, m) \in Seq(Int) /\ Append(s, m) # <<>>
           /\ Len(Append(s, m)) = Len(s) + 1
           /\ \A k \in DOMAIN Append(s, m) :
                 IF k = Len(s) + 1 THEN Append(s, m)[k] = m
                 ELSE k \in DOMAIN s /\ Append(s, m)[k] = s[k]
OBVIOUS

Canais == [Processo -> [Processo -> Seq(Int)]]

\* The channels d are the channels c, but for what is on its way from p to q.
Muda(c, d, p, q, fila) ==
    /\ d \in Canais
    /\ \A x, y \in Processo : d[x][y] = IF x = p /\ y = q THEN fila ELSE c[x][y]

LEMMA Envio ==
    ASSUME NEW c \in Canais, NEW p \in Processo, NEW q \in Processo, NEW m \in Int
    PROVE  Muda(c, MPI_Send(c, p, q, m), p, q, Append(c[p][q], m))
<1>1. Append(c[p][q], m) \in Seq(Int)
    BY Mais DEF Canais
<1>. QED
    BY <1>1 DEF MPI_Send, Canais, Muda

LEMMA Recepcao ==
    ASSUME NEW c \in Canais, NEW p \in Processo, NEW q \in Processo, c[p][q] # <<>>
    PROVE  Muda(c, MPI_Recv(c, p, q), p, q, Tail(c[p][q]))
<1>1. Tail(c[p][q]) \in Seq(Int)
    BY Resto DEF Canais
<1>. QED
    BY <1>1 DEF MPI_Recv, Canais, Muda

-----------------------------------------------------------------------------
(***************************************************************************)
(* What a step does.                                                       *)
(***************************************************************************)
\* Stage p has made a round with value, which comes from the stage before it.
Rodou(p, value, r) ==
    /\ pc[p] = "ordenar" /\ value \in Int
    /\ r = Inserir(vector_aux[p], value) /\ Inserido(vector_aux[p], value, r)
    /\ p = FIRST_STAGE => value = entrada[rodada[p] + 1]
    /\ vector_aux' = [vector_aux EXCEPT ![p] = r.vetor]
    /\ rodada' = [rodada EXCEPT ![p] = @ + 1]
    /\ pc' = IF rodada[p] + 1 < Rodadas(p) THEN pc
             ELSE [pc EXCEPT ![p] = IF p = LAST_STAGE THEN "avisar" ELSE "esperar"]
    /\ UNCHANGED <<folga, entrada, saida>>
    /\ p # FIRST_STAGE => canal[p - 1][p] # <<>> /\ value = Head(canal[p - 1][p])
    /\ p = LAST_STAGE => r.sobra = <<>>
    /\ canal' \in Canais
    /\ \A x, y \in Processo :
          canal'[x][y] = IF r.sobra # <<>> /\ x = p /\ y = p + 1
                         THEN Append(canal[p][p + 1], r.sobra[1])
                         ELSE IF p # FIRST_STAGE /\ x = p - 1 /\ y = p
                         THEN Tail(canal[p - 1][p]) ELSE canal[x][y]

LEMMA RodadaEfeito ==
    ASSUME Tipos, Contas, NEW p \in Processo,
           (p = FIRST_STAGE /\ OrdenarPrimeiro) \/ Ordenar(p)
    PROVE  \E value, r : Rodou(p, value, r)
<1>1. /\ canal \in Canais /\ vector_aux[p] \in Seq(Int) /\ rodada[p] \in Nat
      /\ Conta(p)
    BY DEF Tipos, Canais, Contas
<1>2. /\ task_size \in Nat /\ task_size > 0 /\ entrada \in Seq(Int)
      /\ Len(entrada) = Rodadas(FIRST_STAGE) /\ Rodadas(LAST_STAGE) = task_size
      /\ Rodadas(p) \in Nat
    BY Tarefas DEF Tipos
<1>3. PICK value, c :
         /\ Rodada(p, value, c) /\ value \in Int /\ c \in Canais
         /\ p = FIRST_STAGE => value = entrada[rodada[p] + 1]
         /\ p # FIRST_STAGE => canal[p - 1][p] # <<>> /\ value = Head(canal[p - 1][p])
         /\ \A x, y \in Processo :
               c[x][y] = IF p # FIRST_STAGE /\ x = p - 1 /\ y = p
                         THEN Tail(canal[p - 1][p]) ELSE canal[x][y]
    <2>1. CASE p = FIRST_STAGE /\ OrdenarPrimeiro
        <3>1. Rodada(p, entrada[rodada[p] + 1], canal)
            BY <2>1 DEF OrdenarPrimeiro
        <3>2. rodada[p] < Len(entrada)
            BY <1>1, <1>2, <2>1, <3>1 DEF Rodada, Em, Conta
        <3>3. entrada[rodada[p] + 1] \in Int
            BY <1>1, <1>2, <3>2
        <3>. QED
            BY <1>1, <2>1, <3>1, <3>3
    <2>2. CASE Ordenar(p)
        <3>1. /\ p # FIRST_STAGE /\ canal[p - 1][p] # <<>> /\ p - 1 \in Processo
              /\ Rodada(p, Head(canal[p - 1][p]), MPI_Recv(canal, p - 1, p))
            <4>1. /\ p # FIRST_STAGE /\ canal[p - 1][p] # <<>>
                  /\ Rodada(p, Head(canal[p - 1][p]), MPI_Recv(canal, p - 1, p))
                BY <2>2 DEF Ordenar, Chegou
            <4>. QED
                BY <4>1, Numeros, Vizinhos
        <3>2. Head(canal[p - 1][p]) \in Int
            BY <1>1, <3>1, Resto DEF Canais
        <3>3. Muda(canal, MPI_Recv(canal, p - 1, p), p - 1, p, Tail(canal[p - 1][p]))
            BY <1>1, <3>1, Recepcao
        <3>. QED
            BY <3>1, <3>2, <3>3 DEF Muda
    <2>. QED
        BY <2>1, <2>2
<1>4. PICK r : r = Inserir(vector_aux[p], value)
    OBVIOUS
<1>5. Inserido(vector_aux[p], value, r)
    BY <1>1, <1>2, <1>3, <1>4, InserirInsere
<1>6. /\ pc[p] = "ordenar"
      /\ vector_aux' = [vector_aux EXCEPT ![p] = r.vetor]
      /\ canal' = IF r.sobra = <<>> THEN c ELSE MPI_Send(c, p, p + 1, r.sobra[1])
      /\ rodada' = [rodada EXCEPT ![p] = @ + 1]
      /\ pc' = IF rodada[p] + 1 < Rodadas(p) THEN pc
               ELSE [pc EXCEPT ![p] = IF p = LAST_STAGE THEN "avisar" ELSE "esperar"]
      /\ UNCHANGED <<folga, entrada, saida>>
    BY <1>3, <1>4 DEF Rodada, Em
<1>7. p = LAST_STAGE => r.sobra = <<>>
    <2>. SUFFICES ASSUME p = LAST_STAGE PROVE r.sobra = <<>>
        OBVIOUS
    <2>1. rodada[p] < task_size
        BY <1>1, <1>2, <1>6 DEF Conta
    <2>2. Len(vector_aux[p]) < task_size
        BY <1>1, <1>2, <2>1 DEF Conta
    <2>. QED
        BY <1>5, <2>2 DEF Inserido
<1>8. /\ canal' \in Canais
      /\ \A x, y \in Processo :
            canal'[x][y] = IF r.sobra # <<>> /\ x = p /\ y = p + 1
                           THEN Append(c[p][p + 1], r.sobra[1]) ELSE c[x][y]
    <2>1. CASE r.sobra = <<>>
        BY <1>3, <1>6, <2>1
    <2>2. CASE r.sobra # <<>>
        <3>1. Len(vector_aux[p]) >= task_size
            BY <1>1, <1>2, <1>5, <2>2 DEF Inserido
        <3>2. r.sobra[1] \in Int
            BY <1>5, <3>1 DEF Inserido
        <3>3. p + 1 \in Processo
            BY <1>7, <2>2, Numeros, Vizinhos
        <3>. QED
            <4>1. canal' = MPI_Send(c, p, p + 1, r.sobra[1])
                BY <1>6, <2>2
            <4>2. Muda(c, canal', p, p + 1, Append(c[p][p + 1], r.sobra[1]))
                BY <1>3, <3>2, <3>3, <4>1, Envio
            <4>. QED
                BY <2>2, <4>2 DEF Muda
    <2>. QED
        BY <2>1, <2>2
<1>9. r.sobra # <<>> => c[p][p + 1] = canal[p][p + 1]
    <2>. SUFFICES ASSUME r.sobra # <<>> PROVE c[p][p + 1] = canal[p][p + 1]
        OBVIOUS
    <2>1. p + 1 \in Processo /\ p + 1 # p
        BY <1>7, Numeros, Vizinhos
    <2>. QED
        BY <1>3, <2>1
<1>10. Rodou(p, value, r)
    BY <1>3, <1>4, <1>5, <1>6, <1>7, <1>8, <1>9 DEF Rodou
<1>. QED
    BY <1>10

\* Nothing is on the way to a stage that has finished, but signs.
LEMMA Vazio ==
    ASSUME Tipos, Contas, NEW p \in Processo, p < LAST_STAGE, Ordenando(p),
           pc[p + 1] # "ordenar"
    PROVE  canal[p][p + 1] = <<>>
<1>1. p \in Int /\ p + 1 \in Processo /\ p < p + 1
    BY Numeros, Vizinhos
<1>2. /\ task_size \in Nat /\ Rodadas(p) \in Nat /\ Rodadas(p) >= task_size
      /\ Rodadas(p + 1) = Rodadas(p) - task_size
    BY Tarefas DEF Tipos
<1>3. /\ rodada[p] \in Nat /\ rodada[p + 1] \in Nat
      /\ canal[p][p + 1] \in Seq(Int)
    BY <1>1 DEF Tipos
<1>4. pc[p] # "ordenar"
    BY <1>1 DEF Contas, Fases
<1>5. rodada[p] = Rodadas(p) /\ rodada[p + 1] = Rodadas(p + 1)
    <2>1. rodada[p] <= Rodadas(p) /\ ~ (rodada[p] < Rodadas(p))
        BY <1>4 DEF Contas, Conta
    <2>2. rodada[p + 1] <= Rodadas(p + 1) /\ ~ (rodada[p + 1] < Rodadas(p + 1))
        BY <1>1 DEF Contas, Conta
    <2>. QED
        BY <1>2, <1>3, <2>1, <2>2
<1>6. Len(vector_aux[p]) = task_size
    BY <1>2, <1>5 DEF Contas, Conta
<1>7. Len(canal[p][p + 1]) = rodada[p] - Len(vector_aux[p]) - rodada[p + 1]
    BY DEF Contas, Conta
<1>8. Len(canal[p][p + 1]) = 0
    BY <1>2, <1>5, <1>6, <1>7
<1>. QED
    BY <1>3, <1>8

\* Once the last stage is through, all are.
LEMMA Fim ==
    ASSUME Tipos, Contas, pc[LAST_STAGE] # "ordenar", NEW p \in Processo
    PROVE  /\ pc[p] # "ordenar" /\ rodada[p] = Rodadas(p)
           /\ Len(vector_aux[p]) = task_size
           /\ p < LAST_STAGE /\ Ordenando(p) => canal[p][p + 1] = <<>>
<1>1. /\ task_size \in Nat /\ Rodadas(p) \in Nat /\ Rodadas(p) >= task_size
      /\ rodada[p] \in Nat /\ Conta(p)
    BY Tarefas DEF Tipos, Contas
<1>2. \A q \in Processo : pc[q] # "ordenar"
    <2>1. \A q \in Processo : q = LAST_STAGE \/ q < LAST_STAGE
        BY Numeros, Vizinhos
    <2>. QED
        BY <2>1, Numeros, Vizinhos DEF Contas, Fases
<1>3. rodada[p] = Rodadas(p)
    BY <1>1, <1>2 DEF Conta
<1>4. Len(vector_aux[p]) = task_size
    BY <1>1, <1>3 DEF Conta
<1>5. p < LAST_STAGE => p + 1 \in Processo
    BY Numeros, Vizinhos
<1>. QED
    BY <1>2, <1>3, <1>4, <1>5, Vazio

LEMMA TudoChegou == Tipos /\ Contas => TudoNoLugar
<1>. SUFFICES ASSUME Tipos, Contas, pc[LAST_STAGE] # "ordenar", NEW p \in Processo
              PROVE  /\ Len(vector_aux[p]) = task_size
                     /\ rodada[p] = Rodadas(p)
                     /\ p < LAST_STAGE => \A k \in DOMAIN canal[p][p + 1] :
                                             canal[p][p + 1][k] \in {FIM, TEMPO}
    BY DEF TudoNoLugar
<1>1. ASSUME p < LAST_STAGE, NEW k \in DOMAIN canal[p][p + 1]
      PROVE  canal[p][p + 1][k] \in {FIM, TEMPO}
    <2>1. CASE Ordenando(p)
        BY <1>1, <2>1, Fim
    <2>2. CASE ~ Ordenando(p)
        BY <1>1, <2>2 DEF Contas, Fases
    <2>. QED
        BY <2>1, <2>2
<1>. QED
    BY <1>1, Fim

\* A stage that receives a value is not ahead of the ones before it.
LEMMA Antes ==
    ASSUME Tipos, Contas, NEW p \in Processo, pc[p] = "ordenar"
    PROVE  /\ pc[LAST_STAGE] = "ordenar"
           /\ \A q \in Processo : q < LAST_STAGE => Ordenando(q)
           /\ p # FIRST_STAGE /\ canal[p - 1][p] # <<>> =>
                 /\ p - 1 \in Processo /\ p - 1 < LAST_STAGE
                 /\ rodada[p - 1] >= task_size + rodada[p] + 1
<1>1. pc[LAST_STAGE] = "ordenar"
    BY Fim
<1>2. \A q \in Processo : q < LAST_STAGE => Ordenando(q)
    BY <1>1 DEF Contas, Fases
<1>3. ASSUME p # FIRST_STAGE, canal[p - 1][p] # <<>>
      PROVE  /\ p - 1 \in Processo /\ p - 1 < LAST_STAGE
             /\ rodada[p - 1] >= task_size + rodada[p] + 1
    <2>1. p - 1 \in Processo /\ p - 1 < LAST_STAGE /\ (p - 1) + 1 = p
        BY <1>3, Numeros, Vizinhos
    <2>2. canal[p - 1][p] \in Seq(Int) /\ rodada[p - 1] \in Nat /\ rodada[p] \in Nat
        BY <2>1 DEF Tipos
    <2>3. Len(canal[p - 1][p]) >= 1 /\ Len(canal[p - 1][p]) \in Nat
        BY <1>3, <2>2
    <2>4. Len(canal[p - 1][p]) = rodada[p - 1] - Len(vector_aux[p - 1]) - rodada[p]
        BY <1>2, <2>1 DEF Contas, Conta
    <2>5. /\ rodada[p - 1] <= task_size => Len(vector_aux[p - 1]) = rodada[p - 1]
          /\ rodada[p - 1] >= task_size => Len(vector_aux[p - 1]) = task_size
        BY <2>1 DEF Contas, Conta
    <2>6. task_size \in Nat
        BY Tarefas DEF Tipos
    <2>. QED
        BY <2>1, <2>2, <2>3, <2>4, <2>5, <2>6
<1>. QED
    BY <1>1, <1>2, <1>3

-----------------------------------------------------------------------------
(***************************************************************************)
(* The rounds.                                                             *)
(***************************************************************************)
\* The numbers of a round.
LEMMA RodouNumeros ==
    ASSUME Tipos, Contas, NEW p \in Processo, NEW value, NEW r, Rodou(p, value, r)
    PROVE  /\ task_size \in Nat /\ task_size > 0 /\ task_size' = task_size
           /\ rodada[p] \in Nat /\ rodada'[p] = rodada[p] + 1
           /\ rodada[p] < Rodadas(p) /\ vector_aux'[p] = r.vetor
           /\ r.vetor \in Seq(Int)
           /\ r.sobra # <<>> => r.sobra[1] \in Int
           /\ r.sobra # <<>> <=> rodada[p] >= task_size
           /\ Len(r.vetor) = IF rodada[p] >= task_size THEN task_size ELSE rodada[p] + 1
           /\ \A q \in Processo :
                 /\ Rodadas(q)' = Rodadas(q) /\ Rodadas(q) \in Nat
                 /\ q # p => /\ rodada'[q] = rodada[q] /\ pc'[q] = pc[q]
                             /\ vector_aux'[q] = vector_aux[q]
<1>1. task_size \in Nat /\ task_size > 0 /\ \A q \in Processo : Rodadas(q) \in Nat
    BY Tarefas DEF Tipos
<1>2. entrada' = entrada
    BY DEF Rodou
<1>3. task_size' = task_size /\ \A q \in Processo : Rodadas(q)' = Rodadas(q)
    BY <1>2 DEF task_size, Rodadas
<1>4. /\ rodada[p] \in Nat /\ rodada'[p] = rodada[p] + 1 /\ vector_aux'[p] = r.vetor
      /\ \A q \in Processo : q # p => /\ rodada'[q] = rodada[q] /\ pc'[q] = pc[q]
                                       /\ vector_aux'[q] = vector_aux[q]
    BY DEF Rodou, Tipos
<1>5. rodada[p] < Rodadas(p)
    BY DEF Rodou, Contas, Conta
<1>6. /\ rodada[p] <= task_size => Len(vector_aux[p]) = rodada[p]
      /\ rodada[p] >= task_size => Len(vector_aux[p]) = task_size
    BY DEF Contas, Conta
<1>7. Inserido(vector_aux[p], value, r)
    BY DEF Rodou
<1>8. CASE rodada[p] >= task_size
    <2>1. Len(vector_aux[p]) = task_size
        BY <1>6, <1>8
    <2>. QED
        BY <1>1, <1>3, <1>4, <1>5, <1>7, <1>8, <2>1 DEF Inserido
<1>9. CASE ~ (rodada[p] >= task_size)
    <2>1. Len(vector_aux[p]) = rodada[p] /\ rodada[p] < task_size
        BY <1>1, <1>4, <1>6, <1>9
    <2>. QED
        BY <1>1, <1>3, <1>4, <1>5, <1>7, <1>9, <2>1 DEF Inserido
<1>. QED
    BY <1>8, <1>9

LEMMA RodouTipos ==
    ASSUME Tipos, Contas, NEW p \in Processo, NEW value, NEW r, Rodou(p, value, r)
    PROVE  Tipos'
<1>1. r.vetor \in Seq(Int) /\ rodada[p] + 1 \in Nat
    BY RodouNumeros
<1>. QED
    BY <1>1 DEF Rodou, Tipos, Canais

LEMMA RodouConta ==
    ASSUME Tipos, Contas, NEW p \in Processo, NEW value, NEW r, Rodou(p, value, r),
           NEW q \in Processo
    PROVE  Conta(q)'
<1>. DEFINE n == rodada[p]
<1>1. /\ task_size \in Nat /\ task_size > 0 /\ task_size' = task_size
      /\ n \in Nat /\ rodada'[p] = n + 1 /\ n < Rodadas(p) /\ vector_aux'[p] = r.vetor
      /\ r.sobra # <<>> => r.sobra[1] \in Int
      /\ r.sobra # <<>> <=> n >= task_size
      /\ Len(r.vetor) = IF n >= task_size THEN task_size ELSE n + 1
    BY RodouNumeros
<1>2. \A x \in Processo : /\ Rodadas(x)' = Rodadas(x) /\ Rodadas(x) \in Nat
                          /\ x # p => /\ rodada'[x] = rodada[x] /\ pc'[x] = pc[x]
                                      /\ vector_aux'[x] = vector_aux[x]
    BY RodouNumeros
<1>3. Conta(q) /\ Conta(p)
    BY DEF Contas
<1>4. \A x, y \in Processo :
          canal'[x][y] = IF r.sobra # <<>> /\ x = p /\ y = p + 1
                         THEN Append(canal[p][p + 1], r.sobra[1])
                         ELSE IF p # FIRST_STAGE /\ x = p - 1 /\ y = p
                         THEN Tail(canal[p - 1][p]) ELSE canal[x][y]
    BY DEF Rodou
<1>5. CASE q = p
    <2>1. rodada'[p] <= Rodadas(p) /\ (pc'[p] = "ordenar" <=> n + 1 < Rodadas(p))
        <3>1. pc[p] = "ordenar" /\ pc \in [Processo -> {"ordenar", "avisar", "esperar", "tempo", "fim"}]
            BY DEF Rodou, Tipos
        <3>2. pc' = IF n + 1 < Rodadas(p) THEN pc
                    ELSE [pc EXCEPT ![p] = IF p = LAST_STAGE THEN "avisar" ELSE "esperar"]
            BY DEF Rodou
        <3>3. pc'[p] = "ordenar" <=> n + 1 < Rodadas(p)
            BY <3>1, <3>2
        <3>. QED
            BY <1>1, <1>2, <3>3
    <2>2. /\ n + 1 <= task_size => Len(vector_aux'[p]) = n + 1
          /\ n + 1 >= task_size => Len(vector_aux'[p]) = task_size
        BY <1>1
    <2>3. ASSUME p < LAST_STAGE
          PROVE  Len(canal'[p][p + 1]) = rodada'[p] - Len(vector_aux'[p]) - rodada'[p + 1]
        <3>1. p + 1 \in Processo /\ p + 1 # p /\ p # p - 1
            BY <2>3, Vizinhos
        <3>2. Ordenando(p)
            BY DEF Rodou, Ordenando
        <3>3. /\ Len(canal[p][p + 1]) = n - Len(vector_aux[p]) - rodada[p + 1]
              /\ n <= task_size => Len(vector_aux[p]) = n
              /\ n >= task_size => Len(vector_aux[p]) = task_size
            BY <1>3, <2>3, <3>2 DEF Conta
        <3>4. canal[p][p + 1] \in Seq(Int) /\ rodada[p + 1] \in Nat
            BY <3>1 DEF Tipos
        <3>5. rodada'[p + 1] = rodada[p + 1]
            BY <1>2, <3>1
        <3>6. CASE n >= task_size
            <4>1. canal'[p][p + 1] = Append(canal[p][p + 1], r.sobra[1]) /\ r.sobra[1] \in Int
                BY <1>1, <1>4, <3>1, <3>6
            <4>2. Len(canal'[p][p + 1]) = Len(canal[p][p + 1]) + 1
                BY <3>4, <4>1, Mais
            <4>3. Len(vector_aux'[p]) = task_size /\ Len(vector_aux[p]) = task_size
                BY <1>1, <3>3, <3>6
            <4>4. Len(canal'[p][p + 1]) = n - task_size - rodada[p + 1] + 1
                BY <3>3, <4>2, <4>3
            <4>. QED
                BY <1>1, <3>4, <3>5, <4>3, <4>4
        <3>7. CASE ~ (n >= task_size)
            <4>1. canal'[p][p + 1] = canal[p][p + 1]
                BY <1>1, <1>4, <3>1, <3>7
            <4>. QED
                BY <1>1, <3>3, <3>4, <3>5, <3>7, <4>1
        <3>. QED
            BY <3>6, <3>7
    <2>4. /\ rodada'[p] = n + 1 /\ task_size' = task_size /\ Rodadas(p)' = Rodadas(p)
          /\ pc'[p] = "ordenar" <=> rodada'[p] < Rodadas(p)
        BY <1>1, <1>2, <2>1
    <2>. HIDE DEF n
    <2>5. /\ (rodada[p] <= Rodadas(p))'
          /\ (pc[p] = "ordenar" <=> rodada[p] < Rodadas(p))'
        BY <2>1, <2>4
    <2>6. /\ (rodada[p] <= task_size => Len(vector_aux[p]) = rodada[p])'
          /\ (rodada[p] >= task_size => Len(vector_aux[p]) = task_size)'
        BY <2>2, <2>4
    <2>7. (p < LAST_STAGE /\ Ordenando(p) =>
              Len(canal[p][p + 1]) = rodada[p] - Len(vector_aux[p]) - rodada[p + 1])'
        <3>1. LAST_STAGE' = LAST_STAGE
            BY DEF LAST_STAGE
        <3>. QED
            BY <2>3, <3>1
    <2>. QED
        BY <1>5, <2>5, <2>6, <2>7 DEF Conta
<1>6. CASE q # p
    <2>1. /\ Rodadas(q)' = Rodadas(q) /\ rodada'[q] = rodada[q] /\ pc'[q] = pc[q]
          /\ vector_aux'[q] = vector_aux[q]
        BY <1>2, <1>6
    <2>2. ASSUME q < LAST_STAGE, Ordenando(q)
          PROVE  Len(canal'[q][q + 1]) = rodada'[q] - Len(vector_aux'[q]) - rodada'[q + 1]
        <3>1. q \in Int /\ q + 1 \in Processo /\ p \in Int /\ FIRST_STAGE = 0 /\ q >= FIRST_STAGE
            BY <2>2, Numeros, Vizinhos
        <3>2. Len(canal[q][q + 1]) = rodada[q] - Len(vector_aux[q]) - rodada[q + 1]
            BY <1>3, <2>2 DEF Conta
        <3>3. CASE q + 1 = p
            <4>1. p # FIRST_STAGE /\ q = p - 1
                BY <3>1, <3>3
            <4>2. canal[q][p] # <<>> /\ canal[q][p] \in Seq(Int)
                BY <4>1 DEF Rodou, Tipos
            <4>3. canal'[q][p] = Tail(canal[q][p])
                BY <1>4, <1>6, <4>1
            <4>4. Len(canal'[q][p]) = Len(canal[q][p]) - 1
                BY <4>2, <4>3, Resto
            <4>5. rodada[q] \in Nat /\ Len(vector_aux[q]) \in Nat
                BY DEF Tipos
            <4>6. /\ Len(canal'[q][q + 1]) = Len(canal[q][p]) - 1
                  /\ rodada'[q + 1] = rodada[p] + 1 /\ rodada[p] \in Nat
                  /\ Len(canal[q][p]) = rodada[q] - Len(vector_aux[q]) - rodada[p]
                BY <1>1, <3>2, <3>3, <4>4
            <4>7. Len(canal[q][p]) - 1 = rodada[q] - Len(vector_aux[q]) - (rodada[p] + 1)
                BY <4>5, <4>6
            <4>. QED
                BY <2>1, <4>6, <4>7
        <3>4. CASE q + 1 # p
            <4>1. canal'[q][q + 1] = canal[q][q + 1]
                BY <1>4, <1>6, <3>1, <3>4
            <4>2. rodada'[q + 1] = rodada[q + 1]
                BY <1>2, <3>1, <3>4
            <4>. QED
                BY <2>1, <3>2, <4>1, <4>2
        <3>. QED
            BY <3>3, <3>4
    <2>. QED
        BY <1>1, <1>3, <2>1, <2>2 DEF Conta, Ordenando
<1>. QED
    BY <1>5, <1>6

LEMMA RodouFases ==
    ASSUME Tipos, Contas, NEW p \in Processo, NEW value, NEW r, Rodou(p, value, r)
    PROVE  Fases'
<1>1. /\ task_size \in Nat /\ task_size > 0 /\ task_size' = task_size
      /\ rodada[p] \in Nat /\ rodada'[p] = rodada[p] + 1 /\ rodada[p] < Rodadas(p)
    BY RodouNumeros
<1>2. \A q \in Processo : q # p => rodada'[q] = rodada[q] /\ pc'[q] = pc[q]
    BY RodouNumeros
<1>3. /\ pc[p] = "ordenar" /\ (p # FIRST_STAGE => canal[p - 1][p] # <<>>)
      /\ pc' = IF rodada[p] + 1 < Rodadas(p) THEN pc
               ELSE [pc EXCEPT ![p] = IF p = LAST_STAGE THEN "avisar" ELSE "esperar"]
    BY DEF Rodou
<1>4. pc[LAST_STAGE] = "ordenar" /\ \A q \in Processo : q < LAST_STAGE => Ordenando(q)
    BY <1>3, Antes
<1>5. p # FIRST_STAGE => /\ p - 1 \in Processo /\ p - 1 < LAST_STAGE
                         /\ rodada[p - 1] >= task_size + rodada[p] + 1
    BY <1>3, Antes
<1>6. pc'[p] = IF rodada[p] + 1 < Rodadas(p) THEN "ordenar"
               ELSE IF p = LAST_STAGE THEN "avisar" ELSE "esperar"
    BY <1>3 DEF Tipos
<1>7. ASSUME NEW a \in Processo, a < p
      PROVE  /\ rodada[a] >= task_size
             /\ pc'[p] # "ordenar" => pc[a] # "ordenar"
    <2>1. p # FIRST_STAGE /\ a \in Int /\ p \in Int /\ (a = p - 1 \/ a < p - 1)
        BY <1>7, Numeros, Vizinhos
    <2>2. p - 1 \in Processo /\ rodada[p - 1] \in Nat /\ rodada[p - 1] >= task_size + rodada[p] + 1
          /\ rodada[a] \in Nat
        BY <1>5, <2>1 DEF Tipos
    <2>3. rodada[p - 1] > 0 /\ rodada[p - 1] >= task_size
        BY <1>1, <2>2
    <2>4. a < p - 1 => ~ (rodada[a] < task_size)
        BY <2>2, <2>3 DEF Contas, Fases
    <2>5. rodada[a] >= task_size
        BY <1>1, <2>1, <2>2, <2>3, <2>4
    <2>6. ASSUME pc'[p] # "ordenar" PROVE pc[p - 1] # "ordenar"
        <3>1. rodada[p] + 1 >= Rodadas(p) /\ Rodadas(p) \in Nat
            BY <1>1, <1>6, <2>6, Tarefas DEF Tipos
        <3>2. Rodadas(p - 1) \in Nat /\ Rodadas(p) = Rodadas(p - 1) - task_size
            <4>1. (p - 1) + 1 = p
                BY <2>1
            <4>. QED
                BY <2>2, <4>1, Tarefas DEF Tipos
        <3>3. ~ (rodada[p - 1] < Rodadas(p - 1))
            BY <1>1, <2>2, <3>1, <3>2
        <3>. QED
            BY <2>2, <3>3 DEF Contas, Conta
    <2>7. a < p - 1 /\ pc[p - 1] # "ordenar" => pc[a] # "ordenar"
        BY <2>2 DEF Contas, Fases
    <2>. QED
        BY <2>1, <2>5, <2>6, <2>7
<1>8. ASSUME NEW a \in Processo, NEW b \in Processo, a < b
      PROVE  /\ rodada'[a] < task_size' => rodada'[b] = 0
             /\ pc'[b] # "ordenar" => pc'[a] # "ordenar"
    <2>1. a # b
        BY <1>8, Vizinhos
    <2>2. /\ rodada[a] < task_size => rodada[b] = 0
          /\ pc[b] # "ordenar" => pc[a] # "ordenar"
          /\ rodada[a] \in Nat
        BY <1>8 DEF Contas, Fases, Tipos
    <2>3. CASE b = p
        <3>1. rodada[a] >= task_size /\ (pc'[p] # "ordenar" => pc[a] # "ordenar")
            BY <1>7, <1>8, <2>3
        <3>2. ~ (rodada'[a] < task_size')
            BY <1>1, <1>2, <2>1, <2>2, <2>3, <3>1
        <3>. QED
            BY <1>2, <2>1, <2>3, <3>1, <3>2
    <2>4. CASE a = p
        <3>1. rodada'[a] < task_size' => rodada[a] < task_size
            BY <1>1, <2>4
        <3>. QED
            BY <1>2, <1>3, <2>1, <2>2, <2>4, <3>1
    <2>5. CASE a # p /\ b # p
        BY <1>1, <1>2, <2>2, <2>5
    <2>. QED
        BY <2>3, <2>4, <2>5
<1>9. ASSUME NEW q \in Processo
      PROVE  /\ pc'[q] = "avisar" => q = LAST_STAGE
             /\ q < LAST_STAGE => pc'[q] \in {"ordenar", "esperar"}
    <2>1. q < LAST_STAGE => q # LAST_STAGE
        BY Numeros, Vizinhos
    <2>2. CASE q = p
        BY <1>6, <2>1, <2>2
    <2>3. CASE q # p
        BY <1>2, <1>4, <2>3 DEF Contas, Fases, Ordenando
    <2>. QED
        BY <2>2, <2>3
<1>10. canal'[LAST_STAGE][FIRST_STAGE] = <<>>
    <2>1. canal[LAST_STAGE][FIRST_STAGE] = <<>>
        BY <1>4 DEF Contas, Fases
    <2>2. LAST_STAGE + 1 # FIRST_STAGE /\ LAST_STAGE \in Processo /\ FIRST_STAGE \in Processo
        BY Numeros
    <2>3. /\ ~ (LAST_STAGE = p /\ FIRST_STAGE = p + 1)
          /\ ~ (p # FIRST_STAGE /\ LAST_STAGE = p - 1 /\ FIRST_STAGE = p)
        BY <2>2
    <2>4. canal'[LAST_STAGE][FIRST_STAGE] = canal[LAST_STAGE][FIRST_STAGE]
        BY <2>2, <2>3 DEF Rodou
    <2>. QED
        BY <2>1, <2>4
<1>11. LAST_STAGE' = LAST_STAGE /\ FIRST_STAGE' = FIRST_STAGE
    BY DEF LAST_STAGE, FIRST_STAGE
<1>12. \A q \in Processo : q < LAST_STAGE => Ordenando(q)'
    BY <1>9 DEF Ordenando
<1>. QED
    BY <1>8, <1>9, <1>10, <1>11, <1>12 DEF Fases

\* Where a value that lies ahead of stage p is.
LEMMA AdianteOnde ==
    ASSUME NEW p \in Processo, NEW y
    PROVE  y \in Adiante(p) <=>
               \/ \E q \in Processo : q > p /\ \E k \in DOMAIN vector_aux[q] : vector_aux[q][k] = y
               \/ \E q \in Processo :
                     /\ q >= p /\ q < LAST_STAGE /\ Ordenando(q)
                     /\ \E k \in DOMAIN canal[q][q + 1] : canal[q][q + 1][k] = y
<1>1. \A q : q \in p + 1 .. LAST_STAGE <=> q \in Processo /\ q > p
    BY NpAssumption DEF Processo, LAST_STAGE
<1>2. \A q : q \in p .. LAST_STAGE - 1 <=> q \in Processo /\ q >= p /\ q < LAST_STAGE
    BY NpAssumption DEF Processo, LAST_STAGE
<1>3. y \in Adiante(p) <=>
          \/ \E q \in p + 1 .. LAST_STAGE : y \in ToSet(vector_aux[q])
          \/ \E q \in p .. LAST_STAGE - 1 : Ordenando(q) /\ y \in ToSet(canal[q][q + 1])
    <2>. DEFINE A == UNION {ToSet(vector_aux[q]) : q \in p + 1 .. LAST_STAGE}
                B == UNION {ToSet(canal[q][q + 1]) :
                       q \in {r \in p .. LAST_STAGE - 1 : pc[r] \in {"ordenar", "esperar"}}}
    <2>1. y \in A <=> \E q \in p + 1 .. LAST_STAGE : y \in ToSet(vector_aux[q])
        OBVIOUS
    <2>2. y \in B <=>
              \E q \in p .. LAST_STAGE - 1 : Ordenando(q) /\ y \in ToSet(canal[q][q + 1])
        BY DEF Ordenando
    <2>3. Adiante(p) = A \cup B
        BY DEF Adiante
    <2>. HIDE DEF A, B
    <2>. QED
        BY <2>1, <2>2, <2>3
<1>. QED
    BY <1>1, <1>2, <1>3 DEF ToSet

LEMMA AdianteOndeDepois ==
    ASSUME NEW p \in Processo, NEW y
    PROVE  y \in Adiante(p)' <=>
               \/ \E q \in Processo : q > p /\ \E k \in DOMAIN vector_aux'[q] : vector_aux'[q][k] = y
               \/ \E q \in Processo :
                     /\ q >= p /\ q < LAST_STAGE /\ Ordenando(q)'
                     /\ \E k \in DOMAIN canal'[q][q + 1] : canal'[q][q + 1][k] = y
<1>1. \A q : q \in p + 1 .. LAST_STAGE <=> q \in Processo /\ q > p
    BY NpAssumption DEF Processo, LAST_STAGE
<1>2. \A q : q \in p .. LAST_STAGE - 1 <=> q \in Processo /\ q >= p /\ q < LAST_STAGE
    BY NpAssumption DEF Processo, LAST_STAGE
<1>3. y \in Adiante(p)' <=>
          \/ \E q \in p + 1 .. LAST_STAGE : y \in ToSet(vector_aux'[q])
          \/ \E q \in p .. LAST_STAGE - 1 : Ordenando(q)' /\ y \in ToSet(canal'[q][q + 1])
    <2>. DEFINE A == UNION {ToSet(vector_aux'[q]) : q \in p + 1 .. LAST_STAGE}
                B == UNION {ToSet(canal'[q][q + 1]) :
                       q \in {r \in p .. LAST_STAGE - 1 : pc'[r] \in {"ordenar", "esperar"}}}
    <2>1. y \in A <=> \E q \in p + 1 .. LAST_STAGE : y \in ToSet(vector_aux'[q])
        OBVIOUS
    <2>2. y \in B <=>
              \E q \in p .. LAST_STAGE - 1 : Ordenando(q)' /\ y \in ToSet(canal'[q][q + 1])
        BY DEF Ordenando
    <2>3. Adiante(p)' = A \cup B
        BY DEF Adiante, LAST_STAGE, ToSet
    <2>. HIDE DEF A, B
    <2>. QED
        BY <2>1, <2>2, <2>3
<1>. QED
    BY <1>1, <1>2, <1>3 DEF ToSet

LEMMA AdianteInt ==
    ASSUME Tipos, NEW p \in Processo, NEW y \in Adiante(p)
    PROVE  y \in Int
<1>1. ASSUME NEW q \in Processo, NEW k \in DOMAIN vector_aux[q], vector_aux[q][k] = y
      PROVE  y \in Int
    BY <1>1 DEF Tipos
<1>2. ASSUME NEW q \in Processo, q < LAST_STAGE,
             NEW k \in DOMAIN canal[q][q + 1], canal[q][q + 1][k] = y
      PROVE  y \in Int
    <2>1. canal[q][q + 1] \in Seq(Int)
        BY <1>2, Vizinhos DEF Tipos
    <2>. QED
        BY <1>2, <2>1
<1>. QED
    BY <1>1, <1>2, AdianteOnde

LEMMA Separado ==
    ASSUME NEW p \in Processo
    PROVE  Particao => /\ Ordenado(vector_aux[p])
                       /\ \A k \in DOMAIN vector_aux[p], y \in Adiante(p) : vector_aux[p][k] <= y
BY DEF Particao, Ordenado

\* As long as a stage has room, nothing lies ahead of it.
LEMMA NadaAdiante ==
    ASSUME Tipos, Contas, NEW p \in Processo, pc[p] = "ordenar", rodada[p] < task_size, NEW y
    PROVE  y \notin Adiante(p)
<1>1. task_size \in Nat /\ task_size > 0
    BY Tarefas DEF Tipos
<1>2. \A q \in Processo : q > p => rodada[q] = 0
    BY DEF Contas, Fases
<1>3. \A q \in Processo : /\ rodada[q] \in Nat /\ vector_aux[q] \in Seq(Int)
                          /\ rodada[q] <= task_size => Len(vector_aux[q]) = rodada[q]
    BY DEF Tipos, Contas, Conta
<1>4. ASSUME NEW q \in Processo, q > p PROVE vector_aux[q] = <<>>
    <2>1. Len(vector_aux[q]) = 0
        BY <1>1, <1>2, <1>3, <1>4
    <2>. QED
        BY <1>3, <2>1
<1>5. ASSUME NEW q \in Processo, q >= p, q < LAST_STAGE, Ordenando(q)
      PROVE  canal[q][q + 1] = <<>>
    <2>1. q + 1 \in Processo /\ q + 1 > p /\ (q = p \/ q > p)
        BY <1>5, Vizinhos
    <2>2. rodada[q] <= task_size /\ rodada[q + 1] = 0
        BY <1>1, <1>2, <1>3, <2>1
    <2>3. Len(canal[q][q + 1]) = rodada[q] - Len(vector_aux[q]) - rodada[q + 1]
        BY <1>5 DEF Contas, Conta
    <2>4. Len(canal[q][q + 1]) = 0
        BY <1>3, <2>2, <2>3
    <2>5. canal[q][q + 1] \in Seq(Int)
        BY <2>1 DEF Tipos
    <2>. QED
        BY <2>4, <2>5
<1>6. \A q \in Processo : q > p => ~ \E k \in DOMAIN vector_aux[q] : vector_aux[q][k] = y
    BY <1>4
<1>7. \A q \in Processo : q >= p /\ q < LAST_STAGE /\ Ordenando(q) =>
          ~ \E k \in DOMAIN canal[q][q + 1] : canal[q][q + 1][k] = y
    BY <1>5
<1>. QED
    BY <1>6, <1>7, AdianteOnde

\* A round brings nothing new ahead of a stage but what its own value turned into.
LEMMA RodouAdiante ==
    ASSUME Tipos, Contas, NEW p \in Processo, NEW value, NEW r, Rodou(p, value, r),
           NEW x \in Processo, NEW y \in Adiante(x)'
    PROVE  y \in Adiante(x) \/ (x = p /\ r.sobra # <<>> /\ y = r.sobra[1])
<1>1. /\ pc[p] = "ordenar" /\ Ordenando(p)
      /\ p # FIRST_STAGE => canal[p - 1][p] # <<>> /\ value = Head(canal[p - 1][p])
    BY DEF Rodou, Ordenando
<1>2. /\ \A q \in Processo : q < LAST_STAGE => Ordenando(q)
      /\ p # FIRST_STAGE => p - 1 \in Processo /\ p - 1 < LAST_STAGE
    BY <1>1, Antes
<1>3. ToSet(r.vetor) \subseteq Valores(vector_aux[p], value)
    BY DEF Rodou, Inserido
<1>4. r.sobra # <<>> => r.sobra[1] \in Valores(vector_aux[p], value)
    <2>1. r.sobra # <<>> => ~ (Len(vector_aux[p]) < task_size)
        BY DEF Rodou, Inserido
    <2>2. Len(vector_aux[p]) \in Nat /\ task_size \in Nat
        BY Tarefas DEF Tipos
    <2>3. r.sobra # <<>> => Len(vector_aux[p]) >= task_size
        BY <2>1, <2>2
    <2>. QED
        BY <2>3 DEF Rodou, Inserido
<1>5. ASSUME NEW z \in Valores(vector_aux[p], value), x < p PROVE z \in Adiante(x)
    <2>1. CASE z \in ToSet(vector_aux[p])
        <3>1. \E k \in DOMAIN vector_aux[p] : vector_aux[p][k] = z
            BY <2>1 DEF ToSet
        <3>2. p > x
            BY <1>5, Vizinhos
        <3>. QED
            BY <3>1, <3>2, AdianteOnde
    <2>2. CASE z = value
        <3>1. p # FIRST_STAGE /\ p - 1 >= x /\ (p - 1) + 1 = p
            BY <1>5, Numeros, Vizinhos
        <3>2. canal[p - 1][p] \in Seq(Int)
            BY <1>2, <3>1 DEF Tipos
        <3>3. 1 \in DOMAIN canal[p - 1][p] /\ canal[p - 1][p][1] = z
            BY <1>1, <2>2, <3>1, <3>2, Resto
        <3>4. \E k \in DOMAIN canal[p - 1][(p - 1) + 1] : canal[p - 1][(p - 1) + 1][k] = z
            BY <3>1, <3>3
        <3>. QED
            BY <1>2, <3>1, <3>4, AdianteOnde
    <2>. QED
        BY <1>5, <2>1, <2>2 DEF Valores
<1>6. ASSUME NEW q \in Processo, q > x, NEW k \in DOMAIN vector_aux'[q], vector_aux'[q][k] = y
      PROVE  y \in Adiante(x)
    <2>1. CASE q = p
        <3>1. vector_aux'[q] = r.vetor
            BY <2>1, RodouNumeros
        <3>2. y \in Valores(vector_aux[p], value)
            BY <1>3, <1>6, <3>1 DEF ToSet
        <3>. QED
            BY <1>5, <1>6, <2>1, <3>2, Vizinhos
    <2>2. CASE q # p
        <3>1. vector_aux'[q] = vector_aux[q]
            BY <2>2, RodouNumeros
        <3>. QED
            BY <1>6, <3>1, AdianteOnde
    <2>. QED
        BY <2>1, <2>2
<1>7. ASSUME NEW q \in Processo, q >= x, q < LAST_STAGE,
             NEW k \in DOMAIN canal'[q][q + 1], canal'[q][q + 1][k] = y
      PROVE  y \in Adiante(x) \/ (x = p /\ r.sobra # <<>> /\ y = r.sobra[1])
    <2>1. q + 1 \in Processo /\ canal[q][q + 1] \in Seq(Int) /\ Ordenando(q) /\ q \in Int /\ p \in Int
        BY <1>2, <1>7, Vizinhos DEF Tipos
    <2>2. (\E j \in DOMAIN canal[q][q + 1] : canal[q][q + 1][j] = y) => y \in Adiante(x)
        BY <1>7, <2>1, AdianteOnde
    <2>3. CASE r.sobra # <<>> /\ q = p
        <3>1. canal'[q][q + 1] = Append(canal[q][q + 1], r.sobra[1])
            BY <2>1, <2>3 DEF Rodou
        <3>2. r.sobra[1] \in Int
            BY <2>3, RodouNumeros
        <3>3. (\E j \in DOMAIN canal[q][q + 1] : canal[q][q + 1][j] = y) \/ y = r.sobra[1]
            BY <1>7, <2>1, <3>1, <3>2, Mais
        <3>4. x = p \/ x < p
            BY <1>7, <2>1, <2>3, Vizinhos
        <3>5. x < p /\ y = r.sobra[1] => y \in Adiante(x)
            BY <1>4, <1>5, <2>3
        <3>. QED
            BY <2>2, <2>3, <3>3, <3>4, <3>5
    <2>4. CASE p # FIRST_STAGE /\ q = p - 1
        <3>1. canal'[q][q + 1] = Tail(canal[q][q + 1]) /\ canal[q][q + 1] # <<>>
            <4>1. q + 1 = p /\ q # p
                BY <2>1, <2>4
            <4>. QED
                BY <1>1, <2>4, <4>1 DEF Rodou
        <3>2. \E j \in DOMAIN canal[q][q + 1] : canal[q][q + 1][j] = y
            BY <1>7, <2>1, <3>1, Resto
        <3>. QED
            BY <2>2, <3>2
    <2>5. CASE ~ (r.sobra # <<>> /\ q = p) /\ ~ (p # FIRST_STAGE /\ q = p - 1)
        <3>1. canal'[q][q + 1] = canal[q][q + 1]
            BY <2>1, <2>5 DEF Rodou
        <3>. QED
            BY <1>7, <2>2, <3>1
    <2>. QED
        BY <2>3, <2>4, <2>5
<1>. QED
    BY <1>6, <1>7, AdianteOndeDepois

LEMMA RodouParticao ==
    ASSUME Tipos, Contas, Particao, NEW p \in Processo, NEW value, NEW r, Rodou(p, value, r)
    PROVE  Particao'
<1>. SUFFICES ASSUME NEW x \in Processo, NEW k \in DOMAIN vector_aux'[x]
              PROVE  /\ k > 1 => vector_aux'[x][k - 1] <= vector_aux'[x][k]
                     /\ \A y \in Adiante(x)' : vector_aux'[x][k] <= y
    BY DEF Particao
<1>1. CASE x = p
    <2>. DEFINE v == vector_aux[p]
    <2>1. vector_aux'[x] = r.vetor /\ (r.sobra # <<>> <=> rodada[p] >= task_size)
          /\ task_size \in Nat /\ rodada[p] \in Nat /\ v \in Seq(Int)
        BY <1>1, RodouNumeros DEF Tipos
    <2>2. Ordenado(r.vetor)
        BY Separado DEF Rodou, Inserido
    <2>3. ASSUME NEW y \in Adiante(x)' PROVE vector_aux'[x][k] <= y
        <3>1. y \in Adiante(p) \/ (r.sobra # <<>> /\ y = r.sobra[1])
            BY <1>1, RodouAdiante
        <3>2. pc[p] = "ordenar"
            BY DEF Rodou
        <3>3. r.sobra # <<>>
            BY <2>1, <3>1, <3>2, NadaAdiante
        <3>4. Len(v) = task_size
            BY <2>1, <3>3 DEF Contas, Conta
        <3>5. /\ Len(r.vetor) = Len(v) /\ r.vetor \in Seq(Int)
              /\ \A j \in 1 .. Len(v) : r.vetor[j] <= v[j] /\ r.vetor[j] <= r.sobra[1]
            BY <2>1, <3>4 DEF Rodou, Inserido
        <3>6. k \in 1 .. Len(v) /\ k \in DOMAIN v /\ r.vetor[k] \in Int /\ v[k] \in Int
            BY <2>1, <3>5
        <3>7. y \in Adiante(p) => v[k] <= y
            BY <3>6, Separado
        <3>8. y \in Int
            BY <2>1, <3>1, AdianteInt, RodouNumeros
        <3>. QED
            BY <2>1, <3>1, <3>5, <3>6, <3>7, <3>8
    <2>. QED
        BY <2>1, <2>2, <2>3 DEF Ordenado
<1>2. CASE x # p
    <2>1. vector_aux'[x] = vector_aux[x]
        BY <1>2, RodouNumeros
    <2>2. \A y \in Adiante(x)' : y \in Adiante(x)
        BY <1>2, RodouAdiante
    <2>3. Ordenado(vector_aux[x]) /\ \A y \in Adiante(x) : vector_aux[x][k] <= y
        BY <2>1, Separado
    <2>. QED
        BY <2>1, <2>2, <2>3 DEF Ordenado
<1>. QED
    BY <1>1, <1>2

-----------------------------------------------------------------------------
(***************************************************************************)
(* The token and the time.                                                 *)
(***************************************************************************)
\* The sort is over: a sign comes or goes, and nothing else moves.
Sinalizou ==
    /\ pc[LAST_STAGE] # "ordenar"
    /\ UNCHANGED <<folga, entrada, rodada, vector_aux>>
    /\ canal' \in Canais /\ saida' \in Seq(Int)
    /\ pc' \in [Processo -> {"avisar", "esperar", "tempo", "fim"}]
    /\ \A p \in Processo : pc'[p] = "avisar" => pc[p] = "avisar"
    /\ \A p \in Processo : p < LAST_STAGE =>
          /\ Ordenando(p)' => Ordenando(p) /\ canal'[p][p + 1] = canal[p][p + 1]
          /\ ~ Ordenando(p)' =>
                \A k \in DOMAIN canal'[p][p + 1] : canal'[p][p + 1][k] \in {FIM, TEMPO}

\* A channel of the pipe is empty until the token goes through it.
LEMMA Sinais ==
    ASSUME Tipos, Contas, NEW p \in Processo, p < LAST_STAGE, pc[LAST_STAGE] # "ordenar"
    PROVE  /\ p + 1 \in Processo /\ canal[p][p + 1] \in Seq(Int)
           /\ canal[p][p + 1] # <<>> => ~ Ordenando(p)
           /\ \A k \in DOMAIN canal[p][p + 1] : canal[p][p + 1][k] \in {FIM, TEMPO}
<1>1. p + 1 \in Processo
    BY Vizinhos
<1>2. canal[p][p + 1] \in Seq(Int)
    BY <1>1 DEF Tipos
<1>3. canal[p][p + 1] # <<>> => ~ Ordenando(p)
    BY Fim
<1>4. ~ Ordenando(p) =>
          \A k \in DOMAIN canal[p][p + 1] : canal[p][p + 1][k] \in {FIM, TEMPO}
    BY DEF Contas, Fases
<1>5. Ordenando(p) => DOMAIN canal[p][p + 1] = {}
    BY <1>3
<1>. QED
    BY <1>1, <1>2, <1>3, <1>4, <1>5

LEMMA MaisSinal ==
    ASSUME NEW s \in Seq(Int), \A k \in DOMAIN s : s[k] \in {FIM, TEMPO},
           NEW m \in {FIM, TEMPO}, NEW k \in DOMAIN Append(s, m)
    PROVE  Append(s, m)[k] \in {FIM, TEMPO}
<1>1. m \in Int
    BY DEF FIM, TEMPO
<1>. QED
    BY <1>1, Mais

LEMMA AvisarSinal ==
    ASSUME Tipos, Contas, Avisar
    PROVE  Sinalizou
<1>1. /\ pc[LAST_STAGE] = "avisar" /\ canal' = MPI_Send(canal, LAST_STAGE, FIRST_STAGE, FIM)
      /\ pc' = [pc EXCEPT ![LAST_STAGE] = "esperar"]
      /\ UNCHANGED <<folga, entrada, rodada, vector_aux, saida>>
    BY DEF Avisar, Em
<1>2. pc[LAST_STAGE] # "ordenar" /\ LAST_STAGE \in Processo
    BY <1>1, Numeros
<1>3. \A p \in Processo : pc[p] # "ordenar"
    BY <1>2, Fim
<1>4. pc' \in [Processo -> {"avisar", "esperar", "tempo", "fim"}]
      /\ \A p \in Processo : pc'[p] = IF p = LAST_STAGE THEN "esperar" ELSE pc[p]
    BY <1>1, <1>3 DEF Tipos
<1>5. Muda(canal, canal', LAST_STAGE, FIRST_STAGE, Append(canal[LAST_STAGE][FIRST_STAGE], FIM))
    <2>1. canal \in Canais /\ FIM \in Int /\ FIRST_STAGE \in Processo
        BY Numeros DEF Tipos, Canais, FIM
    <2>. QED
        BY <1>1, <1>2, <2>1, Envio
<1>6. ASSUME NEW p \in Processo, p < LAST_STAGE
      PROVE  /\ canal'[p][p + 1] = canal[p][p + 1]
             /\ Ordenando(p)' <=> Ordenando(p)
    <2>1. p + 1 \in Processo /\ p # LAST_STAGE
        BY <1>6, Numeros, Vizinhos
    <2>. QED
        BY <1>4, <1>5, <2>1 DEF Muda, Ordenando
<1>7. \A p \in Processo : p < LAST_STAGE =>
          \A k \in DOMAIN canal[p][p + 1] : canal[p][p + 1][k] \in {FIM, TEMPO}
    BY <1>2, Sinais
<1>. QED
    BY <1>1, <1>2, <1>4, <1>5, <1>6, <1>7 DEF Sinalizou, Muda, Tipos

LEMMA ImprimirSinal ==
    ASSUME Tipos, Contas, NEW p \in Processo, Imprimir(p)
    PROVE  Sinalizou
<1>. DEFINE o == Origem(p)
            c == MPI_Recv(canal, o, p)
            sinal == Head(canal[o][p])
<1>1. /\ pc[p] = "esperar" /\ canal[o][p] # <<>>
      /\ saida' = IF sinal = FIM THEN saida \o vector_aux[p] ELSE saida
      /\ canal' = IF sinal = FIM /\ p # LAST_STAGE THEN MPI_Send(c, p, p + 1, FIM) ELSE c
      /\ pc' = [pc EXCEPT ![p] = IF p \in {FIRST_STAGE, LAST_STAGE} THEN "tempo" ELSE "fim"]
      /\ UNCHANGED <<folga, entrada, rodada, vector_aux>>
    BY DEF Imprimir, Em, Chegou
<1>2. /\ o \in Processo /\ o # p
      /\ p = FIRST_STAGE => o = LAST_STAGE
      /\ p # FIRST_STAGE => o = p - 1 /\ o < LAST_STAGE /\ o + 1 = p
    BY Numeros, Vizinhos DEF Origem
<1>. HIDE DEF o
<1>3. pc[LAST_STAGE] # "ordenar"
    <2>1. CASE p = FIRST_STAGE
        BY <1>1, <1>2, <2>1 DEF Contas, Fases
    <2>2. CASE p # FIRST_STAGE
        <3>1. ~ Ordenando(o)
            BY <1>1, <1>2, <2>2, Vazio
        <3>. QED
            BY <1>2, <2>2, <3>1 DEF Contas, Fases
    <2>. QED
        BY <2>1, <2>2
<1>4. Muda(canal, c, o, p, Tail(canal[o][p]))
    <2>1. canal \in Canais
        BY DEF Tipos, Canais
    <2>. QED
        BY <1>1, <1>2, <2>1, Recepcao
<1>. HIDE DEF c
<1>5. /\ canal' \in Canais
      /\ \A x, y \in Processo :
            canal'[x][y] = IF sinal = FIM /\ p # LAST_STAGE /\ x = p /\ y = p + 1
                           THEN Append(c[p][p + 1], FIM) ELSE c[x][y]
    <2>1. CASE sinal = FIM /\ p # LAST_STAGE
        <3>1. c \in Canais /\ p + 1 \in Processo /\ FIM \in Int
            BY <1>4, <2>1, Vizinhos DEF Muda, FIM
        <3>2. canal' = MPI_Send(c, p, p + 1, FIM)
            BY <1>1, <2>1
        <3>3. Muda(c, canal', p, p + 1, Append(c[p][p + 1], FIM))
            BY <3>1, <3>2, Envio
        <3>. QED
            BY <2>1, <3>3 DEF Muda
    <2>2. CASE ~ (sinal = FIM /\ p # LAST_STAGE)
        BY <1>1, <1>4, <2>2 DEF Muda
    <2>. QED
        BY <2>1, <2>2
<1>. HIDE DEF sinal
<1>6. \A x \in Processo : pc[x] # "ordenar"
    BY <1>3, Fim
<1>7. /\ pc' \in [Processo -> {"avisar", "esperar", "tempo", "fim"}]
      /\ pc'[p] \in {"tempo", "fim"}
      /\ \A x \in Processo : x # p => pc'[x] = pc[x]
    BY <1>1, <1>6 DEF Tipos
<1>8. ASSUME NEW x \in Processo, x < LAST_STAGE
      PROVE  /\ Ordenando(x)' => Ordenando(x) /\ canal'[x][x + 1] = canal[x][x + 1]
             /\ \A k \in DOMAIN canal'[x][x + 1] : canal'[x][x + 1][k] \in {FIM, TEMPO}
    <2>1. /\ x + 1 \in Processo /\ canal[x][x + 1] \in Seq(Int)
          /\ canal[x][x + 1] # <<>> => ~ Ordenando(x)
          /\ \A k \in DOMAIN canal[x][x + 1] : canal[x][x + 1][k] \in {FIM, TEMPO}
        BY <1>3, <1>8, Sinais
    <2>2. x \in Int /\ x + 1 # x /\ x # LAST_STAGE /\ p \in Int
        BY <1>8, Numeros, Vizinhos
    <2>3. CASE x = p
        <3>1. ~ Ordenando(x)'
            BY <1>7, <2>3 DEF Ordenando
        <3>2. c[x][x + 1] = canal[x][x + 1]
            BY <1>2, <1>4, <2>1, <2>3 DEF Muda
        <3>3. \/ canal'[x][x + 1] = canal[x][x + 1]
              \/ canal'[x][x + 1] = Append(canal[x][x + 1], FIM)
            BY <1>5, <2>1, <2>3, <3>2
        <3>5. \A k \in DOMAIN canal'[x][x + 1] : canal'[x][x + 1][k] \in {FIM, TEMPO}
            BY <2>1, <3>3, MaisSinal
        <3>. QED
            BY <3>1, <3>5
    <2>4. CASE x # p /\ x = o /\ x + 1 = p
        <3>1. canal[x][x + 1] # <<>> /\ ~ Ordenando(x)
            BY <1>1, <2>1, <2>4
        <3>2. ~ Ordenando(x)'
            BY <1>7, <2>4, <3>1 DEF Ordenando
        <3>3. canal'[x][x + 1] = Tail(canal[x][x + 1])
            BY <1>2, <1>4, <1>5, <2>1, <2>4 DEF Muda
        <3>4. \A k \in DOMAIN canal'[x][x + 1] : canal'[x][x + 1][k] \in {FIM, TEMPO}
            BY <2>1, <3>1, <3>3, Resto
        <3>. QED
            BY <3>2, <3>4
    <2>5. CASE x # p /\ ~ (x = o /\ x + 1 = p)
        <3>1. canal'[x][x + 1] = canal[x][x + 1]
            BY <1>4, <1>5, <2>1, <2>5 DEF Muda
        <3>2. Ordenando(x)' <=> Ordenando(x)
            BY <1>7, <2>5 DEF Ordenando
        <3>. QED
            BY <2>1, <3>1, <3>2
    <2>. QED
        BY <2>3, <2>4, <2>5
<1>9. saida' \in Seq(Int)
    <2>1. saida \in Seq(Int) /\ vector_aux[p] \in Seq(Int)
        BY DEF Tipos
    <2>. QED
        BY <1>1, <2>1
<1>10. \A x \in Processo : pc'[x] = "avisar" => pc[x] = "avisar"
    BY <1>7
<1>. QED
    BY <1>1, <1>3, <1>5, <1>7, <1>8, <1>9, <1>10 DEF Sinalizou

\* The time goes from the first stage to the last, past the pipe unless there are
\* two of them only.
LEMMA TempoSinal ==
    ASSUME Tipos, Contas, EnviarTempo \/ ReceberTempo
    PROVE  Sinalizou
<1>. DEFINE a == FIRST_STAGE
            z == LAST_STAGE
            fila == canal[a][z]
<1>1. a \in Processo /\ z \in Processo /\ a < z /\ a # z
    BY Numeros, Vizinhos
<1>2. canal \in Canais /\ fila \in Seq(Int) /\ TEMPO \in Int
    BY <1>1 DEF Tipos, Canais, TEMPO
<1>3. \E f, p :
         /\ Muda(canal, canal', a, z, f)
         /\ \/ f = Append(fila, TEMPO) /\ p = a
            \/ f = Tail(fila) /\ fila # <<>> /\ p = z
         /\ pc[p] = "tempo" /\ pc' = [pc EXCEPT ![p] = "fim"]
         /\ UNCHANGED <<folga, entrada, rodada, vector_aux, saida>>
    <2>1. CASE EnviarTempo
        <3>1. /\ canal' = MPI_Send(canal, a, z, TEMPO)
              /\ pc[a] = "tempo" /\ pc' = [pc EXCEPT ![a] = "fim"]
              /\ UNCHANGED <<folga, entrada, rodada, vector_aux, saida>>
            BY <2>1 DEF EnviarTempo, Em
        <3>2. Muda(canal, canal', a, z, Append(fila, TEMPO))
            BY <1>1, <1>2, <3>1, Envio
        <3>. QED
            BY <3>1, <3>2
    <2>2. CASE ReceberTempo
        <3>1. /\ canal' = MPI_Recv(canal, a, z) /\ fila # <<>>
              /\ pc[z] = "tempo" /\ pc' = [pc EXCEPT ![z] = "fim"]
              /\ UNCHANGED <<folga, entrada, rodada, vector_aux, saida>>
            BY <2>2 DEF ReceberTempo, Em, Chegou
        <3>2. Muda(canal, canal', a, z, Tail(fila))
            BY <1>1, <1>2, <3>1, Recepcao
        <3>. QED
            BY <3>1, <3>2
    <2>. QED
        BY <2>1, <2>2
<1>4. PICK f, p :
         /\ Muda(canal, canal', a, z, f)
         /\ \/ f = Append(fila, TEMPO) /\ p = a
            \/ f = Tail(fila) /\ fila # <<>> /\ p = z
         /\ pc[p] = "tempo" /\ pc' = [pc EXCEPT ![p] = "fim"]
         /\ UNCHANGED <<folga, entrada, rodada, vector_aux, saida>>
    BY <1>3
<1>5. p \in Processo
    BY <1>1, <1>4
<1>6. pc[z] # "ordenar"
    <2>1. CASE p = a
        BY <1>1, <1>4, <2>1 DEF Contas, Fases, Ordenando
    <2>2. CASE p = z
        BY <1>4, <2>2
    <2>. QED
        BY <1>4, <2>1, <2>2
<1>7. \A x \in Processo : pc[x] # "ordenar"
    BY <1>6, Fim
<1>8. /\ pc' \in [Processo -> {"avisar", "esperar", "tempo", "fim"}]
      /\ \A x \in Processo : pc'[x] = IF x = p THEN "fim" ELSE pc[x]
    BY <1>4, <1>7 DEF Tipos
<1>9. ASSUME NEW x \in Processo, x < z
      PROVE  /\ Ordenando(x)' => Ordenando(x) /\ canal'[x][x + 1] = canal[x][x + 1]
             /\ \A k \in DOMAIN canal'[x][x + 1] : canal'[x][x + 1][k] \in {FIM, TEMPO}
    <2>1. /\ x + 1 \in Processo /\ canal[x][x + 1] \in Seq(Int)
          /\ canal[x][x + 1] # <<>> => ~ Ordenando(x)
          /\ \A k \in DOMAIN canal[x][x + 1] : canal[x][x + 1][k] \in {FIM, TEMPO}
        BY <1>6, <1>9, Sinais
    <2>2. Ordenando(x)' => Ordenando(x)
        BY <1>8 DEF Ordenando
    <2>3. CASE x = a /\ x + 1 = z
        <3>1. canal'[x][x + 1] = f
            BY <1>1, <1>4, <2>3 DEF Muda
        <3>2. ~ Ordenando(x)
            BY <1>4, <2>1, <2>3 DEF Ordenando
        <3>3. \A k \in DOMAIN f : f[k] \in {FIM, TEMPO}
            <4>1. \A k \in DOMAIN fila : fila[k] \in {FIM, TEMPO}
                BY <2>1, <2>3
            <4>2. f = Append(fila, TEMPO) \/ (f = Tail(fila) /\ fila # <<>>)
                BY <1>4
            <4>3. CASE f = Append(fila, TEMPO)
                <5>1. TEMPO \in {FIM, TEMPO}
                    OBVIOUS
                <5>. QED
                    BY <1>2, <4>1, <4>3, <5>1, MaisSinal
            <4>4. CASE f = Tail(fila) /\ fila # <<>>
                BY <1>2, <4>1, <4>4, Resto
            <4>. QED
                BY <4>2, <4>3, <4>4
        <3>. QED
            BY <2>2, <3>1, <3>2, <3>3
    <2>4. CASE ~ (x = a /\ x + 1 = z)
        <3>1. canal'[x][x + 1] = canal[x][x + 1]
            BY <1>4, <2>1, <2>4 DEF Muda
        <3>. QED
            BY <2>1, <2>2, <3>1
    <2>. QED
        BY <2>3, <2>4
<1>10. canal' \in Canais /\ saida' \in Seq(Int)
    BY <1>4 DEF Muda, Tipos
<1>11. \A x \in Processo : pc'[x] = "avisar" => pc[x] = "avisar"
    BY <1>8
<1>. QED
    BY <1>4, <1>6, <1>8, <1>9, <1>10, <1>11 DEF Sinalizou

LEMMA SinalTipos ==
    ASSUME Tipos, Sinalizou
    PROVE  Tipos'
BY DEF Tipos, Canais, Sinalizou

LEMMA SinalContas ==
    ASSUME Tipos, Contas, Sinalizou
    PROVE  Contas'
<1>1. /\ task_size' = task_size /\ LAST_STAGE' = LAST_STAGE /\ FIRST_STAGE' = FIRST_STAGE
      /\ \A p : Rodadas(p)' = Rodadas(p)
    BY DEF Sinalizou, task_size, LAST_STAGE, FIRST_STAGE, Rodadas
<1>2. /\ rodada' = rodada /\ vector_aux' = vector_aux
      /\ \A p \in Processo : pc'[p] # "ordenar"
    BY DEF Sinalizou
<1>3. \A p \in Processo : pc[p] # "ordenar"
    BY Fim DEF Sinalizou
<1>4. \A p \in Processo : p < LAST_STAGE =>
          /\ Ordenando(p)' => Ordenando(p) /\ canal'[p][p + 1] = canal[p][p + 1]
          /\ ~ Ordenando(p)' =>
                \A k \in DOMAIN canal'[p][p + 1] : canal'[p][p + 1][k] \in {FIM, TEMPO}
    BY DEF Sinalizou
<1>5. ASSUME NEW p \in Processo PROVE Conta(p)'
    <2>1. Conta(p)
        BY DEF Contas
    <2>. QED
        BY <1>1, <1>2, <1>3, <1>4, <2>1 DEF Conta
<1>6. Fases'
    <2>1. \A p, q \in Processo : p < q => (rodada[p] < task_size => rodada[q] = 0)
        BY DEF Contas, Fases
    <2>2. \A p \in Processo : pc'[p] = "avisar" => p = LAST_STAGE
        BY DEF Contas, Fases, Sinalizou
    <2>3. pc'[LAST_STAGE] # "ordenar" /\ FIM' = FIM /\ TEMPO' = TEMPO
        BY <1>2, Numeros DEF FIM, TEMPO
    <2>. QED
        BY <1>1, <1>2, <1>4, <2>1, <2>2, <2>3 DEF Fases
<1>. QED
    BY <1>5, <1>6 DEF Contas

LEMMA SinalParticao ==
    ASSUME Tipos, Particao, Sinalizou
    PROVE  Particao'
<1>1. vector_aux' = vector_aux
    BY DEF Sinalizou
<1>2. ASSUME NEW x \in Processo, NEW y \in Adiante(x)' PROVE y \in Adiante(x)
    <2>1. \A q \in Processo : q < LAST_STAGE /\ Ordenando(q)' =>
              Ordenando(q) /\ canal'[q][q + 1] = canal[q][q + 1]
        BY DEF Sinalizou
    <2>. QED
        BY <1>1, <2>1, AdianteOnde, AdianteOndeDepois
<1>. QED
    BY <1>1, <1>2 DEF Particao

-----------------------------------------------------------------------------
(***************************************************************************)
(* The theorems.                                                           *)
(***************************************************************************)
LEMMA InitIInv == Init => IInv
<1>. SUFFICES ASSUME Init PROVE IInv
    OBVIOUS
<1>1. Tipos
    BY DEF Init, InitMPI, Tipos
<1>2. /\ task_size \in Nat /\ task_size > 0
      /\ \A p \in Processo : Rodadas(p) \in Nat /\ Rodadas(p) >= task_size
    BY <1>1, Tarefas DEF Tipos
<1>3. \A p \in Processo : /\ rodada[p] = 0 /\ pc[p] = "ordenar" /\ vector_aux[p] = <<>>
                          /\ \A q \in Processo : canal[p][q] = <<>>
    BY DEF Init, InitMPI
<1>4. ASSUME NEW p \in Processo PROVE Conta(p)
    <2>1. Len(vector_aux[p]) = 0 /\ rodada[p] = 0 /\ pc[p] = "ordenar"
        BY <1>3
    <2>2. p < LAST_STAGE => Len(canal[p][p + 1]) = 0 /\ rodada[p + 1] = 0
        BY <1>3, Vizinhos
    <2>. QED
        BY <1>2, <2>1, <2>2 DEF Conta
<1>5. Fases
    BY <1>2, <1>3, Numeros, Vizinhos DEF Fases, Ordenando
<1>6. Particao
    BY <1>3 DEF Particao
<1>. QED
    BY <1>1, <1>4, <1>5, <1>6 DEF IInv, Contas

LEMMA Passos ==
    ASSUME IInv, Next
    PROVE  Sinalizou \/ \E p \in Processo : \E value, r : Rodou(p, value, r)
<1>1. PICK p \in Processo : Estagio(p)
    BY DEF Next
<1>2. CASE (p = FIRST_STAGE /\ OrdenarPrimeiro) \/ Ordenar(p)
    BY <1>2, RodadaEfeito DEF IInv
<1>3. CASE Avisar
    BY <1>3, AvisarSinal DEF IInv
<1>4. CASE Imprimir(p)
    BY <1>4, ImprimirSinal DEF IInv
<1>5. CASE EnviarTempo \/ ReceberTempo
    BY <1>5, TempoSinal DEF IInv
<1>. QED
    BY <1>1, <1>2, <1>3, <1>4, <1>5 DEF Estagio

LEMMA Indutivo == IInv /\ [Next]_vars => IInv'
<1>. SUFFICES ASSUME IInv, [Next]_vars PROVE IInv'
    OBVIOUS
<1>1. ASSUME NEW p \in Processo, NEW value, NEW r, Rodou(p, value, r) PROVE IInv'
    BY <1>1, RodouTipos, RodouConta, RodouFases, RodouParticao DEF IInv, Contas
<1>2. CASE Sinalizou
    BY <1>2, SinalTipos, SinalContas, SinalParticao DEF IInv
<1>3. CASE UNCHANGED vars
    <2>1. /\ LAST_STAGE' = LAST_STAGE /\ FIRST_STAGE' = FIRST_STAGE
          /\ task_size' = task_size /\ \A p : Rodadas(p)' = Rodadas(p)
          /\ FIM' = FIM /\ TEMPO' = TEMPO /\ \A p : Ordenando(p)' = Ordenando(p)
        BY <1>3 DEF vars, LAST_STAGE, FIRST_STAGE, task_size, Rodadas, FIM, TEMPO, Ordenando
    <2>2. Tipos'
        BY <1>3 DEF vars, IInv, Tipos
    <2>3. \A p \in Processo : Conta(p)'
        BY <1>3, <2>1 DEF vars, IInv, Contas, Conta
    <2>4. Fases'
        BY <1>3, <2>1 DEF vars, IInv, Contas, Fases
    <2>5. Particao'
        <3>1. \A p : Adiante(p)' = Adiante(p)
            BY <1>3, <2>1 DEF vars, Adiante, ToSet
        <3>. QED
            BY <1>3, <3>1 DEF vars, IInv, Particao
    <2>. QED
        BY <2>2, <2>3, <2>4, <2>5 DEF IInv, Contas
<1>. QED
    BY <1>1, <1>2, <1>3, Passos

LEMMA Invariante == Spec => []IInv
BY InitIInv, Indutivo, PTL DEF Spec

LEMMA TiposBastam == IInv => TypeOK
<1>. SUFFICES ASSUME IInv PROVE TypeOK
    OBVIOUS
<1>1. ASSUME NEW p \in Processo
      PROVE  rodada[p] \in 0 .. Len(entrada) /\ Len(vector_aux[p]) <= task_size
    <2>1. /\ task_size \in Nat /\ Rodadas(p) \in Nat /\ Rodadas(p) <= Len(entrada)
          /\ Len(entrada) \in Nat
        BY Tarefas DEF IInv, Tipos
    <2>2. rodada[p] \in Nat /\ Conta(p)
        BY DEF IInv, Tipos, Contas
    <2>. QED
        BY <2>1, <2>2 DEF Conta
<1>. QED
    BY <1>1 DEF IInv, Tipos, TypeOK

\* No stage makes more rounds than there are values or keeps more than its share
\* (pipeline.c:48, 63).
THEOREM TypesHold == Spec => []TypeOK
BY Invariante, TiposBastam, PTL

\* When the last stage announces the end, every stage has its whole share and no
\* value is on its way (pipeline.c:227-229), for any number of stages, any vector
\* np divides and any room of the library.
THEOREM EverythingInPlace == Spec => []TudoNoLugar
<1>1. IInv => TudoNoLugar
    BY TudoChegou DEF IInv
<1>. QED
    BY <1>1, Invariante, PTL

\* What a stage keeps is sorted, and nothing smaller lies further down the pipe
\* (pipeline.c:120-141, 168-191).
THEOREM StagesPartition == Spec => []Particao
<1>1. IInv => Particao
    BY DEF IInv
<1>. QED
    BY <1>1, Invariante, PTL

-----------------------------------------------------------------------------
(***************************************************************************)
(* A round of the loop rearranges the vector and the value.                *)
(***************************************************************************)
LEMMA OrdenadaDef == \A v : Programa!Ordenada(v) = EmOrdem(v)
BY DEF Programa!Ordenada, Programa!Cardinality, Cardinality, EmOrdem, NoLugar, Menores, AteValor

\* The value is in the place behind the vector.
Casa(s, k) == IF k = Len(s.vetor) + 1 THEN s.value ELSE s.vetor[k]

\* The values of s are those of v, and the value, in the order f.
Ordem(v, value, s, f) ==
    /\ f \in [1 .. Len(v) + 1 -> 1 .. Len(v) + 1]
    /\ \A i, j \in 1 .. Len(v) + 1 : f[i] = f[j] => i = j
    /\ \A k \in 1 .. Len(v) + 1 : Casa(s, k) = Casa(Inicio(v, value), f[k])

LEMMA TrocaOrdem ==
    ASSUME NEW v \in Seq(Int), NEW value \in Int, NEW s, NEW j \in 1 .. Len(v),
           s.vetor \in Seq(Int), Len(s.vetor) = Len(v), \E f : Ordem(v, value, s, f)
    PROVE  \E f : Ordem(v, value, Troca(s, j), f)
<1>. DEFINE n == Len(v) + 1
<1>1. PICK f : Ordem(v, value, s, f)
    OBVIOUS
<1>2. n \in Nat /\ j \in 1 .. n /\ n \in 1 .. n /\ j # n /\ Len(v) = n - 1
    OBVIOUS
<1>3. CASE s.value < s.vetor[j]
    <2>. DEFINE t == Troca(s, j)
                g == [k \in 1 .. n |-> IF k = j THEN f[n] ELSE IF k = n THEN f[j] ELSE f[k]]
    <2>1. t = [vetor |-> [s.vetor EXCEPT ![j] = s.value], value |-> s.vetor[j]]
        BY <1>3 DEF Troca
    <2>2. t.vetor = [s.vetor EXCEPT ![j] = s.value] /\ t.value = s.vetor[j]
        BY <2>1
    <2>3. DOMAIN s.vetor = 1 .. n - 1 /\ Len(s.vetor) = n - 1
        BY <1>2
    <2>4. Len(t.vetor) = n - 1
        BY <2>2, <2>3
    <2>. HIDE DEF t
    <2>5. \A k \in 1 .. n :
             Casa(t, k) = IF k = n THEN s.vetor[j] ELSE IF k = j THEN s.value ELSE s.vetor[k]
        <3>1. Len(t.vetor) + 1 = n
            BY <1>2, <2>4
        <3>2. \A k \in 1 .. n - 1 : t.vetor[k] = IF k = j THEN s.value ELSE s.vetor[k]
            BY <2>2, <2>3
        <3>3. \A k \in 1 .. n : k # n => k \in 1 .. n - 1
            BY <1>2
        <3>. QED
            BY <1>2, <2>2, <3>1, <3>2, <3>3 DEF Casa
    <2>6. \A k \in 1 .. n : Casa(s, k) = IF k = n THEN s.value ELSE s.vetor[k]
        BY <1>2, <2>3 DEF Casa
    <2>7. /\ f \in [1 .. n -> 1 .. n]
          /\ \A i, k \in 1 .. n : f[i] = f[k] => i = k
          /\ \A k \in 1 .. n : Casa(s, k) = Casa(Inicio(v, value), f[k])
        BY <1>1 DEF Ordem
    <2>8. g \in [1 .. n -> 1 .. n]
        BY <1>2, <2>7
    <2>9. \A k \in 1 .. n : g[k] = IF k = j THEN f[n] ELSE IF k = n THEN f[j] ELSE f[k]
        OBVIOUS
    <2>. HIDE DEF g
    <2>10. \A i, k \in 1 .. n : g[i] = g[k] => i = k
        BY <1>2, <2>7, <2>9
    <2>11. \A k \in 1 .. n : Casa(t, k) = Casa(Inicio(v, value), g[k])
        <3>. SUFFICES ASSUME NEW k \in 1 .. n PROVE Casa(t, k) = Casa(Inicio(v, value), g[k])
            OBVIOUS
        <3>1. CASE k = j
            BY <1>2, <2>5, <2>6, <2>7, <2>9, <3>1
        <3>2. CASE k = n
            BY <1>2, <2>5, <2>6, <2>7, <2>9, <3>2
        <3>3. CASE k # j /\ k # n
            BY <1>2, <2>5, <2>6, <2>7, <2>9, <3>3
        <3>. QED
            BY <3>1, <3>2, <3>3
    <2>12. Ordem(v, value, t, g)
        BY <2>8, <2>10, <2>11 DEF Ordem
    <2>. QED
        BY <2>12 DEF t
<1>4. CASE ~ (s.value < s.vetor[j])
    BY <1>1, <1>4 DEF Troca
<1>. QED
    BY <1>3, <1>4

LEMMA PassagemOrdem ==
    ASSUME NEW v \in Seq(Int), NEW value \in Int
    PROVE  \E f : Ordem(v, value, Passagem(v, value), f)
<1>1. PICK h : h = Passo(v, value, h) /\ Passagem(v, value) = h[Len(v)]
    BY PassagemExiste
<1>2. /\ Len(v) \in Nat
      /\ \A j \in 0 .. Len(v) : h[j] = IF j = 0 THEN Inicio(v, value) ELSE Troca(h[j - 1], j)
    <2>1. \A j \in 0 .. Len(v) :
             Passo(v, value, h)[j] = IF j = 0 THEN Inicio(v, value) ELSE Troca(h[j - 1], j)
        BY DEF Passo
    <2>. QED
        BY <1>1, <2>1
<1>. DEFINE P == {j \in 0 .. Len(v) : /\ Meio(v, value, j, h[j])
                                      /\ \E f : Ordem(v, value, h[j], f)}
<1>3. 0 \in P
    <2>. DEFINE f == [k \in 1 .. Len(v) + 1 |-> k]
    <2>1. h[0] = Inicio(v, value) /\ Meio(v, value, 0, h[0])
        BY <1>2, InicioMeio
    <2>2. Ordem(v, value, Inicio(v, value), f)
        BY DEF Ordem
    <2>. QED
        BY <1>2, <2>1, <2>2
<1>4. ASSUME NEW j \in 1 .. Len(v), j - 1 \in P PROVE j \in P
    <2>1. /\ h[j] = Troca(h[j - 1], j) /\ Meio(v, value, j - 1, h[j - 1])
          /\ \E f : Ordem(v, value, h[j - 1], f)
        BY <1>2, <1>4
    <2>2. h[j - 1].vetor \in Seq(Int) /\ Len(h[j - 1].vetor) = Len(v)
        BY <2>1 DEF Meio
    <2>3. \E f : Ordem(v, value, h[j], f)
        BY <2>1, <2>2, TrocaOrdem
    <2>4. Meio(v, value, j, h[j])
        BY <2>1, TrocaMeio
    <2>. QED
        BY <2>3, <2>4
<1>5. 0 .. Len(v) \subseteq P
    <2>. HIDE DEF P
    <2>. QED
        BY <1>2, <1>3, <1>4, Inducao
<1>6. Len(v) \in 0 .. Len(v)
    BY <1>2
<1>. QED
    BY <1>1, <1>5, <1>6

\* Place k of what a round has made: kept, or behind that, left over.
Feito(r, k) == IF k <= Len(r.vetor) THEN r.vetor[k] ELSE r.sobra[1]

\* What the round does to the vector v and the value, place by place.
Rearranja(v, value, r, f) ==
    LET n == Len(v) + 1 IN
    /\ f \in [1 .. n -> 1 .. n]
    /\ \A i, j \in 1 .. n : f[i] = f[j] => i = j
    /\ \A k \in 1 .. n : Feito(r, k) = IF f[k] = n THEN value ELSE v[f[k]]

\* A round loses no value and makes none.
LEMMA InserirOrdem ==
    ASSUME NEW v \in Seq(Int), NEW value \in Int, NEW r, r = Inserir(v, value)
    PROVE  \E f : Rearranja(v, value, r, f)
<1>. DEFINE n == Len(v) + 1
<1>1. PICK s : s = Passagem(v, value)
    OBVIOUS
<1>2. PICK f : Ordem(v, value, s, f)
    BY <1>1, PassagemOrdem
<1>3. s.vetor \in Seq(Int) /\ Len(s.vetor) = n - 1 /\ s.value \in Int /\ n - 1 \in Nat
    BY <1>1, PassagemMeio DEF Meio
<1>4. ASSUME NEW k \in 1 .. n PROVE Feito(r, k) = Casa(s, k)
    <2>1. CASE Len(v) < task_size
        <3>1. r.vetor = Append(s.vetor, s.value)
            BY <1>1, <2>1 DEF Inserir
        <3>2. /\ Len(Append(s.vetor, s.value)) = n
              /\ Append(s.vetor, s.value)[k] = IF k = n THEN s.value ELSE s.vetor[k]
            BY <1>3
        <3>. QED
            BY <1>3, <3>1, <3>2 DEF Feito, Casa
    <2>2. CASE ~ (Len(v) < task_size)
        <3>1. r.vetor = s.vetor /\ r.sobra = <<s.value>>
            BY <1>1, <2>2 DEF Inserir
        <3>2. r.sobra[1] = s.value
            BY <3>1
        <3>. QED
            BY <1>3, <3>1, <3>2 DEF Feito, Casa
    <2>. QED
        BY <2>1, <2>2
<1>5. ASSUME NEW k \in 1 .. n
      PROVE  Casa(Inicio(v, value), k) = IF k = n THEN value ELSE v[k]
    BY DEF Casa, Inicio
<1>6. /\ f \in [1 .. n -> 1 .. n] /\ \A i, j \in 1 .. n : f[i] = f[j] => i = j
      /\ \A k \in 1 .. n : Casa(s, k) = Casa(Inicio(v, value), f[k])
    BY <1>2 DEF Ordem
<1>7. \A k \in 1 .. n : Feito(r, k) = IF f[k] = n THEN value ELSE v[f[k]]
    BY <1>4, <1>5, <1>6
<1>8. Rearranja(v, value, r, f)
    BY <1>6, <1>7 DEF Rearranja
<1>. QED
    BY <1>8

-----------------------------------------------------------------------------
(***************************************************************************)
(* Where the values are.                                                   *)
(***************************************************************************)
\* The places: of the file, of the vectors, of the channels that carry values.
NoArquivo(k) == <<"entrada", FIRST_STAGE, k>>
NoVetor(p, k) == <<"vetor", p, k>>
NoCanal(p, k) == <<"canal", p, k>>

Arquivados == {NoArquivo(k) : k \in rodada[FIRST_STAGE] + 1 .. Len(entrada)}
Guardados == UNION {{NoVetor(p, k) : k \in 1 .. Len(vector_aux[p])} : p \in Processo}
ACaminho(p) == {NoCanal(p, k) : k \in 1 .. Len(canal[p][p + 1])}
Lugares ==
    Arquivados \cup Guardados
    \cup UNION {ACaminho(p) : p \in {q \in Processo : q < LAST_STAGE /\ Ordenando(q)}}

\* The value in a place.
Valor(l) ==
    IF l[1] = "entrada" THEN entrada[l[3]]
    ELSE IF l[1] = "vetor" THEN vector_aux[l[2]][l[3]] ELSE canal[l[2]][l[2] + 1][l[3]]

\* t tells which value of the file is in a place, and no two places have the same.
Origens(t) ==
    /\ t \in [Lugares -> 1 .. Len(entrada)]
    /\ \A l, m \in Lugares : t[l] = t[m] => l = m
    /\ \A l \in Lugares : Valor(l) = entrada[t[l]]

Conservado == \E t : Origens(t)

\* What every place is.
LEMMA LugarDe ==
    ASSUME NEW l
    PROVE  l \in Lugares <=>
              \/ \E k \in rodada[FIRST_STAGE] + 1 .. Len(entrada) : l = NoArquivo(k)
              \/ \E p \in Processo : \E k \in 1 .. Len(vector_aux[p]) : l = NoVetor(p, k)
              \/ \E p \in Processo : \E k \in 1 .. Len(canal[p][p + 1]) :
                    p < LAST_STAGE /\ Ordenando(p) /\ l = NoCanal(p, k)
BY DEF Lugares, Arquivados, Guardados, ACaminho

LEMMA LugarDepois ==
    ASSUME NEW l
    PROVE  l \in Lugares' <=>
              \/ \E k \in rodada'[FIRST_STAGE] + 1 .. Len(entrada') : l = NoArquivo(k)
              \/ \E p \in Processo : \E k \in 1 .. Len(vector_aux'[p]) : l = NoVetor(p, k)
              \/ \E p \in Processo : \E k \in 1 .. Len(canal'[p][p + 1]) :
                    p < LAST_STAGE /\ Ordenando(p)' /\ l = NoCanal(p, k)
BY DEF Lugares, Arquivados, Guardados, ACaminho, NoArquivo, NoVetor, NoCanal, FIRST_STAGE,
       LAST_STAGE

LEMMA Nomes ==
    /\ \A k, m : NoArquivo(k) = NoArquivo(m) => k = m
    /\ \A p, q, k, m : NoVetor(p, k) = NoVetor(q, m) => p = q /\ k = m
    /\ \A p, q, k, m : NoCanal(p, k) = NoCanal(q, m) => p = q /\ k = m
    /\ \A p, q, k, m : /\ NoArquivo(k) # NoVetor(p, m) /\ NoArquivo(k) # NoCanal(p, m)
                       /\ NoVetor(q, k) # NoCanal(p, m)
BY DEF NoArquivo, NoVetor, NoCanal

LEMMA Valores3 ==
    ASSUME NEW p, NEW k
    PROVE  /\ Valor(NoArquivo(k)) = entrada[k] /\ Valor(NoVetor(p, k)) = vector_aux[p][k]
           /\ Valor(NoCanal(p, k)) = canal[p][p + 1][k]
BY DEF Valor, NoArquivo, NoVetor, NoCanal

\* If what is in a place now was in a place of its own before, nothing is lost.
LEMMA Mudanca ==
    ASSUME Conservado, entrada' = entrada, NEW g,
           \A l \in Lugares' : g[l] \in Lugares /\ Valor(l)' = Valor(g[l]),
           \A l, m \in Lugares' : g[l] = g[m] => l = m
    PROVE  Conservado'
<1>1. PICK t : Origens(t)
    BY DEF Conservado
<1>2. /\ t \in [Lugares -> 1 .. Len(entrada)]
      /\ \A l, m \in Lugares : t[l] = t[m] => l = m
      /\ \A l \in Lugares : Valor(l) = entrada[t[l]]
    BY <1>1 DEF Origens
<1>3. \E u : /\ u \in [Lugares' -> 1 .. Len(entrada)]
             /\ \A l, m \in Lugares' : u[l] = u[m] => l = m
             /\ \A l \in Lugares' : Valor(l)' = entrada[u[l]]
    <2>. DEFINE L == Lugares'
                f == [l \in L |-> t[g[l]]]
    <2>1. /\ f \in [L -> 1 .. Len(entrada)]
          /\ \A l, m \in L : f[l] = f[m] => l = m
          /\ \A l \in L : Valor(l)' = entrada[f[l]]
        BY <1>2
    <2>. QED
        <3>. HIDE DEF f
        <3>. QED
            BY <2>1
<1>4. PICK u : /\ u \in [Lugares' -> 1 .. Len(entrada)]
               /\ \A l, m \in Lugares' : u[l] = u[m] => l = m
               /\ \A l \in Lugares' : Valor(l)' = entrada[u[l]]
    BY <1>3
<1>5. Origens(u)'
    BY <1>4 DEF Origens
<1>. QED
    BY <1>5 DEF Conservado

\* Where a round of stage p takes its value from, and where the value of place i of
\* the vector and the value is.
Fonte(p) == IF p = FIRST_STAGE THEN NoArquivo(rodada[p] + 1) ELSE NoCanal(p - 1, 1)
De(p, i) == IF i = Len(vector_aux[p]) + 1 THEN Fonte(p) ELSE NoVetor(p, i)

\* Where what it has made is put.
Destino(p, r, k) ==
    IF k <= Len(r.vetor) THEN NoVetor(p, k) ELSE NoCanal(p, Len(canal[p][p + 1]) + 1)

\* What the round does not touch.
Quieto(p, l) ==
    /\ l \in Lugares /\ l # Fonte(p) /\ Valor(l)' = Valor(l)
    /\ \A k : l # NoVetor(p, k) /\ l # NoCanal(p - 1, k)

\* The value in place l was in place d before the round.
Vem(p, r, f, l, d) ==
    \/ \E k \in 1 .. Len(vector_aux[p]) + 1 : l = Destino(p, r, k) /\ d = De(p, f[k])
    \/ /\ p # FIRST_STAGE
       /\ \E k \in 1 .. Len(canal[p - 1][p]) - 1 :
             l = NoCanal(p - 1, k) /\ d = NoCanal(p - 1, k + 1)
    \/ l = d /\ Quieto(p, l)

LEMMA RodouCanais ==
    ASSUME Tipos, Contas, NEW p \in Processo, NEW value, NEW r, Rodou(p, value, r)
    PROVE  /\ Len(vector_aux[p]) \in Nat /\ vector_aux[p] \in Seq(Int)
           /\ r.sobra # <<>> <=> Len(r.vetor) = Len(vector_aux[p])
           /\ r.sobra = <<>> <=> Len(r.vetor) = Len(vector_aux[p]) + 1
           /\ \A q \in Processo : q < LAST_STAGE =>
                 /\ Ordenando(q) /\ Ordenando(q)' /\ q + 1 \in Processo
                 /\ canal[q][q + 1] \in Seq(Int)
                 /\ canal'[q][q + 1] =
                       IF r.sobra # <<>> /\ q = p THEN Append(canal[p][p + 1], r.sobra[1])
                       ELSE IF p # FIRST_STAGE /\ q = p - 1 THEN Tail(canal[p - 1][p])
                       ELSE canal[q][q + 1]
<1>1. Inserido(vector_aux[p], value, r) /\ vector_aux[p] \in Seq(Int) /\ task_size \in Nat
    BY Tarefas DEF Rodou, Tipos
<1>2. /\ Len(vector_aux[p]) \in Nat
      /\ r.sobra # <<>> <=> Len(r.vetor) = Len(vector_aux[p])
      /\ r.sobra = <<>> <=> Len(r.vetor) = Len(vector_aux[p]) + 1
    <2>1. Len(vector_aux[p]) \in Nat
        BY <1>1
    <2>2. /\ Len(vector_aux[p]) < task_size =>
                 Len(r.vetor) = Len(vector_aux[p]) + 1 /\ r.sobra = <<>>
          /\ Len(vector_aux[p]) >= task_size =>
                 Len(r.vetor) = Len(vector_aux[p]) /\ r.sobra # <<>>
        BY <1>1 DEF Inserido
    <2>. QED
        BY <1>1, <2>1, <2>2
<1>3. ASSUME NEW q \in Processo, q < LAST_STAGE
      PROVE  /\ Ordenando(q) /\ Ordenando(q)' /\ q + 1 \in Processo
             /\ canal[q][q + 1] \in Seq(Int)
             /\ canal'[q][q + 1] =
                   IF r.sobra # <<>> /\ q = p THEN Append(canal[p][p + 1], r.sobra[1])
                   ELSE IF p # FIRST_STAGE /\ q = p - 1 THEN Tail(canal[p - 1][p])
                   ELSE canal[q][q + 1]
    <2>1. q + 1 \in Processo /\ q \in Int /\ p \in Int /\ q # LAST_STAGE
        BY <1>3, Numeros, Vizinhos
    <2>2. Ordenando(q)
        BY <1>3, Antes DEF Rodou
    <2>3. Ordenando(q)'
        <3>1. \/ pc'[q] = pc[q]
              \/ q = p /\ pc'[q] = "esperar"
            BY <2>1 DEF Rodou, Tipos
        <3>. QED
            BY <2>2, <3>1 DEF Ordenando
    <2>4. canal[q][q + 1] \in Seq(Int)
        BY <2>1 DEF Tipos
    <2>5. canal'[q][q + 1] =
             IF r.sobra # <<>> /\ q = p /\ q + 1 = p + 1
             THEN Append(canal[p][p + 1], r.sobra[1])
             ELSE IF p # FIRST_STAGE /\ q = p - 1 /\ q + 1 = p
             THEN Tail(canal[p - 1][p]) ELSE canal[q][q + 1]
        BY <2>1 DEF Rodou
    <2>. QED
        BY <2>1, <2>2, <2>3, <2>4, <2>5
<1>. QED
    BY <1>1, <1>2, <1>3

\* Every place of after the round has its value from somewhere.
LEMMA Vindas ==
    ASSUME Tipos, Contas, NEW p \in Processo, NEW value, NEW r, Rodou(p, value, r),
           NEW f, NEW l \in Lugares'
    PROVE  \E d : Vem(p, r, f, l, d)
<1>. DEFINE n == Len(vector_aux[p])
<1>1. /\ n \in Nat /\ (r.sobra # <<>> <=> Len(r.vetor) = n)
      /\ r.sobra = <<>> <=> Len(r.vetor) = n + 1
      /\ \A q \in Processo : q < LAST_STAGE =>
            /\ Ordenando(q) /\ Ordenando(q)' /\ q + 1 \in Processo
            /\ canal[q][q + 1] \in Seq(Int)
            /\ canal'[q][q + 1] =
                  IF r.sobra # <<>> /\ q = p THEN Append(canal[p][p + 1], r.sobra[1])
                  ELSE IF p # FIRST_STAGE /\ q = p - 1 THEN Tail(canal[p - 1][p])
                  ELSE canal[q][q + 1]
    BY RodouCanais
<1>2. /\ rodada[p] \in Nat /\ rodada'[p] = rodada[p] + 1 /\ vector_aux'[p] = r.vetor
      /\ entrada' = entrada /\ entrada \in Seq(Int)
      /\ \A q \in Processo : q # p => rodada'[q] = rodada[q] /\ vector_aux'[q] = vector_aux[q]
    BY RodouNumeros, Tarefas DEF Rodou, Tipos
<1>3. /\ FIRST_STAGE \in Processo /\ rodada[FIRST_STAGE] \in Nat /\ p \in Int
      /\ Len(entrada) \in Nat
    BY <1>2, Numeros, Vizinhos DEF Tipos
<1>4. ASSUME NEW k, NEW q
      PROVE  /\ NoArquivo(k)' = NoArquivo(k) /\ NoVetor(q, k)' = NoVetor(q, k)
             /\ NoCanal(q, k)' = NoCanal(q, k)
             /\ Valor(NoArquivo(k))' = entrada'[k]
             /\ Valor(NoVetor(q, k))' = vector_aux'[q][k]
             /\ Valor(NoCanal(q, k))' = canal'[q][q + 1][k]
    BY DEF NoArquivo, NoVetor, NoCanal, Valor, FIRST_STAGE
<1>5. \/ \E k \in rodada'[FIRST_STAGE] + 1 .. Len(entrada) : l = NoArquivo(k)
      \/ \E q \in Processo : \E k \in 1 .. Len(vector_aux'[q]) : l = NoVetor(q, k)
      \/ \E q \in Processo : \E k \in 1 .. Len(canal'[q][q + 1]) :
            q < LAST_STAGE /\ l = NoCanal(q, k)
    BY <1>2, LugarDepois
<1>6. CASE \E k \in rodada'[FIRST_STAGE] + 1 .. Len(entrada) : l = NoArquivo(k)
    <2>1. PICK k \in rodada'[FIRST_STAGE] + 1 .. Len(entrada) : l = NoArquivo(k)
        BY <1>6
    <2>2. k \in rodada[FIRST_STAGE] + 1 .. Len(entrada)
        BY <1>2, <1>3
    <2>3. p = FIRST_STAGE => k # rodada[p] + 1
        BY <1>2, <1>3
    <2>4. l \in Lugares
        BY <2>1, <2>2, LugarDe
    <2>5. l # Fonte(p)
        <3>1. l = NoArquivo(rodada[p] + 1) => k = rodada[p] + 1
            BY <2>1, Nomes
        <3>2. l # NoCanal(p - 1, 1)
            BY <2>1, Nomes
        <3>. QED
            BY <2>3, <3>1, <3>2 DEF Fonte
    <2>6. Valor(l)' = Valor(l)
        BY <1>2, <2>1 DEF Valor, NoArquivo
    <2>7. \A m : l # NoVetor(p, m) /\ l # NoCanal(p - 1, m)
        BY <2>1, Nomes
    <2>. QED
        BY <2>4, <2>5, <2>6, <2>7 DEF Vem, Quieto
<1>7. CASE \E q \in Processo : \E k \in 1 .. Len(vector_aux'[q]) : l = NoVetor(q, k)
    <2>0. PICK q \in Processo : \E k \in 1 .. Len(vector_aux'[q]) : l = NoVetor(q, k)
        BY <1>7
    <2>1. PICK k \in 1 .. Len(vector_aux'[q]) : l = NoVetor(q, k)
        BY <2>0
    <2>2. CASE q = p
        <3>1. k <= Len(r.vetor) /\ k \in 1 .. n + 1
            BY <1>1, <1>2, <2>1, <2>2
        <3>2. l = Destino(p, r, k)
            BY <2>1, <2>2, <3>1 DEF Destino
        <3>. QED
            BY <3>1, <3>2 DEF Vem
    <2>3. CASE q # p
        <3>1. vector_aux'[q] = vector_aux[q]
            BY <1>2, <2>3
        <3>2. l \in Lugares
            BY <2>1, <3>1, LugarDe
        <3>3. l # Fonte(p)
            <4>1. l # NoArquivo(rodada[p] + 1) /\ l # NoCanal(p - 1, 1)
                BY <2>1, Nomes
            <4>. QED
                BY <4>1 DEF Fonte
        <3>4. Valor(l)' = Valor(l)
            BY <1>4, <2>1, <3>1, Valores3
        <3>5. \A m : l # NoVetor(p, m) /\ l # NoCanal(p - 1, m)
            BY <2>1, <2>3, Nomes
        <3>. QED
            BY <3>2, <3>3, <3>4, <3>5 DEF Vem, Quieto
    <2>. QED
        BY <2>2, <2>3
<1>8. CASE \E q \in Processo : \E k \in 1 .. Len(canal'[q][q + 1]) :
              q < LAST_STAGE /\ l = NoCanal(q, k)
    <2>0. PICK q \in Processo :
              \E k \in 1 .. Len(canal'[q][q + 1]) : q < LAST_STAGE /\ l = NoCanal(q, k)
        BY <1>8
    <2>1. PICK k \in 1 .. Len(canal'[q][q + 1]) : q < LAST_STAGE /\ l = NoCanal(q, k)
        BY <2>0
    <2>2. Ordenando(q) /\ canal[q][q + 1] \in Seq(Int) /\ q \in Int
        BY <1>1, <2>1, Vizinhos
    <2>3. CASE q # p - 1 /\ k \in 1 .. Len(canal[q][q + 1])
        <3>1. l \in Lugares
            BY <2>1, <2>2, <2>3, LugarDe
        <3>2. l # Fonte(p)
            <4>1. l # NoArquivo(rodada[p] + 1) /\ l # NoCanal(p - 1, 1)
                BY <2>1, <2>3, Nomes
            <4>. QED
                BY <4>1 DEF Fonte
        <3>3. canal'[q][q + 1][k] = canal[q][q + 1][k]
            <4>1. \/ canal'[q][q + 1] = canal[q][q + 1]
                  \/ canal'[q][q + 1] = Append(canal[q][q + 1], r.sobra[1])
                BY <1>1, <2>1, <2>3
            <4>2. Append(canal[q][q + 1], r.sobra[1])[k] = canal[q][q + 1][k]
                BY <2>2, <2>3
            <4>. QED
                BY <4>1, <4>2
        <3>4. Valor(l)' = Valor(l)
            BY <1>4, <2>1, <3>3, Valores3
        <3>5. \A m : l # NoVetor(p, m) /\ l # NoCanal(p - 1, m)
            BY <2>1, <2>3, Nomes
        <3>. QED
            BY <3>1, <3>2, <3>4, <3>5 DEF Vem, Quieto
    <2>4. CASE q # p - 1 /\ ~ (k \in 1 .. Len(canal[q][q + 1]))
        <3>1. r.sobra # <<>> /\ q = p
            BY <1>1, <2>1, <2>4
        <3>2. canal'[q][q + 1] = Append(canal[q][q + 1], r.sobra[1])
            BY <1>1, <2>1, <3>1
        <3>3. k = Len(canal[q][q + 1]) + 1
            <4>1. Len(canal'[q][q + 1]) = Len(canal[q][q + 1]) + 1
                BY <2>2, <3>2
            <4>. QED
                BY <2>1, <2>2, <2>4, <4>1
        <3>4. l = Destino(p, r, n + 1) /\ n + 1 \in 1 .. n + 1
            BY <1>1, <2>1, <3>1, <3>3 DEF Destino
        <3>. QED
            BY <3>4 DEF Vem
    <2>5. CASE q = p - 1
        <3>1. p # FIRST_STAGE /\ q # p /\ q + 1 = p
            BY <1>3, <2>1, <2>2, <2>5, Numeros, Vizinhos
        <3>2. canal'[q][q + 1] = Tail(canal[p - 1][p])
            BY <1>1, <2>1, <2>5, <3>1
        <3>3. canal[p - 1][p] # <<>> /\ canal[p - 1][p] \in Seq(Int)
            BY <2>2, <2>5, <3>1 DEF Rodou
        <3>4. k \in 1 .. Len(canal[p - 1][p]) - 1
            BY <2>1, <3>2, <3>3, Resto
        <3>. QED
            BY <2>1, <2>5, <3>1, <3>4 DEF Vem
    <2>. QED
        BY <2>3, <2>4, <2>5
<1>. QED
    BY <1>5, <1>6, <1>7, <1>8

LEMMA FonteTem ==
    ASSUME Tipos, Contas, NEW p \in Processo, NEW value, NEW r, Rodou(p, value, r)
    PROVE  Fonte(p) \in Lugares /\ Valor(Fonte(p)) = value
<1>1. CASE p = FIRST_STAGE
    <2>1. value = entrada[rodada[p] + 1]
        BY <1>1 DEF Rodou
    <2>2. rodada[p] < Rodadas(p) /\ rodada[p] \in Nat
        BY RodouNumeros
    <2>3. Len(entrada) = Rodadas(p) /\ entrada \in Seq(Int)
        BY <1>1, Tarefas DEF Tipos
    <2>4. rodada[p] + 1 \in rodada[p] + 1 .. Len(entrada)
        BY <2>2, <2>3
    <2>5. Fonte(p) = NoArquivo(rodada[p] + 1)
        BY <1>1 DEF Fonte
    <2>6. Fonte(p) \in Lugares
        BY <1>1, <2>4, <2>5, LugarDe
    <2>. QED
        BY <2>1, <2>5, <2>6, Valores3
<1>2. CASE p # FIRST_STAGE
    <2>1. p - 1 \in Processo /\ p - 1 < LAST_STAGE /\ (p - 1) + 1 = p
        BY <1>2, Vizinhos
    <2>2. canal[p - 1][p] # <<>> /\ value = Head(canal[p - 1][p])
        BY <1>2 DEF Rodou
    <2>3. Ordenando(p - 1) /\ canal[p - 1][p] \in Seq(Int)
        BY <2>1, RodouCanais
    <2>4. 1 \in 1 .. Len(canal[p - 1][(p - 1) + 1]) /\ value = canal[p - 1][p][1]
        BY <2>1, <2>2, <2>3, Resto
    <2>5. Fonte(p) = NoCanal(p - 1, 1)
        BY <1>2 DEF Fonte
    <2>6. Fonte(p) \in Lugares
        BY <2>1, <2>3, <2>4, <2>5, LugarDe
    <2>. QED
        BY <2>1, <2>4, <2>5, <2>6, Valores3
<1>. QED
    BY <1>1, <1>2

LEMMA Partidas ==
    ASSUME Tipos, Contas, NEW p \in Processo, NEW value, NEW r, Rodou(p, value, r),
           NEW f, Rearranja(vector_aux[p], value, r, f), NEW l \in Lugares', NEW d, Vem(p, r, f, l, d)
    PROVE  d \in Lugares /\ Valor(l)' = Valor(d)
<1>. DEFINE v == vector_aux[p]
            n == Len(v) + 1
<1>1. /\ v \in Seq(Int) /\ Len(v) \in Nat
      /\ r.sobra # <<>> <=> Len(r.vetor) = Len(v)
      /\ r.sobra = <<>> <=> Len(r.vetor) = n
      /\ vector_aux'[p] = r.vetor /\ r.vetor \in Seq(Int)
      /\ r.sobra # <<>> => r.sobra[1] \in Int
    BY RodouCanais, RodouNumeros
<1>2. CASE \E k \in 1 .. n : l = Destino(p, r, k) /\ d = De(p, f[k])
    <2>1. PICK k \in 1 .. n : l = Destino(p, r, k) /\ d = De(p, f[k])
        BY <1>2
    <2>2. f[k] \in 1 .. n /\ Feito(r, k) = IF f[k] = n THEN value ELSE v[f[k]]
        BY <2>1 DEF Rearranja
    <2>3. d \in Lugares /\ Valor(d) = Feito(r, k)
        <3>1. CASE f[k] = n
            BY <2>1, <2>2, <3>1, FonteTem DEF De
        <3>2. CASE f[k] # n
            <4>1. f[k] \in 1 .. Len(v)
                BY <1>1, <2>2, <3>2
            <4>2. d = NoVetor(p, f[k])
                BY <2>1, <3>2 DEF De
            <4>3. d \in Lugares
                BY <4>1, <4>2, LugarDe
            <4>. QED
                BY <2>2, <3>2, <4>2, <4>3, Valores3
        <3>. QED
            BY <3>1, <3>2
    <2>4. Valor(l)' = Feito(r, k)
        <3>1. CASE k <= Len(r.vetor)
            <4>1. l = NoVetor(p, k) /\ Feito(r, k) = r.vetor[k]
                BY <2>1, <3>1 DEF Destino, Feito
            <4>2. l = <<"vetor", p, k>>
                BY <4>1 DEF NoVetor
            <4>3. Valor(l)' = vector_aux'[p][k]
                BY <4>2 DEF Valor
            <4>. QED
                BY <1>1, <4>1, <4>3
        <3>2. CASE ~ (k <= Len(r.vetor))
            <4>. DEFINE m == Len(canal[p][p + 1])
            <4>1. r.sobra # <<>> /\ Feito(r, k) = r.sobra[1]
                BY <1>1, <2>1, <3>2 DEF Feito
            <4>2. p < LAST_STAGE
                BY <4>1, Numeros, Vizinhos DEF Rodou
            <4>3. /\ canal'[p][p + 1] = Append(canal[p][p + 1], r.sobra[1])
                  /\ canal[p][p + 1] \in Seq(Int)
                <5>1. /\ canal'[p][p + 1] =
                            IF r.sobra # <<>> /\ p = p THEN Append(canal[p][p + 1], r.sobra[1])
                            ELSE IF p # FIRST_STAGE /\ p = p - 1 THEN Tail(canal[p - 1][p])
                            ELSE canal[p][p + 1]
                      /\ canal[p][p + 1] \in Seq(Int)
                    BY <4>2, RodouCanais
                <5>. QED
                    BY <4>1, <5>1
            <4>4. canal'[p][p + 1][m + 1] = r.sobra[1]
                BY <1>1, <4>1, <4>3
            <4>5. l = <<"canal", p, m + 1>>
                BY <2>1, <3>2 DEF Destino, NoCanal
            <4>6. l[1] = "canal" /\ l[2] = p /\ l[3] = m + 1
                BY <4>5
            <4>. HIDE DEF m
            <4>7. Valor(l)' = canal'[p][p + 1][m + 1]
                BY <4>6 DEF Valor
            <4>. QED
                BY <4>1, <4>4, <4>7
        <3>. QED
            BY <3>1, <3>2
    <2>. QED
        BY <2>3, <2>4
<1>3. CASE /\ p # FIRST_STAGE
           /\ \E k \in 1 .. Len(canal[p - 1][p]) - 1 :
                 l = NoCanal(p - 1, k) /\ d = NoCanal(p - 1, k + 1)
    <2>1. PICK k \in 1 .. Len(canal[p - 1][p]) - 1 :
              l = NoCanal(p - 1, k) /\ d = NoCanal(p - 1, k + 1)
        BY <1>3
    <2>2. p - 1 \in Processo /\ p - 1 < LAST_STAGE /\ (p - 1) + 1 = p /\ p - 1 # p
        BY <1>3, Vizinhos
    <2>3. /\ Ordenando(p - 1) /\ canal[p - 1][p] \in Seq(Int)
          /\ canal'[p - 1][p] = Tail(canal[p - 1][p])
        BY <1>3, <2>2, RodouCanais
    <2>4. /\ k + 1 \in 1 .. Len(canal[p - 1][(p - 1) + 1])
          /\ canal[p - 1][p] # <<>> /\ k \in DOMAIN Tail(canal[p - 1][p])
        BY <2>1, <2>2, <2>3
    <2>5. canal'[p - 1][p][k] = canal[p - 1][p][k + 1]
        BY <2>3, <2>4, Resto
    <2>6. d \in Lugares
        BY <2>1, <2>2, <2>3, <2>4, LugarDe
    <2>7. Valor(d) = canal[p - 1][p][k + 1]
        BY <2>1, <2>2, Valores3
    <2>8. Valor(l)' = canal'[p - 1][p][k]
        <3>1. l[1] = "canal" /\ l[2] = p - 1 /\ l[3] = k
            BY <2>1 DEF NoCanal
        <3>. QED
            BY <2>2, <3>1 DEF Valor
    <2>. QED
        BY <2>5, <2>6, <2>7, <2>8
<1>4. CASE l = d /\ Quieto(p, l)
    BY <1>4 DEF Quieto
<1>. QED
    BY <1>2, <1>3, <1>4 DEF Vem

LEMMA UmaOrigem ==
    ASSUME Tipos, Contas, NEW p \in Processo, NEW value, NEW r, Rodou(p, value, r),
           NEW f, Rearranja(vector_aux[p], value, r, f), NEW l, NEW m, NEW d,
           Vem(p, r, f, l, d), Vem(p, r, f, m, d)
    PROVE  l = m
<1>. DEFINE n == Len(vector_aux[p]) + 1
            Novo(x) == \E k \in 1 .. n : x = Destino(p, r, k) /\ d = De(p, f[k])
            Puxado(x) == /\ p # FIRST_STAGE
                         /\ \E k \in 1 .. Len(canal[p - 1][p]) - 1 :
                               x = NoCanal(p - 1, k) /\ d = NoCanal(p - 1, k + 1)
            Parado(x) == x = d /\ Quieto(p, x)
<1>0. Len(vector_aux[p]) \in Nat
    BY RodouCanais
<1>1. \A x : Vem(p, r, f, x, d) => Novo(x) \/ Puxado(x) \/ Parado(x)
    BY DEF Vem
<1>2. ASSUME NEW x, Novo(x)
      PROVE  d = Fonte(p) \/ \E i : d = NoVetor(p, i)
    BY <1>2 DEF De
<1>3. ASSUME NEW x, Puxado(x)
      PROVE  \E k \in Int : k > 1 /\ d = NoCanal(p - 1, k)
    <2>1. PICK k \in 1 .. Len(canal[p - 1][p]) - 1 : d = NoCanal(p - 1, k + 1)
        BY <1>3
    <2>2. k + 1 \in Int /\ k + 1 > 1
        OBVIOUS
    <2>. QED
        BY <2>1, <2>2
<1>4. ASSUME NEW x, Parado(x)
      PROVE  d # Fonte(p) /\ \A k : d # NoVetor(p, k) /\ d # NoCanal(p - 1, k)
    BY <1>4 DEF Quieto
<1>5. ASSUME NEW x, NEW y, Novo(x), Puxado(y) PROVE FALSE
    <2>1. PICK k \in Int : k > 1 /\ d = NoCanal(p - 1, k)
        BY <1>3, <1>5
    <2>2. d # Fonte(p)
        <3>1. d # NoArquivo(rodada[p] + 1)
            BY <2>1, Nomes
        <3>2. d # NoCanal(p - 1, 1)
            BY <2>1, Nomes
        <3>. QED
            BY <3>1, <3>2 DEF Fonte
    <2>3. \A i : d # NoVetor(p, i)
        BY <2>1, Nomes
    <2>. QED
        BY <1>2, <1>5, <2>2, <2>3
<1>6. ASSUME NEW x, NEW y, Novo(x), Novo(y) PROVE x = y
    <2>1. PICK i \in 1 .. n : x = Destino(p, r, i) /\ d = De(p, f[i])
        BY <1>6
    <2>2. PICK j \in 1 .. n : y = Destino(p, r, j) /\ d = De(p, f[j])
        BY <1>6
    <2>3. \A a : NoVetor(p, a) # Fonte(p)
        <3>1. \A a : NoVetor(p, a) # NoArquivo(rodada[p] + 1)
            BY Nomes
        <3>2. \A a : NoVetor(p, a) # NoCanal(p - 1, 1)
            BY Nomes
        <3>. QED
            BY <3>1, <3>2 DEF Fonte
    <2>4. f[i] = f[j]
        BY <2>1, <2>2, <2>3, Nomes DEF De
    <2>5. i = j
        BY <2>1, <2>2, <2>4 DEF Rearranja
    <2>. QED
        BY <2>1, <2>2, <2>5
<1>7. ASSUME NEW x, NEW y, Puxado(x), Puxado(y) PROVE x = y
    <2>1. PICK i \in 1 .. Len(canal[p - 1][p]) - 1 :
              x = NoCanal(p - 1, i) /\ d = NoCanal(p - 1, i + 1)
        BY <1>7
    <2>2. PICK j \in 1 .. Len(canal[p - 1][p]) - 1 :
              y = NoCanal(p - 1, j) /\ d = NoCanal(p - 1, j + 1)
        BY <1>7
    <2>3. i + 1 = j + 1
        BY <2>1, <2>2, Nomes
    <2>4. i = j
        BY <2>3
    <2>. QED
        BY <2>1, <2>2, <2>4
<1>. HIDE DEF Novo, Puxado, Parado
<1>8. ASSUME NEW x, NEW y, Novo(x), Parado(y) PROVE FALSE
    BY <1>2, <1>4, <1>8
<1>9. ASSUME NEW x, NEW y, Puxado(x), Parado(y) PROVE FALSE
    BY <1>3, <1>4, <1>9
<1>10. ASSUME NEW x, NEW y, Parado(x), Parado(y) PROVE x = y
    BY <1>10 DEF Parado
<1>. QED
    BY <1>1, <1>5, <1>6, <1>7, <1>8, <1>9, <1>10

LEMMA RodouConservado ==
    ASSUME Tipos, Contas, Conservado,
           NEW p \in Processo, NEW value, NEW r, Rodou(p, value, r)
    PROVE  Conservado'
<1>1. \E f : Rearranja(vector_aux[p], value, r, f)
    <2>1. vector_aux[p] \in Seq(Int) /\ value \in Int /\ r = Inserir(vector_aux[p], value)
        BY DEF Rodou, Tipos
    <2>. QED
        BY <2>1, InserirOrdem
<1>2. PICK f : Rearranja(vector_aux[p], value, r, f)
    BY <1>1
<1>3. \E g : \A l \in Lugares' : Vem(p, r, f, l, g[l])
    <2>. DEFINE g == [l \in Lugares' |-> CHOOSE d : Vem(p, r, f, l, d)]
    <2>1. \A l \in Lugares' : Vem(p, r, f, l, CHOOSE d : Vem(p, r, f, l, d))
        BY Vindas
    <2>2. \A l \in Lugares' : Vem(p, r, f, l, g[l])
        BY <2>1
    <2>. HIDE DEF g
    <2>. QED
        BY <2>2
<1>4. PICK g : \A l \in Lugares' : Vem(p, r, f, l, g[l])
    BY <1>3
<1>5. \A l \in Lugares' : g[l] \in Lugares /\ Valor(l)' = Valor(g[l])
    BY <1>2, <1>4, Partidas
<1>6. \A l, m \in Lugares' : g[l] = g[m] => l = m
    <2>. SUFFICES ASSUME NEW l \in Lugares', NEW m \in Lugares', g[l] = g[m] PROVE l = m
        OBVIOUS
    <2>1. Vem(p, r, f, l, g[l]) /\ Vem(p, r, f, m, g[l])
        BY <1>4
    <2>. QED
        BY <1>2, <2>1, UmaOrigem
<1>7. entrada' = entrada
    BY DEF Rodou
<1>. QED
    BY <1>5, <1>6, <1>7, Mudanca

LEMMA SinalConservado ==
    ASSUME Tipos, Conservado, Sinalizou
    PROVE  Conservado'
<1>1. rodada' = rodada /\ vector_aux' = vector_aux /\ entrada' = entrada
    BY DEF Sinalizou
<1>2. ASSUME NEW l \in Lugares' PROVE l \in Lugares /\ Valor(l)' = Valor(l)
    <2>1. CASE \E q \in Processo : \E k \in 1 .. Len(canal'[q][q + 1]) :
                  q < LAST_STAGE /\ Ordenando(q)' /\ l = NoCanal(q, k)
        <3>1. PICK q \in Processo : \E k \in 1 .. Len(canal'[q][q + 1]) :
                  q < LAST_STAGE /\ Ordenando(q)' /\ l = NoCanal(q, k)
            BY <2>1
        <3>2. Ordenando(q) /\ canal'[q][q + 1] = canal[q][q + 1]
            BY <3>1 DEF Sinalizou
        <3>3. l \in Lugares
            BY <3>1, <3>2, LugarDe
        <3>4. l[1] = "canal" /\ l[2] = q
            BY <3>1 DEF NoCanal
        <3>. QED
            BY <3>2, <3>3, <3>4 DEF Valor
    <2>2. CASE \E k \in rodada'[FIRST_STAGE] + 1 .. Len(entrada') : l = NoArquivo(k)
        <3>1. l \in Lugares
            BY <1>1, <2>2, LugarDe
        <3>2. l[1] = "entrada"
            BY <2>2 DEF NoArquivo
        <3>. QED
            BY <1>1, <3>1, <3>2 DEF Valor
    <2>3. CASE \E q \in Processo : \E k \in 1 .. Len(vector_aux'[q]) : l = NoVetor(q, k)
        <3>1. l \in Lugares
            BY <1>1, <2>3, LugarDe
        <3>2. l[1] = "vetor"
            BY <2>3 DEF NoVetor
        <3>. QED
            BY <1>1, <3>1, <3>2 DEF Valor
    <2>. QED
        BY <2>1, <2>2, <2>3, LugarDepois
<1>3. \E g : /\ \A l \in Lugares' : g[l] \in Lugares /\ Valor(l)' = Valor(g[l])
             /\ \A l, m \in Lugares' : g[l] = g[m] => l = m
    <2>. DEFINE g == [l \in Lugares' |-> l]
    <2>1. \A l \in Lugares' : g[l] = l
        OBVIOUS
    <2>. HIDE DEF g
    <2>. QED
        BY <1>2, <2>1
<1>. QED
    BY <1>1, <1>3, Mudanca

LEMMA InitConservado == Init => Conservado
<1>. SUFFICES ASSUME Init PROVE Conservado
    OBVIOUS
<1>1. /\ entrada \in Seq(Int) /\ FIRST_STAGE \in Processo
      /\ rodada = [p \in Processo |-> 0]
      /\ \A p \in Processo : vector_aux[p] = <<>> /\ \A q \in Processo : canal[p][q] = <<>>
    BY EntradasAssumption, Numeros DEF Init, InitMPI
<1>2. \A l : l \in Lugares <=> \E k \in 1 .. Len(entrada) : l = NoArquivo(k)
    <2>1. \A p \in Processo : Len(vector_aux[p]) = 0
        BY <1>1
    <2>2. \A p \in Processo : p < LAST_STAGE => Len(canal[p][p + 1]) = 0
        BY <1>1, Vizinhos
    <2>3. rodada[FIRST_STAGE] + 1 = 1
        BY <1>1
    <2>. QED
        BY <2>1, <2>2, <2>3, LugarDe
<1>. DEFINE t == [l \in Lugares |-> l[3]]
<1>3. \A k : NoArquivo(k)[3] = k
    BY DEF NoArquivo
<1>4. \A l \in Lugares : t[l] \in 1 .. Len(entrada) /\ l = NoArquivo(t[l])
    BY <1>2, <1>3
<1>5. t \in [Lugares -> 1 .. Len(entrada)]
    BY <1>4
<1>. HIDE DEF t
<1>6. \A l \in Lugares : Valor(l) = entrada[t[l]]
    BY <1>4, Valores3
<1>7. Origens(t)
    BY <1>4, <1>5, <1>6 DEF Origens
<1>. QED
    BY <1>7 DEF Conservado

-----------------------------------------------------------------------------
(***************************************************************************)
(* The whole list.                                                         *)
(***************************************************************************)
\* Multiples of the size of a share, in order.
LEMMA Multiplos ==
    ASSUME NEW t \in Nat, t > 0, NEW p \in Int, NEW q \in Int, p < q
    PROVE  t * p \in Int /\ t * q \in Int /\ t * p + t <= t * q
<1>1. t * (q - p - 1) >= 0
    BY q - p - 1 \in Nat
<1>2. t * (q - p - 1) = t * q - t * p - t
    OBVIOUS
<1>. QED
    BY <1>1, <1>2

LEMMA UmaEtapa ==
    ASSUME NEW t \in Nat, t > 0, NEW p \in Int, NEW q \in Int, NEW j \in 1 .. t,
           NEW k \in 1 .. t, t * p + j = t * q + k
    PROVE  p = q /\ j = k
<1>0. t * p \in Int /\ t * q \in Int
    OBVIOUS
<1>1. ASSUME p < q PROVE FALSE
    BY <1>0, <1>1, Multiplos
<1>2. ASSUME q < p PROVE FALSE
    BY <1>0, <1>2, Multiplos
<1>3. p = q
    BY <1>1, <1>2
<1>. QED
    BY <1>0, <1>3

LEMMA Etapas ==
    ASSUME entrada \in Entradas
    PROVE  /\ task_size \in Nat /\ task_size > 0 /\ entrada \in Seq(Int)
           /\ Len(entrada) \in Nat
           /\ \A q \in Processo : /\ task_size * q \in Nat
                                  /\ task_size * q + task_size <= Len(entrada)
           /\ \A i \in 1 .. Len(entrada) :
                 \E q \in Processo : \E k \in 1 .. task_size : i = task_size * q + k
<1>. DEFINE t == task_size
<1>1. /\ t \in Nat /\ t > 0 /\ entrada \in Seq(Int) /\ Len(entrada) \in Nat
      /\ \A q \in Processo : Rodadas(q) \in Nat /\ Rodadas(q) >= t
    BY Tarefas
<1>2. Len(entrada) = np * t /\ np \in Nat
    <2>1. Len(entrada) = Rodadas(FIRST_STAGE) /\ Rodadas(LAST_STAGE) = t
        BY Tarefas
    <2>2. Rodadas(LAST_STAGE) = Len(entrada) - t * (np - 1)
        BY Numeros DEF Rodadas
    <2>. HIDE DEF t
    <2>3. np \in Nat /\ t * (np - 1) = np * t - t /\ np * t \in Int
        BY <1>1, Numeros
    <2>4. Rodadas(LAST_STAGE) = t
        BY <2>1 DEF t
    <2>5. Len(entrada) - t * (np - 1) = t
        BY <2>2, <2>4 DEF t
    <2>. QED
        BY <1>1, <2>3, <2>5
<1>3. ASSUME NEW q \in Processo PROVE t * q \in Nat /\ t * q + t <= Len(entrada)
    <2>1. q \in Nat
        BY Numeros DEF Processo
    <2>2. Rodadas(q) = Len(entrada) - t * q
        BY DEF Rodadas
    <2>3. t * q \in Nat
        BY <1>1, <2>1
    <2>. HIDE DEF t
    <2>. QED
        BY <1>1, <2>2, <2>3
<1>4. ASSUME NEW i \in 1 .. Len(entrada)
      PROVE  \E q \in Processo : \E k \in 1 .. t : i = t * q + k
    <2>. DEFINE q == (i - 1) \div t
                k == ((i - 1) % t) + 1
    <2>. HIDE DEF t
    <2>1. i - 1 \in Nat /\ i - 1 < Len(entrada)
        BY <1>1
    <2>2. q \in Int /\ k \in 1 .. t /\ i - 1 = t * q + (k - 1)
        BY <1>1, <2>1
    <2>. HIDE DEF q, k
    <2>3. t * q \in Int /\ i = t * q + k
        BY <1>1, <2>1, <2>2
    <2>4. ~ (q < 0)
        <3>. SUFFICES ASSUME q < 0 PROVE FALSE
            OBVIOUS
        <3>1. t * q + t <= t * 0
            BY <1>1, <2>2, Multiplos
        <3>. QED
            BY <1>1, <2>1, <2>2, <2>3, <3>1
    <2>5. ~ (np - 1 < q)
        <3>. SUFFICES ASSUME np - 1 < q PROVE FALSE
            OBVIOUS
        <3>1. t * (np - 1) + t <= t * q /\ t * (np - 1) \in Int
            BY <1>1, <1>2, <2>2, Multiplos
        <3>2. t * (np - 1) + t = np * t
            BY <1>1, <1>2
        <3>. QED
            BY <1>1, <1>2, <2>1, <2>2, <2>3, <3>1, <3>2
    <2>6. q \in Processo
        BY <1>2, <2>2, <2>4, <2>5 DEF Processo
    <2>. QED
        BY <2>2, <2>3, <2>6
<1>. QED
    BY <1>1, <1>3, <1>4

\* With everything in place, the shares one after the other are the sorted input.
LEMMA ListaInteira ==
    ASSUME Tipos, Contas, Particao, Conservado, pc[LAST_STAGE] # "ordenar"
    PROVE  /\ Programa!Ordenada(entrada) \in Seq(Int)
           /\ Len(Programa!Ordenada(entrada)) = Len(entrada)
           /\ \A q \in Processo, k \in 1 .. task_size :
                 Programa!Ordenada(entrada)[task_size * q + k] = vector_aux[q][k]
<1>. DEFINE n == Len(entrada)
            ts == task_size
            Onde(i) == CHOOSE l \in Processo \X (1 .. ts) : i = ts * l[1] + l[2]
            w == [i \in 1 .. n |-> vector_aux[Onde(i)[1]][Onde(i)[2]]]
<1>1. /\ ts \in Nat /\ ts > 0 /\ entrada \in Seq(Int) /\ n \in Nat
      /\ \A q \in Processo : ts * q \in Nat /\ ts * q + ts <= n
      /\ \A i \in 1 .. n : \E q \in Processo : \E k \in 1 .. ts : i = ts * q + k
    BY Etapas DEF Tipos
<1>2. \A q \in Processo : /\ Len(vector_aux[q]) = ts /\ q \in Int
                          /\ vector_aux[q] \in Seq(Int)
    BY Fim, Vizinhos DEF Tipos
<1>. HIDE DEF ts, n
<1>3. ASSUME NEW q \in Processo, NEW k \in 1 .. ts
      PROVE  ts * q + k \in 1 .. n /\ w[ts * q + k] = vector_aux[q][k]
    <2>. DEFINE i == ts * q + k
    <2>1. i \in 1 .. n
        <3>1. ts * q \in Nat /\ ts * q + ts <= n
            BY <1>1
        <3>2. ASSUME NEW a \in Nat, a + ts <= n PROVE a + k \in 1 .. n
            BY <1>1, <3>2
        <3>. QED
            BY <3>1, <3>2
    <2>2. \E l \in Processo \X (1 .. ts) : i = ts * l[1] + l[2]
        BY <<q, k>> \in Processo \X (1 .. ts)
    <2>3. Onde(i) \in Processo \X (1 .. ts) /\ i = ts * Onde(i)[1] + Onde(i)[2]
        BY <2>2
    <2>. HIDE DEF Onde
    <2>4. Onde(i)[1] \in Processo /\ Onde(i)[2] \in 1 .. ts
        BY <2>3
    <2>5. Onde(i)[1] \in Int /\ q \in Int
        BY <1>2, <2>4
    <2>6. Onde(i)[1] = q /\ Onde(i)[2] = k
        <3>1. ASSUME NEW p \in Int, NEW j \in 1 .. ts, ts * p + j = ts * q + k
              PROVE  p = q /\ j = k
            BY <1>1, <2>5, <3>1, UmaEtapa
        <3>. QED
            BY <2>3, <2>4, <2>5, <3>1
    <2>. QED
        BY <2>1, <2>6
<1>. HIDE DEF w
<1>4. w \in [1 .. n -> Int] /\ DOMAIN w = 1 .. n
    <2>1. \A i \in 1 .. n : w[i] \in Int
        <3>. SUFFICES ASSUME NEW i \in 1 .. n PROVE w[i] \in Int
            OBVIOUS
        <3>1. PICK q \in Processo : \E k \in 1 .. ts : i = ts * q + k
            BY <1>1
        <3>2. PICK k \in 1 .. ts : i = ts * q + k
            BY <3>1
        <3>3. w[i] = vector_aux[q][k]
            BY <1>3, <3>2
        <3>4. vector_aux[q] \in Seq(Int) /\ k \in 1 .. Len(vector_aux[q])
            BY <1>2
        <3>. QED
            BY <3>3, <3>4
    <2>. QED
        BY <2>1 DEF w
<1>5. w \in Seq(Int) /\ Len(w) = n
    BY <1>1, <1>4
<1>6. Ordenado(w)
    <2>. SUFFICES ASSUME NEW i \in 1 .. n, i > 1 PROVE w[i - 1] <= w[i]
        BY <1>4 DEF Ordenado
    <2>1. PICK q \in Processo : \E k \in 1 .. ts : i = ts * q + k
        BY <1>1
    <2>2. PICK k \in 1 .. ts : i = ts * q + k
        BY <2>1
    <2>3. w[i] = vector_aux[q][k] /\ k \in DOMAIN vector_aux[q]
        <3>1. vector_aux[q] \in Seq(Int) /\ k \in 1 .. Len(vector_aux[q])
            BY <1>2
        <3>. QED
            BY <1>3, <2>2, <3>1
    <2>4. CASE k > 1
        <3>1. k - 1 \in 1 .. ts /\ i - 1 = ts * q + (k - 1)
            BY <1>1, <2>2, <2>4
        <3>2. w[i - 1] = vector_aux[q][k - 1]
            BY <1>3, <3>1
        <3>3. vector_aux[q][k - 1] <= vector_aux[q][k]
            BY <2>3, <2>4 DEF Particao
        <3>. QED
            BY <2>3, <3>2, <3>3
    <2>5. CASE k = 1
        <3>1. q # 0
            BY <1>1, <2>2, <2>5
        <3>2. q - 1 \in Processo /\ q \in q - 1 + 1 .. LAST_STAGE /\ (q - 1) + 1 = q
            BY <1>2, <3>1, Numeros, Vizinhos
        <3>3. ts * (q - 1) + ts = ts * q /\ ts \in 1 .. ts
            BY <1>1, <1>2
        <3>4. i - 1 = ts * (q - 1) + ts
            BY <1>1, <2>2, <2>5, <3>3
        <3>5. w[i - 1] = vector_aux[q - 1][ts]
            BY <1>3, <3>2, <3>3, <3>4
        <3>6. vector_aux[q][k] \in Adiante(q - 1)
            BY <2>3, <3>2 DEF Adiante, ToSet
        <3>7. ts \in DOMAIN vector_aux[q - 1]
            <4>1. vector_aux[q - 1] \in Seq(Int) /\ ts \in 1 .. Len(vector_aux[q - 1])
                BY <1>2, <3>2, <3>3
            <4>. QED
                BY <4>1
        <3>8. vector_aux[q - 1][ts] <= vector_aux[q][k]
            BY <3>2, <3>6, <3>7 DEF Particao
        <3>. QED
            BY <2>3, <3>5, <3>8
    <2>. QED
        BY <1>1, <2>4, <2>5
<1>7. PICK o : Origens(o)
    BY DEF Conservado
<1>. DEFINE t == [i \in 1 .. n |-> o[NoVetor(Onde(i)[1], Onde(i)[2])]]
<1>8. ASSUME NEW i \in 1 .. n
      PROVE  \E q \in Processo : \E k \in 1 .. ts :
                /\ i = ts * q + k /\ t[i] = o[NoVetor(q, k)] /\ w[i] = vector_aux[q][k]
                /\ NoVetor(q, k) \in Lugares
    <2>1. \E l \in Processo \X (1 .. ts) : i = ts * l[1] + l[2]
        <3>1. PICK q \in Processo : \E k \in 1 .. ts : i = ts * q + k
            BY <1>1
        <3>2. PICK k \in 1 .. ts : i = ts * q + k
            BY <3>1
        <3>. QED
            BY <3>2, <<q, k>> \in Processo \X (1 .. ts)
    <2>2. Onde(i) \in Processo \X (1 .. ts) /\ i = ts * Onde(i)[1] + Onde(i)[2]
        BY <2>1
    <2>3. Onde(i)[1] \in Processo /\ Onde(i)[2] \in 1 .. ts
        <3>. HIDE DEF Onde
        <3>. QED
            BY <2>2
    <2>4. w[i] = vector_aux[Onde(i)[1]][Onde(i)[2]]
        BY DEF w
    <2>5. t[i] = o[NoVetor(Onde(i)[1], Onde(i)[2])]
        OBVIOUS
    <2>. HIDE DEF Onde, t
    <2>6. Len(vector_aux[Onde(i)[1]]) = ts
        BY <1>2, <2>3
    <2>7. NoVetor(Onde(i)[1], Onde(i)[2]) \in Lugares
        BY <2>3, <2>6, LugarDe
    <2>. QED
        BY <2>2, <2>3, <2>4, <2>5, <2>7
<1>. HIDE DEF t
<1>9. \A i \in 1 .. n : t[i] \in 1 .. n /\ w[i] = entrada[t[i]]
    <2>. SUFFICES ASSUME NEW i \in 1 .. n PROVE t[i] \in 1 .. n /\ w[i] = entrada[t[i]]
        OBVIOUS
    <2>1. PICK q \in Processo, k \in 1 .. ts :
              /\ t[i] = o[NoVetor(q, k)] /\ w[i] = vector_aux[q][k]
              /\ NoVetor(q, k) \in Lugares
        BY <1>8
    <2>2. o[NoVetor(q, k)] \in 1 .. n /\ Valor(NoVetor(q, k)) = entrada[o[NoVetor(q, k)]]
        BY <1>7, <2>1 DEF Origens, n
    <2>. QED
        BY <2>1, <2>2, Valores3
<1>10. \A i, j \in 1 .. n : t[i] = t[j] => i = j
    <2>. SUFFICES ASSUME NEW i \in 1 .. n, NEW j \in 1 .. n, t[i] = t[j] PROVE i = j
        OBVIOUS
    <2>1. PICK p \in Processo, k \in 1 .. ts :
              i = ts * p + k /\ t[i] = o[NoVetor(p, k)] /\ NoVetor(p, k) \in Lugares
        BY <1>8
    <2>2. PICK q \in Processo, m \in 1 .. ts :
              j = ts * q + m /\ t[j] = o[NoVetor(q, m)] /\ NoVetor(q, m) \in Lugares
        BY <1>8
    <2>3. NoVetor(p, k) = NoVetor(q, m)
        BY <1>7, <2>1, <2>2 DEF Origens
    <2>4. p = q /\ k = m
        BY <2>3, Nomes
    <2>. QED
        BY <2>1, <2>2, <2>4
<1>11. t \in [1 .. n -> 1 .. n]
    BY <1>9 DEF t
<1>12. Programa!Ordenada(entrada) = w
    <2>. DEFINE D == 1 .. Len(entrada)
    <2>1. Len(w) = Len(entrada) /\ t \in [D -> D]
        BY <1>5, <1>11 DEF n
    <2>2. \A i, j \in D : t[i] = t[j] => i = j
        BY <1>10 DEF n
    <2>3. \A i \in D : w[i] = entrada[t[i]]
        BY <1>9 DEF n
    <2>4. entrada \in Seq(Int) /\ w \in Seq(Int) /\ Ordenado(w)
        BY <1>1, <1>5, <1>6
    <2>5. Reordena(entrada, w, t)
        BY <2>1, <2>2, <2>3, <2>4 DEF Reordena
    <2>. QED
        BY <2>4, <2>5, OrdenadaUnica, OrdenadaDef
<1>. QED
    BY <1>3, <1>5, <1>12 DEF ts, n
-----------------------------------------------------------------------------
(***************************************************************************)
(* The token.                                                              *)
(***************************************************************************)
\* The token has been through stage p.
Saiu(p) == pc[p] \in {"tempo", "fim"}

\* The token is behind the last stage it has been through, ahead of all else, and
\* only the token goes from the last stage to the first.
Ficha ==
    /\ \A p \in Processo : p < LAST_STAGE =>
          /\ Saiu(p) /\ ~ Saiu(p + 1) =>
                canal[p][p + 1] # <<>> /\ Head(canal[p][p + 1]) = FIM
          /\ Saiu(p + 1) => Saiu(p)
    /\ \A k \in DOMAIN canal[LAST_STAGE][FIRST_STAGE] :
          canal[LAST_STAGE][FIRST_STAGE][k] = FIM

\* What has been printed: the shares of the stages the token has been through, each
\* at its place.
Impresso ==
    /\ Len(saida) <= Len(entrada)
    /\ \A p \in Processo :
          /\ Saiu(p) => \A k \in 1 .. task_size :
                /\ task_size * p + k <= Len(saida)
                /\ saida[task_size * p + k] = vector_aux[p][k]
          /\ ~ Saiu(p) => Len(saida) <= task_size * p

\* A step that prints nothing.
Calou ==
    /\ UNCHANGED <<entrada, saida>>
    /\ \A p \in Processo :
          /\ Saiu(p)' <=> Saiu(p)
          /\ Saiu(p) => vector_aux'[p] = vector_aux[p]
          /\ p < LAST_STAGE /\ Saiu(p) /\ ~ Saiu(p + 1) =>
                \/ canal'[p][p + 1] = canal[p][p + 1]
                \/ canal'[p][p + 1] = Append(canal[p][p + 1], TEMPO)
    /\ \/ canal'[LAST_STAGE][FIRST_STAGE] = canal[LAST_STAGE][FIRST_STAGE]
       \/ canal'[LAST_STAGE][FIRST_STAGE] = Append(canal[LAST_STAGE][FIRST_STAGE], FIM)

\* The token goes through stage p.
Imprimiu(p) ==
    /\ pc[LAST_STAGE] # "ordenar" /\ ~ Saiu(p) /\ (p # FIRST_STAGE => Saiu(p - 1))
    /\ saida' = saida \o vector_aux[p]
    /\ UNCHANGED <<entrada, vector_aux>>
    /\ \A q \in Processo :
          /\ Saiu(q)' <=> Saiu(q) \/ q = p
          /\ q < LAST_STAGE =>
                canal'[q][q + 1] = IF q = p THEN <<FIM>>
                                   ELSE IF q + 1 = p THEN Tail(canal[q][q + 1])
                                   ELSE canal[q][q + 1]
    /\ \/ canal'[LAST_STAGE][FIRST_STAGE] = canal[LAST_STAGE][FIRST_STAGE]
       \/ /\ canal[LAST_STAGE][FIRST_STAGE] # <<>>
          /\ canal'[LAST_STAGE][FIRST_STAGE] = Tail(canal[LAST_STAGE][FIRST_STAGE])

LEMMA RodouCala ==
    ASSUME Tipos, Contas, NEW p \in Processo, NEW value, NEW r, Rodou(p, value, r)
    PROVE  Calou
<1>1. /\ pc[LAST_STAGE] = "ordenar" /\ \A q \in Processo : q < LAST_STAGE => Ordenando(q)
    BY Antes DEF Rodou
<1>2. ASSUME NEW q \in Processo PROVE pc[q] \in {"ordenar", "esperar"}
    <2>1. q = LAST_STAGE \/ q < LAST_STAGE
        BY Vizinhos
    <2>. QED
        BY <1>1, <2>1 DEF Ordenando
<1>3. \A q \in Processo : pc'[q] \in {"ordenar", "avisar", "esperar"}
    BY <1>2 DEF Rodou, Tipos
<1>4. \A q \in Processo : ~ Saiu(q) /\ ~ Saiu(q)'
    BY <1>2, <1>3 DEF Saiu
<1>5. canal'[LAST_STAGE][FIRST_STAGE] = canal[LAST_STAGE][FIRST_STAGE]
    <2>1. FIRST_STAGE \in Int /\ LAST_STAGE \in Int /\ p \in Int /\ p <= LAST_STAGE
          /\ p >= FIRST_STAGE /\ FIRST_STAGE # LAST_STAGE
        BY Numeros, Vizinhos
    <2>2. FIRST_STAGE # p + 1 /\ ~ (LAST_STAGE = p - 1)
        BY <2>1
    <2>. QED
        BY <2>2, Numeros DEF Rodou
<1>. QED
    BY <1>4, <1>5 DEF Calou, Rodou

LEMMA AvisarCala ==
    ASSUME Tipos, Contas, Avisar
    PROVE  Calou
<1>1. /\ pc[LAST_STAGE] = "avisar" /\ canal' = MPI_Send(canal, LAST_STAGE, FIRST_STAGE, FIM)
      /\ pc' = [pc EXCEPT ![LAST_STAGE] = "esperar"]
      /\ UNCHANGED <<entrada, vector_aux, saida>>
    BY DEF Avisar, Em
<1>2. \A p \in Processo : Saiu(p)' <=> Saiu(p)
    BY <1>1 DEF Saiu, Tipos
<1>3. Muda(canal, canal', LAST_STAGE, FIRST_STAGE, Append(canal[LAST_STAGE][FIRST_STAGE], FIM))
    <2>1. canal \in Canais /\ FIM \in Int
        BY DEF Tipos, Canais, FIM
    <2>. QED
        BY <1>1, <2>1, Numeros, Envio
<1>4. ASSUME NEW p \in Processo, p < LAST_STAGE PROVE canal'[p][p + 1] = canal[p][p + 1]
    <2>1. p + 1 \in Processo /\ p # LAST_STAGE
        BY <1>4, Numeros, Vizinhos
    <2>. QED
        BY <1>3, <2>1 DEF Muda
<1>5. canal'[LAST_STAGE][FIRST_STAGE] = Append(canal[LAST_STAGE][FIRST_STAGE], FIM)
    BY <1>3, Numeros DEF Muda
<1>. QED
    BY <1>1, <1>2, <1>4, <1>5 DEF Calou

LEMMA TempoCala ==
    ASSUME Tipos, EnviarTempo \/ ReceberTempo
    PROVE  Calou
<1>. DEFINE a == FIRST_STAGE
            z == LAST_STAGE
            fila == canal[a][z]
<1>1. a \in Processo /\ z \in Processo /\ a # z /\ canal \in Canais /\ TEMPO \in Int
    BY Numeros DEF Tipos, Canais, TEMPO
<1>2. UNCHANGED <<entrada, vector_aux, saida>>
    BY DEF EnviarTempo, ReceberTempo
<1>3. \A p \in Processo : Saiu(p)' <=> Saiu(p)
    BY DEF EnviarTempo, ReceberTempo, Em, Saiu, Tipos
<1>4. CASE EnviarTempo
    <2>1. canal' = MPI_Send(canal, a, z, TEMPO)
        BY <1>4 DEF EnviarTempo
    <2>2. Muda(canal, canal', a, z, Append(fila, TEMPO))
        BY <1>1, <2>1, Envio
    <2>3. ASSUME NEW p \in Processo, p < z
          PROVE  \/ canal'[p][p + 1] = canal[p][p + 1]
                 \/ canal'[p][p + 1] = Append(canal[p][p + 1], TEMPO)
        <3>1. p + 1 \in Processo
            BY <2>3, Vizinhos
        <3>. QED
            BY <2>2, <3>1 DEF Muda
    <2>4. canal'[z][a] = canal[z][a]
        BY <1>1, <2>2 DEF Muda
    <2>. QED
        BY <1>2, <1>3, <2>3, <2>4 DEF Calou
<1>5. CASE ReceberTempo
    <2>1. canal' = MPI_Recv(canal, a, z) /\ fila # <<>> /\ pc[z] = "tempo"
        BY <1>5 DEF ReceberTempo, Em, Chegou
    <2>2. Muda(canal, canal', a, z, Tail(fila))
        BY <1>1, <2>1, Recepcao
    <2>3. ASSUME NEW p \in Processo, p < z, ~ Saiu(p + 1)
          PROVE  canal'[p][p + 1] = canal[p][p + 1]
        <3>1. p + 1 \in Processo /\ p + 1 # z
            BY <2>1, <2>3, Vizinhos DEF Saiu
        <3>. QED
            BY <2>2, <3>1 DEF Muda
    <2>4. canal'[z][a] = canal[z][a]
        BY <1>1, <2>2 DEF Muda
    <2>. QED
        BY <1>2, <1>3, <2>3, <2>4 DEF Calou
<1>. QED
    BY <1>4, <1>5

\* What reaches a stage that waits for the token is the token.
LEMMA ImprimirImprime ==
    ASSUME Tipos, Contas, Ficha, NEW p \in Processo, Imprimir(p)
    PROVE  Imprimiu(p)
<1>. DEFINE o == Origem(p)
            c == MPI_Recv(canal, o, p)
            sinal == Head(canal[o][p])
<1>1. /\ pc[p] = "esperar" /\ canal[o][p] # <<>>
      /\ saida' = IF sinal = FIM THEN saida \o vector_aux[p] ELSE saida
      /\ canal' = IF sinal = FIM /\ p # LAST_STAGE THEN MPI_Send(c, p, p + 1, FIM) ELSE c
      /\ pc' = [pc EXCEPT ![p] = IF p \in {FIRST_STAGE, LAST_STAGE} THEN "tempo" ELSE "fim"]
      /\ UNCHANGED <<folga, entrada, rodada, vector_aux>>
    BY DEF Imprimir, Em, Chegou
<1>2. /\ o \in Processo /\ o # p
      /\ p = FIRST_STAGE => o = LAST_STAGE
      /\ p # FIRST_STAGE => o = p - 1 /\ o < LAST_STAGE /\ o + 1 = p
    BY Numeros, Vizinhos DEF Origem
<1>. HIDE DEF o
<1>3. p # FIRST_STAGE => Saiu(o)
    <2>. SUFFICES ASSUME p # FIRST_STAGE PROVE Saiu(o)
        OBVIOUS
    <2>1. ~ Ordenando(o)
        BY <1>1, <1>2, Vazio
    <2>2. pc[o] # "avisar"
        BY <1>2, Numeros, Vizinhos DEF Contas, Fases
    <2>. QED
        BY <1>2, <2>1, <2>2 DEF Ordenando, Saiu, Tipos
<1>4. ~ Saiu(p)
    BY <1>1 DEF Saiu
<1>5. pc[LAST_STAGE] # "ordenar"
    <2>1. CASE p = FIRST_STAGE
        BY <1>1, <1>2, <2>1 DEF Contas, Fases
    <2>2. CASE p # FIRST_STAGE
        BY <1>2, <1>3, <2>2 DEF Contas, Fases, Ordenando, Saiu
    <2>. QED
        BY <2>1, <2>2
<1>6. canal[o][p] \in Seq(Int) /\ canal \in Canais
    BY <1>2 DEF Tipos, Canais
<1>7. sinal = FIM
    <2>1. CASE p = FIRST_STAGE
        <3>1. sinal = canal[o][p][1] /\ 1 \in DOMAIN canal[o][p]
            BY <1>1, <1>6, Resto
        <3>. QED
            BY <1>2, <2>1, <3>1 DEF Ficha
    <2>2. CASE p # FIRST_STAGE
        BY <1>2, <1>3, <1>4, <2>2 DEF Ficha
    <2>. QED
        BY <2>1, <2>2
<1>8. Muda(canal, c, o, p, Tail(canal[o][p]))
    BY <1>1, <1>2, <1>6, Recepcao
<1>. HIDE DEF c, sinal
<1>9. p < LAST_STAGE => c[p][p + 1] = <<>> /\ p + 1 \in Processo
    <2>. SUFFICES ASSUME p < LAST_STAGE PROVE c[p][p + 1] = <<>> /\ p + 1 \in Processo
        OBVIOUS
    <2>1. canal[p][p + 1] = <<>> /\ p + 1 \in Processo
        BY <1>1, <1>5, Fim, Vizinhos DEF Ordenando
    <2>. QED
        BY <1>2, <1>8, <2>1 DEF Muda
<1>10. \A x, y \in Processo :
          canal'[x][y] = IF p < LAST_STAGE /\ x = p /\ y = p + 1 THEN <<FIM>> ELSE c[x][y]
    <2>1. CASE p < LAST_STAGE
        <3>1. c \in Canais /\ p + 1 \in Processo /\ FIM \in Int /\ c[p][p + 1] = <<>>
            BY <1>8, <1>9, <2>1 DEF Muda, FIM
        <3>2. canal' = MPI_Send(c, p, p + 1, FIM)
            BY <1>1, <1>7, <2>1, Numeros
        <3>3. Muda(c, canal', p, p + 1, Append(c[p][p + 1], FIM))
            BY <3>1, <3>2, Envio
        <3>4. Append(c[p][p + 1], FIM) = <<FIM>>
            BY <3>1
        <3>. QED
            BY <2>1, <3>3, <3>4 DEF Muda
    <2>2. CASE ~ (p < LAST_STAGE)
        <3>1. p = LAST_STAGE
            BY <2>2, Vizinhos
        <3>. QED
            BY <1>1, <2>2, <3>1
    <2>. QED
        BY <2>1, <2>2
<1>11. ASSUME NEW q \in Processo, q < LAST_STAGE
       PROVE  canal'[q][q + 1] = IF q = p THEN <<FIM>>
                                 ELSE IF q + 1 = p THEN Tail(canal[q][q + 1])
                                 ELSE canal[q][q + 1]
    <2>1. q + 1 \in Processo /\ q \in Int /\ p \in Int /\ q + 1 # q
        BY <1>11, Vizinhos
    <2>2. CASE q = p
        BY <1>10, <1>11, <2>1, <2>2
    <2>3. CASE q # p /\ q + 1 = p
        <3>1. o = q
            BY <1>2, <2>1, <2>3, Numeros, Vizinhos
        <3>. QED
            BY <1>8, <1>10, <2>1, <2>3, <3>1 DEF Muda
    <2>4. CASE q # p /\ q + 1 # p
        BY <1>8, <1>10, <2>1, <2>4 DEF Muda
    <2>. QED
        BY <2>2, <2>3, <2>4
<1>12. \/ canal'[LAST_STAGE][FIRST_STAGE] = canal[LAST_STAGE][FIRST_STAGE]
       \/ /\ canal[LAST_STAGE][FIRST_STAGE] # <<>>
          /\ canal'[LAST_STAGE][FIRST_STAGE] = Tail(canal[LAST_STAGE][FIRST_STAGE])
    <2>1. canal'[LAST_STAGE][FIRST_STAGE] = c[LAST_STAGE][FIRST_STAGE]
        <3>1. ~ (p < LAST_STAGE /\ LAST_STAGE = p)
            BY Numeros, Vizinhos
        <3>. QED
            BY <1>10, <3>1, Numeros
    <2>. QED
        BY <1>1, <1>8, <2>1, Numeros DEF Muda
<1>13. \A q \in Processo : Saiu(q)' <=> Saiu(q) \/ q = p
    BY <1>1 DEF Saiu, Tipos
<1>. QED
    BY <1>1, <1>2, <1>3, <1>4, <1>5, <1>7, <1>11, <1>12, <1>13 DEF Imprimiu
LEMMA Sinal ==
    ASSUME NEW s \in Seq(Int), s # <<>>
    PROVE  /\ Append(s, TEMPO) # <<>> /\ Head(Append(s, TEMPO)) = Head(s)
<1>1. TEMPO \in Int
    BY DEF TEMPO
<1>. QED
    BY <1>1

LEMMA CalouFicha ==
    ASSUME Tipos, Ficha, Calou
    PROVE  Ficha'
<1>1. LAST_STAGE' = LAST_STAGE /\ FIRST_STAGE' = FIRST_STAGE /\ FIM' = FIM
    BY DEF LAST_STAGE, FIRST_STAGE, FIM
<1>2. ASSUME NEW p \in Processo, p < LAST_STAGE
      PROVE  /\ Saiu(p)' /\ ~ Saiu(p + 1)' =>
                   canal'[p][p + 1] # <<>> /\ Head(canal'[p][p + 1]) = FIM
             /\ Saiu(p + 1)' => Saiu(p)'
    <2>1. p + 1 \in Processo /\ canal[p][p + 1] \in Seq(Int)
        BY <1>2, Vizinhos DEF Tipos
    <2>2. /\ Saiu(p)' <=> Saiu(p)
          /\ Saiu(p + 1)' <=> Saiu(p + 1)
        BY <2>1 DEF Calou
    <2>3. Saiu(p + 1) => Saiu(p)
        BY <1>2 DEF Ficha
    <2>4. ASSUME Saiu(p), ~ Saiu(p + 1)
          PROVE  canal'[p][p + 1] # <<>> /\ Head(canal'[p][p + 1]) = FIM
        <3>1. canal[p][p + 1] # <<>> /\ Head(canal[p][p + 1]) = FIM
            BY <1>2, <2>4 DEF Ficha
        <3>2. \/ canal'[p][p + 1] = canal[p][p + 1]
              \/ canal'[p][p + 1] = Append(canal[p][p + 1], TEMPO)
            BY <1>2, <2>4 DEF Calou
        <3>. QED
            BY <2>1, <3>1, <3>2, Sinal
    <2>. QED
        BY <2>2, <2>3, <2>4
<1>3. ASSUME NEW k \in DOMAIN canal'[LAST_STAGE][FIRST_STAGE]
      PROVE  canal'[LAST_STAGE][FIRST_STAGE][k] = FIM
    <2>. DEFINE fila == canal[LAST_STAGE][FIRST_STAGE]
    <2>1. fila \in Seq(Int) /\ FIM \in Int /\ \A i \in DOMAIN fila : fila[i] = FIM
        BY Numeros DEF Tipos, FIM, Ficha
    <2>2. CASE canal'[LAST_STAGE][FIRST_STAGE] = fila
        BY <1>3, <2>1, <2>2
    <2>3. CASE canal'[LAST_STAGE][FIRST_STAGE] = Append(fila, FIM)
        <3>. HIDE DEF fila
        <3>. QED
            BY <1>3, <2>1, <2>3, Mais
    <2>. QED
        BY <2>2, <2>3 DEF Calou
<1>. QED
    BY <1>1, <1>2, <1>3 DEF Ficha

LEMMA ImprimiuFicha ==
    ASSUME Tipos, Ficha, NEW p \in Processo, Imprimiu(p)
    PROVE  Ficha'
<1>1. LAST_STAGE' = LAST_STAGE /\ FIRST_STAGE' = FIRST_STAGE /\ FIM' = FIM
    BY DEF LAST_STAGE, FIRST_STAGE, FIM
<1>2. ASSUME NEW q \in Processo, q < LAST_STAGE
      PROVE  /\ Saiu(q)' /\ ~ Saiu(q + 1)' =>
                   canal'[q][q + 1] # <<>> /\ Head(canal'[q][q + 1]) = FIM
             /\ Saiu(q + 1)' => Saiu(q)'
    <2>1. q + 1 \in Processo /\ q \in Int /\ p \in Int /\ q >= FIRST_STAGE /\ FIRST_STAGE \in Int
        BY <1>2, Numeros, Vizinhos
    <2>2. /\ Saiu(q)' <=> Saiu(q) \/ q = p
          /\ Saiu(q + 1)' <=> Saiu(q + 1) \/ q + 1 = p
          /\ canal'[q][q + 1] = IF q = p THEN <<FIM>>
                                ELSE IF q + 1 = p THEN Tail(canal[q][q + 1])
                                ELSE canal[q][q + 1]
        BY <1>2, <2>1 DEF Imprimiu
    <2>3. q + 1 = p => Saiu(q)
        <3>1. q + 1 = p => p # FIRST_STAGE /\ p - 1 = q
            BY <2>1
        <3>. QED
            BY <3>1 DEF Imprimiu
    <2>4. /\ Saiu(q) /\ ~ Saiu(q + 1) =>
                canal[q][q + 1] # <<>> /\ Head(canal[q][q + 1]) = FIM
          /\ Saiu(q + 1) => Saiu(q)
        BY <1>2 DEF Ficha
    <2>5. <<FIM>> # <<>> /\ Head(<<FIM>>) = FIM
        OBVIOUS
    <2>. QED
        BY <2>2, <2>3, <2>4, <2>5
<1>3. ASSUME NEW k \in DOMAIN canal'[LAST_STAGE][FIRST_STAGE]
      PROVE  canal'[LAST_STAGE][FIRST_STAGE][k] = FIM
    <2>. DEFINE fila == canal[LAST_STAGE][FIRST_STAGE]
    <2>1. fila \in Seq(Int) /\ \A i \in DOMAIN fila : fila[i] = FIM
        BY Numeros DEF Tipos, Ficha
    <2>2. CASE canal'[LAST_STAGE][FIRST_STAGE] = fila
        BY <1>3, <2>1, <2>2
    <2>3. CASE fila # <<>> /\ canal'[LAST_STAGE][FIRST_STAGE] = Tail(fila)
        <3>. HIDE DEF fila
        <3>. QED
            BY <1>3, <2>1, <2>3, Resto
    <2>. QED
        BY <2>2, <2>3 DEF Imprimiu
<1>. QED
    BY <1>1, <1>2, <1>3 DEF Ficha

LEMMA CalouImpresso ==
    ASSUME Impresso, Calou
    PROVE  Impresso'
<1>1. task_size' = task_size /\ saida' = saida /\ entrada' = entrada
    BY DEF Calou, task_size
<1>2. \A p \in Processo : /\ Saiu(p)' <=> Saiu(p)
                          /\ Saiu(p) => vector_aux'[p] = vector_aux[p]
    BY DEF Calou
<1>. QED
    BY <1>1, <1>2 DEF Impresso

\* The share of stage p goes right behind those of the stages before it.
LEMMA ImprimiuNoLugar ==
    ASSUME Tipos, Contas, Impresso, NEW p \in Processo, Imprimiu(p)
    PROVE  /\ Len(saida) = task_size * p /\ Len(saida') = task_size * p + task_size
           /\ \A i \in 1 .. Len(saida) : saida'[i] = saida[i]
           /\ \A k \in 1 .. task_size : saida'[task_size * p + k] = vector_aux[p][k]
<1>. DEFINE ts == task_size
            v == vector_aux[p]
<1>1. /\ ts \in Nat /\ ts > 0 /\ ts * p \in Nat /\ v \in Seq(Int) /\ Len(v) = ts
      /\ saida \in Seq(Int) /\ Len(saida) \in Nat
    <2>1. ts \in Nat /\ ts > 0 /\ ts * p \in Nat
        BY Etapas DEF Tipos
    <2>2. Len(v) = ts
        BY Fim DEF Imprimiu
    <2>. QED
        BY <2>1, <2>2 DEF Tipos
<1>2. Len(saida) <= ts * p
    BY DEF Imprimiu, Impresso
<1>3. Len(saida) >= ts * p
    <2>1. CASE p = FIRST_STAGE
        <3>1. ts * p = 0
            BY <1>1, <2>1, Numeros
        <3>. QED
            BY <1>1, <3>1
    <2>2. CASE p # FIRST_STAGE
        <3>1. p - 1 \in Processo /\ Saiu(p - 1) /\ p - 1 \in Int /\ p \in Int
            BY <2>2, Vizinhos DEF Imprimiu
        <3>2. ts \in 1 .. ts
            BY <1>1
        <3>3. ts * (p - 1) + ts <= Len(saida)
            BY <3>1, <3>2 DEF Impresso
        <3>4. ts * (p - 1) + ts = ts * p
            BY <1>1, <3>1
        <3>. QED
            BY <3>3, <3>4
    <2>. QED
        BY <2>1, <2>2
<1>. HIDE DEF ts, v
<1>4. Len(saida) = ts * p
    BY <1>1, <1>2, <1>3
<1>5. saida' = saida \o v
    BY DEF Imprimiu, v
<1>6. /\ Len(saida') = Len(saida) + ts
      /\ \A i \in 1 .. Len(saida) : saida'[i] = saida[i]
      /\ \A k \in 1 .. ts : saida'[Len(saida) + k] = v[k]
    <2>1. ASSUME NEW k \in 1 .. ts PROVE saida'[Len(saida) + k] = v[k]
        <3>1. Len(saida) + k \in 1 .. Len(saida) + Len(v) /\ Len(saida) + k > Len(saida)
              /\ (Len(saida) + k) - Len(saida) = k
            BY <1>1
        <3>. QED
            BY <1>1, <1>5, <3>1
    <2>2. ASSUME NEW i \in 1 .. Len(saida) PROVE saida'[i] = saida[i]
        BY <1>1, <1>5
    <2>3. Len(saida') = Len(saida) + ts
        <3>1. saida \in Seq(Int) /\ v \in Seq(Int) /\ Len(v) = ts
            BY <1>1
        <3>2. Len(saida \o v) = Len(saida) + Len(v)
            BY <3>1
        <3>. QED
            BY <1>5, <3>1, <3>2
    <2>. QED
        BY <2>1, <2>2, <2>3
<1>. QED
    BY <1>4, <1>6 DEF ts, v

LEMMA ImprimiuImpresso ==
    ASSUME Tipos, Contas, Impresso, NEW p \in Processo, Imprimiu(p)
    PROVE  Impresso'
<1>. DEFINE ts == task_size
<1>1. ts' = ts /\ entrada' = entrada /\ vector_aux' = vector_aux
    BY DEF Imprimiu, task_size
<1>2. /\ ts \in Nat /\ ts > 0 /\ Len(entrada) \in Nat
      /\ \A q \in Processo : ts * q \in Nat /\ ts * q + ts <= Len(entrada)
    BY Etapas DEF Tipos
<1>3. /\ Len(saida) = ts * p /\ Len(saida') = ts * p + ts
      /\ \A i \in 1 .. Len(saida) : saida'[i] = saida[i]
      /\ \A k \in 1 .. ts : saida'[ts * p + k] = vector_aux[p][k]
    BY ImprimiuNoLugar
<1>. HIDE DEF ts
<1>4. ASSUME NEW q \in Processo, Saiu(q)', NEW k \in 1 .. ts
      PROVE  ts * q + k <= Len(saida') /\ saida'[ts * q + k] = vector_aux[q][k]
    <2>1. CASE q = p
        <3>1. ts * p \in Nat
            BY <1>2
        <3>. QED
            BY <1>2, <1>3, <2>1, <3>1
    <2>2. CASE q # p
        <3>1. Saiu(q)
            BY <1>4, <2>2 DEF Imprimiu
        <3>2. ts * q + k <= Len(saida) /\ saida[ts * q + k] = vector_aux[q][k]
            BY <3>1 DEF Impresso, ts
        <3>3. ts * q \in Nat /\ ts * p \in Nat
            BY <1>2
        <3>4. ts * q + k \in 1 .. Len(saida)
            BY <1>2, <1>3, <3>2, <3>3
        <3>5. saida'[ts * q + k] = saida[ts * q + k]
            BY <1>3, <3>4
        <3>. QED
            BY <1>2, <1>3, <3>2, <3>3, <3>5
    <2>. QED
        BY <2>1, <2>2
<1>5. ASSUME NEW q \in Processo, ~ Saiu(q)' PROVE Len(saida') <= ts * q
    <2>1. ~ Saiu(q) /\ q # p
        BY <1>5 DEF Imprimiu
    <2>2. ts * p <= ts * q /\ p \in Int /\ q \in Int
        BY <1>3, <2>1, Vizinhos DEF Impresso, ts
    <2>3. ~ (q < p)
        <3>. SUFFICES ASSUME q < p PROVE FALSE
            OBVIOUS
        <3>1. ts * q + ts <= ts * p /\ ts * q \in Int /\ ts * p \in Int
            BY <1>2, <2>2, Multiplos
        <3>. QED
            BY <1>2, <2>2, <3>1
    <2>4. p < q
        BY <2>1, <2>2, <2>3
    <2>. QED
        BY <1>2, <1>3, <2>2, <2>4, Multiplos
<1>6. Len(saida') <= Len(entrada)
    BY <1>2, <1>3
<1>7. task_size' = task_size
    BY <1>1 DEF ts
<1>. QED
    BY <1>1, <1>4, <1>5, <1>6, <1>7 DEF Impresso, ts

-----------------------------------------------------------------------------
(***************************************************************************)
(* The refinement.                                                         *)
(***************************************************************************)
Tudo == IInv /\ Conservado /\ Ficha /\ Impresso

LEMMA InitTudo == Init => Tudo
<1>. SUFFICES ASSUME Init PROVE Tudo
    OBVIOUS
<1>1. IInv /\ Conservado
    BY InitIInv, InitConservado
<1>2. /\ \A p \in Processo : pc[p] = "ordenar"
      /\ canal[LAST_STAGE][FIRST_STAGE] = <<>> /\ saida = <<>>
    BY Numeros DEF Init, InitMPI
<1>3. Ficha
    <2>1. \A p \in Processo : ~ Saiu(p) /\ (p < LAST_STAGE => ~ Saiu(p + 1))
        BY <1>2, Vizinhos DEF Saiu
    <2>. QED
        BY <1>2, <2>1 DEF Ficha
<1>4. Impresso
    <2>1. \A p \in Processo : ~ Saiu(p)
        BY <1>2 DEF Saiu
    <2>2. Len(saida) = 0 /\ Len(entrada) \in Nat /\ \A p \in Processo : task_size * p \in Nat
        BY <1>1, <1>2, Etapas DEF IInv, Tipos
    <2>. QED
        BY <2>1, <2>2 DEF Impresso
<1>. QED
    BY <1>1, <1>3, <1>4 DEF Tudo

\* A step prints nothing, or the share of one stage.
LEMMA PassosFicha ==
    ASSUME Tudo, Next
    PROVE  Calou \/ \E p \in Processo : Imprimiu(p)
<1>. USE DEF Tudo, IInv
<1>1. PICK p \in Processo : Estagio(p)
    BY DEF Next
<1>2. CASE (p = FIRST_STAGE /\ OrdenarPrimeiro) \/ Ordenar(p)
    <2>1. \E value, r : Rodou(p, value, r)
        BY <1>2, RodadaEfeito
    <2>. QED
        BY <2>1, RodouCala
<1>3. CASE Avisar
    BY <1>3, AvisarCala
<1>4. CASE Imprimir(p)
    BY <1>4, ImprimirImprime
<1>5. CASE EnviarTempo \/ ReceberTempo
    BY <1>5, TempoCala
<1>. QED
    BY <1>1, <1>2, <1>3, <1>4, <1>5 DEF Estagio

LEMMA ParadoTudo ==
    ASSUME Tudo, UNCHANGED vars
    PROVE  Tudo'
<1>1. IInv'
    BY Indutivo DEF Tudo
<1>2. /\ LAST_STAGE' = LAST_STAGE /\ FIRST_STAGE' = FIRST_STAGE /\ task_size' = task_size
      /\ FIM' = FIM /\ \A p : Saiu(p)' = Saiu(p)
    BY DEF vars, LAST_STAGE, FIRST_STAGE, task_size, FIM, Saiu
<1>3. Ficha' /\ Impresso'
    BY <1>2 DEF vars, Tudo, Ficha, Impresso
<1>4. Conservado'
    <2>1. Lugares' = Lugares
        BY <1>2 DEF vars, Lugares, Arquivados, Guardados, ACaminho, Ordenando, NoArquivo,
                    NoVetor, NoCanal
    <2>2. \A l : Valor(l)' = Valor(l)
        BY DEF vars, Valor
    <2>. QED
        BY <2>1, <2>2 DEF vars, Tudo, Conservado, Origens
<1>. QED
    BY <1>1, <1>3, <1>4 DEF Tudo

LEMMA IndutivoTudo == Tudo /\ [Next]_vars => Tudo'
<1>. SUFFICES ASSUME Tudo, [Next]_vars PROVE Tudo'
    OBVIOUS
<1>1. CASE UNCHANGED vars
    BY <1>1, ParadoTudo
<1>2. CASE Next
    <2>. USE DEF Tudo
    <2>1. IInv'
        BY <1>2, Indutivo
    <2>2. Conservado'
        BY <1>2, Passos, RodouConservado, SinalConservado DEF IInv
    <2>3. CASE Calou
        BY <2>1, <2>2, <2>3, CalouFicha, CalouImpresso DEF IInv
    <2>4. ASSUME NEW p \in Processo, Imprimiu(p) PROVE Tudo'
        BY <2>1, <2>2, <2>4, ImprimiuFicha, ImprimiuImpresso DEF IInv
    <2>. QED
        BY <1>2, <2>3, <2>4, PassosFicha
<1>. QED
    BY <1>1, <1>2

\* What has been printed is where the sorted input begins.
LEMMA Prefixo ==
    Tudo /\ (\E p \in Processo : Saiu(p)) =>
        saida = SubSeq(Programa!Ordenada(entrada), 1, Len(saida))
<1>. SUFFICES ASSUME Tudo, NEW p \in Processo, Saiu(p)
              PROVE  saida = SubSeq(Programa!Ordenada(entrada), 1, Len(saida))
    OBVIOUS
<1>0. pc[LAST_STAGE] # "ordenar"
    <2>1. p = LAST_STAGE \/ p < LAST_STAGE
        BY Vizinhos
    <2>. QED
        BY <2>1 DEF Tudo, IInv, Contas, Fases, Ordenando, Saiu
<1>. DEFINE s == Programa!Ordenada(entrada)
<1>1. /\ s \in Seq(Int) /\ Len(s) = Len(entrada)
      /\ \A q \in Processo, k \in 1 .. task_size : s[task_size * q + k] = vector_aux[q][k]
    BY <1>0, ListaInteira DEF Tudo, IInv
<1>2. saida \in Seq(Int) /\ Len(saida) <= Len(s) /\ Len(saida) \in Nat
    BY <1>1 DEF Tudo, IInv, Tipos, Impresso
<1>. HIDE DEF s
<1>3. ASSUME NEW i \in 1 .. Len(saida) PROVE saida[i] = s[i]
    <2>1. i \in 1 .. Len(entrada)
        BY <1>1, <1>2
    <2>2. PICK q \in Processo, k \in 1 .. task_size : i = task_size * q + k
        BY <2>1, Etapas DEF Tudo, IInv, Tipos
    <2>3. Saiu(q)
        <3>. SUFFICES ASSUME ~ Saiu(q) PROVE FALSE
            OBVIOUS
        <3>1. Len(saida) <= task_size * q /\ task_size * q \in Nat
            BY Etapas DEF Tudo, Impresso, IInv, Tipos
        <3>. QED
            BY <1>2, <2>2, <3>1
    <2>4. saida[i] = vector_aux[q][k]
        BY <2>2, <2>3 DEF Tudo, Impresso
    <2>. QED
        BY <1>1, <2>2, <2>4
<1>. QED
    <2>1. SubSeq(s, 1, Len(saida)) = [i \in 1 .. Len(saida) |-> s[i]]
        BY <1>1, <1>2
    <2>2. saida = [i \in 1 .. Len(saida) |-> saida[i]]
        BY <1>2
    <2>. QED
        BY <1>3, <2>1, <2>2 DEF s

LEMMA PrefixoDepois ==
    (Tudo /\ (\E p \in Processo : Saiu(p)) =>
        saida = SubSeq(Programa!Ordenada(entrada), 1, Len(saida)))'
BY Prefixo, PTL
LEMMA ImprimiuEscreve ==
    ASSUME Tudo, Tudo', NEW p \in Processo, Imprimiu(p)
    PROVE  Programa!Escrever
<1>1. /\ saida' = SubSeq(Programa!Ordenada(entrada'), 1, Len(saida'))
      /\ entrada' = entrada
    <2>1. Saiu(p)' /\ entrada' = entrada
        BY DEF Imprimiu
    <2>. QED
        BY <2>1, PrefixoDepois
<1>2. Len(saida) < Len(saida')
    <2>1. Len(saida) = task_size * p /\ Len(saida') = task_size * p + task_size
        BY ImprimiuNoLugar DEF Tudo, IInv
    <2>2. task_size \in Nat /\ task_size > 0 /\ task_size * p \in Nat
        BY Etapas DEF Tudo, IInv, Tipos
    <2>. QED
        BY <2>1, <2>2
<1>3. Len(saida') <= Len(entrada)
    BY <1>1 DEF Tudo, Impresso
<1>. QED
    BY <1>1, <1>2, <1>3 DEF Programa!Escrever

LEMMA Passo1 ==
    ASSUME Tudo, [Next]_vars
    PROVE  [Programa!Escrever]_<<entrada, saida>>
<1>1. Tudo'
    BY IndutivoTudo
<1>2. CASE UNCHANGED vars
    BY <1>2 DEF vars
<1>3. CASE Next
    <2>1. CASE Calou
        BY <2>1 DEF Calou
    <2>2. ASSUME NEW p \in Processo, Imprimiu(p) PROVE Programa!Escrever
        BY <1>1, <2>2, ImprimiuEscreve
    <2>. QED
        BY <1>3, <2>1, <2>2, PassosFicha
<1>. QED
    BY <1>2, <1>3

\* The stages together are one sorter: what they print, in the order they do, grows to
\* be the sorted input and is never anything else than its beginning (pipeline.c:5,
\* 145-157, 193-205), for any number of stages, any vector np divides, with any values,
\* equal ones too, and any room of the library.
THEOREM ImplementsSorter == Spec => SorterSpec
<1>1. Init => Programa!Init
    BY EntradasAssumption DEF Init, Programa!Init
<1>2. Tudo /\ [Next]_vars => [Programa!Escrever]_<<entrada, saida>>
    BY Passo1
<1>. QED
    BY <1>1, <1>2, InitTudo, IndutivoTudo, PTL DEF Spec, SorterSpec, Programa!Spec
=============================================================================
